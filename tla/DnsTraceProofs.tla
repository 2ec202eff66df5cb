--------------------------- MODULE DnsTraceProofs ---------------------------
(* Proofs about DnsTrace: the walk keeps to its budget, and it descends.    *)
EXTENDS DnsTrace, WellFoundedInduction, TLAPS

Fields == {"pc", "zone", "servers", "ds", "keys", "child", "cut", "next", "todo", "left", "reply", "said",
           "hops", "chain", "found", "ended", "dnssec", "queries", "truncated", "dead", "expired"}

\* A walk is a function on its fields.
Shaped(walk) == walk = [x \in Fields |-> walk[x]]

\* What the helpers leave alone.
Kept(walk, other) ==
    /\ Shaped(other) /\ other.hops = walk.hops
    /\ other.zone = walk.zone /\ other.child = walk.child /\ other.cut = walk.cut

Same(walk, other) == Kept(walk, other) /\ other.queries = walk.queries

LEMMA QuerySame ==
    ASSUME NEW walk, Shaped(walk), NEW pc, NEW servers
    PROVE  Same(walk, Query(walk, pc, servers)) /\ Query(walk, pc, servers).pc = pc
BY DEF Same, Kept, Shaped, Query, Fields

LEMMA FinishSame ==
    ASSUME NEW walk, Shaped(walk), NEW z
    PROVE  Same(walk, Finish(walk, z)) /\ Finish(walk, z).pc = "verdict"
BY DEF Same, Kept, Shaped, Finish, Stop, Fields

LEMMA AddLinkSame ==
    ASSUME NEW walk, Shaped(walk), NEW status
    PROVE  /\ Same(walk, AddLink(walk, status))
           /\ AddLink(walk, status).pc = IF walk.cut THEN "verdict" ELSE "ask"
<1> DEFINE z == IF walk.cut THEN walk.child ELSE walk.zone
           with == [walk EXCEPT !.chain = Append(@, Link(z, status)), !.keys = (status = Secure)]
           judged == [with EXCEPT !.reply = walk.said]
<1>1. Same(walk, with) /\ Same(walk, judged)
  BY DEF Same, Kept, Shaped, Fields
<1>2. AddLink(walk, status) = IF walk.cut THEN Finish(judged, z) ELSE Query(with, "ask", walk.servers)
  BY DEF AddLink
<1> HIDE DEF with, judged, z
<1>3. Same(judged, Finish(judged, z)) /\ Finish(judged, z).pc = "verdict"
  BY <1>1, FinishSame DEF Same, Kept
<1>4. Same(with, Query(with, "ask", walk.servers)) /\ Query(with, "ask", walk.servers).pc = "ask"
  BY <1>1, QuerySame DEF Same, Kept
<1>. QED
  BY <1>1, <1>2, <1>3, <1>4 DEF Same, Kept

LEMMA ValidateSame ==
    ASSUME NEW walk, Shaped(walk)
    PROVE  /\ Same(walk, Validate(walk))
           /\ Validate(walk).pc \in {"keys", IF walk.cut THEN "verdict" ELSE "ask"}
<1>1. CASE walk.ds.status # ""
  <2>1. Validate(walk) = AddLink(walk, walk.ds.status)
    BY <1>1 DEF Validate
  <2>. QED
    BY <2>1, AddLinkSame
<1>2. CASE walk.ds.status = ""
  <2>1. Validate(walk) = Query(walk, "keys", walk.servers)
    BY <1>2 DEF Validate
  <2>. QED
    BY <2>1, QuerySame
<1>. QED
  BY <1>1, <1>2

LEMMA ParentSame ==
    ASSUME NEW walk, Shaped(walk), NEW ds
    PROVE  /\ Same(walk, Parent(walk, ds))
           /\ walk.cut => Parent(walk, ds).pc \in {"keys", "verdict"}
           /\ ~walk.cut => Parent(walk, ds).pc = "side"
<1> DEFINE given == [walk EXCEPT !.ds = ds]
<1>1. Same(walk, given)
  BY DEF Same, Kept, Shaped, Fields
<1>2. walk.cut => Parent(walk, ds) = Validate(given)
  BY DEF Parent
<1>3. ~walk.cut => Same(walk, Parent(walk, ds)) /\ Parent(walk, ds).pc = "side"
  BY DEF Parent, Same, Kept, Shaped, Fields
<1> HIDE DEF given
<1>4. Same(given, Validate(given)) /\ Validate(given).pc \in {"keys", IF given.cut THEN "verdict" ELSE "ask"}
  BY <1>1, ValidateSame DEF Same, Kept
<1>. QED
  BY <1>1, <1>2, <1>3, <1>4 DEF Same, Kept

LEMMA DelegateSame ==
    ASSUME NEW walk, Shaped(walk)
    PROVE  /\ Same(walk, Delegate(walk))
           /\ walk.cut => Delegate(walk).pc \in {"ds", "keys", "verdict"}
           /\ ~walk.cut => Delegate(walk).pc \in {"ds", "side"}
BY QuerySame, ParentSame DEF Delegate

-----------------------------------------------------------------------------
(* The invariant.                                                          *)

\* Where the walk stands, and what lies above it.
Place ==
    /\ w.zone \in Nat /\ w.cut \in BOOLEAN /\ (~w.cut => w.child \in Nat)
    /\ w.hops \in Seq(Nat)
    /\ w.pc \in {"zone", "ask", "side"} => ~w.cut
    /\ w.pc \in {"zone", "ask"} \/ (w.pc = "keys" /\ ~w.cut) =>
          \A i \in 1..Len(w.hops) : w.hops[i] < w.zone
    /\ w.pc \in {"ds", "side"} /\ ~w.cut =>
          w.zone < w.child /\ \A i \in 1..Len(w.hops) : w.hops[i] <= w.zone

Budget == sent \in Nat /\ w.queries \in Nat /\ sent <= w.queries /\ w.queries <= MaxQueries

WalkInv == Shaped(w) /\ Budget /\ Place /\ Descends

LEMMA WalkInit == Init => WalkInv
<1> SUFFICES ASSUME Init PROVE WalkInv
  OBVIOUS
<1>1. /\ w.pc = "zone" /\ w.zone = 0 /\ w.child = 0 /\ w.cut = FALSE
      /\ w.hops = <<>> /\ w.queries = 0 /\ sent = 0
  BY DEF Init
<1>2. Shaped(w)
  BY DEF Init, Shaped, Fields
<1>3. MaxQueries \in Nat
  BY TraceAssumption
<1>4. Budget
  BY <1>1, <1>3 DEF Budget
<1>5. Place
  <2>1. w.hops \in Seq(Nat)
    BY <1>1
  <2>2. \A i \in 1..Len(w.hops) : FALSE
    BY <1>1
  <2>3. w.zone \in Nat /\ w.child \in Nat
    BY <1>1
  <2>4. w.cut \in BOOLEAN /\ ~w.cut
    BY <1>1, Zenon
  <2>5. w.pc \notin {"keys", "ds", "side"}
    BY <1>1
  <2>. QED
    BY <2>1, <2>2, <2>3, <2>4, <2>5 DEF Place
<1>6. Descends
  BY <1>1 DEF Descends
<1>. QED
  BY <1>2, <1>4, <1>5, <1>6 DEF WalkInv

\* A step that neither charges nor hops, and goes where Place holds.
LEMMA Moves ==
    ASSUME WalkInv, Same(w, w'), UNCHANGED sent, Place'
    PROVE  WalkInv'
BY DEF WalkInv, Same, Kept, Budget, Descends

LEMMA WalkStep == WalkInv /\ [Next]_vars => WalkInv'
<1> SUFFICES ASSUME WalkInv, [Next]_vars PROVE WalkInv'
  OBVIOUS
<1>. MaxQueries \in Nat
  BY TraceAssumption
<1>1. CASE Expire
  <2>1. Same(w, w') /\ w'.pc = w.pc /\ UNCHANGED sent
    BY <1>1 DEF Expire, WalkInv, Same, Kept, Shaped, Fields
  <2>2. Place'
    BY <2>1 DEF Same, Kept, WalkInv, Place
  <2>. QED
    BY <2>1, <2>2, Moves
<1>2. CASE OutOfBudget
  <2>1. Same(w, w') /\ w'.pc = w.pc /\ UNCHANGED sent
    BY <1>2 DEF OutOfBudget, WalkInv, Same, Kept, Shaped, Fields
  <2>2. Place'
    BY <2>1 DEF Same, Kept, WalkInv, Place
  <2>. QED
    BY <2>1, <2>2, Moves
<1>3. CASE Silent
  <2>1. Kept(w, w') /\ w'.pc = w.pc /\ w'.queries = w.queries + 1 /\ sent' = sent + 1
    BY <1>3 DEF Silent, WalkInv, Kept, Shaped, Fields
  <2>2. Budget'
    <3>1. w.queries + 1 <= MaxQueries
      BY <1>3 DEF Silent, CanSpend, WalkInv, Budget
    <3>. QED
      BY <2>1, <3>1 DEF WalkInv, Budget
  <2>3. Place' /\ Descends'
    BY <2>1 DEF Kept, WalkInv, Place, Descends
  <2>. QED
    BY <2>1, <2>2, <2>3 DEF WalkInv, Kept
<1>4. CASE Useless
  <2>1. Kept(w, w') /\ w'.pc = w.pc /\ w'.queries = w.queries + 1 /\ sent' = sent + 1
    BY <1>4 DEF Useless, WalkInv, Kept, Shaped, Fields
  <2>2. Budget'
    <3>1. w.queries + 1 <= MaxQueries
      BY <1>4 DEF Useless, CanSpend, WalkInv, Budget
    <3>. QED
      BY <2>1, <3>1 DEF WalkInv, Budget
  <2>3. Place' /\ Descends'
    BY <2>1 DEF Kept, WalkInv, Place, Descends
  <2>. QED
    BY <2>1, <2>2, <2>3 DEF WalkInv, Kept
<1>5. CASE Answered
  <2>1. Kept(w, w') /\ w'.pc = w.pc /\ w'.queries = w.queries + 1 /\ sent' = sent + 1
    BY <1>5 DEF Answered, WalkInv, Kept, Shaped, Fields
  <2>2. Budget'
    <3>1. w.queries + 1 <= MaxQueries
      BY <1>5 DEF Answered, CanSpend, WalkInv, Budget
    <3>. QED
      BY <2>1, <3>1 DEF WalkInv, Budget
  <2>3. Place' /\ Descends'
    BY <2>1 DEF Kept, WalkInv, Place, Descends
  <2>. QED
    BY <2>1, <2>2, <2>3 DEF WalkInv, Kept
<1>6. CASE TooDeep
  <2>1. Same(w, w') /\ w'.pc = "verdict" /\ UNCHANGED sent
    BY <1>6 DEF TooDeep, Stop, WalkInv, Same, Kept, Shaped, Fields
  <2>2. Place'
    BY <2>1 DEF Same, Kept, WalkInv, Place
  <2>. QED
    BY <2>1, <2>2, Moves
<1>7. CASE EnterZone
  <2>1. w.pc = "zone" /\ w' = Validate(w) /\ UNCHANGED sent
    BY <1>7 DEF EnterZone
  <2>2. Same(w, w') /\ w'.pc \in {"keys", "ask"}
    BY <2>1, ValidateSame DEF WalkInv, Place
  <2>3. Place'
    BY <2>1, <2>2 DEF Same, Kept, WalkInv, Place
  <2>. QED
    BY <2>1, <2>2, <2>3, Moves
<1>8. CASE Keys
  <2>1. w.pc = "keys" /\ w' = AddLink(w, Status(Target, w.ds, w.reply)) /\ UNCHANGED sent
    BY <1>8 DEF Keys, Heard
  <2>2. Same(w, w') /\ w'.pc = IF w.cut THEN "verdict" ELSE "ask"
    BY <2>1, AddLinkSame DEF WalkInv
  <2>3. Place'
    BY <2>1, <2>2 DEF Same, Kept, WalkInv, Place
  <2>. QED
    BY <2>1, <2>2, <2>3, Moves
<1>9. CASE Ask
  <2> DEFINE here == [w EXCEPT !.hops = Append(@, w.zone), !.said = w.reply]
             below == [here EXCEPT !.child = w.reply.child]
             across == [here EXCEPT !.child = w.reply.by, !.cut = TRUE]
  <2>1. w.pc = "ask" /\ w.cut = FALSE /\ UNCHANGED sent
    BY <1>9 DEF Ask, Heard, WalkInv, Place
  <2>2. /\ Shaped(here) /\ here.hops = Append(w.hops, w.zone) /\ here.queries = w.queries
        /\ here.zone = w.zone /\ here.child = w.child /\ here.cut = w.cut
    BY DEF WalkInv, Shaped, Fields
  <2>3. /\ Shaped(below) /\ below.hops = here.hops /\ below.queries = w.queries
        /\ below.zone = w.zone /\ below.child = w.reply.child /\ below.cut = w.cut
    BY <2>2 DEF WalkInv, Shaped, Fields
  <2>4. /\ Shaped(across) /\ across.hops = here.hops /\ across.queries = w.queries
        /\ across.zone = w.zone /\ across.cut = TRUE
    BY <2>2 DEF WalkInv, Shaped, Fields
  <2>5. /\ Follows(w.reply) => w' = Delegate(below)
        /\ ~Follows(w.reply) => \/ w' = Delegate(across)
                                \/ w' = Finish(here, w.zone)
                                \/ w' = Stop(here)
    BY <1>9 DEF Ask, Follows
  <2> HIDE DEF here, below, across
  <2>6. /\ w.hops \in Seq(Nat) /\ w.zone \in Nat
        /\ \A i \in 1..Len(w.hops) : w.hops[i] < w.zone
        /\ here.hops \in Seq(Nat)
        /\ \A i \in 1..Len(here.hops) : here.hops[i] <= w.zone
        /\ \A i \in 2..Len(here.hops) : here.hops[i - 1] < here.hops[i]
    BY <2>1, <2>2 DEF WalkInv, Place, Descends
  <2>7. CASE Follows(w.reply)
    <3>1. Same(below, w') /\ w'.pc \in {"ds", "side"}
      BY <2>1, <2>3, <2>5, <2>7, DelegateSame
    <3>2. w.reply.child \in Nat /\ w.zone < w.reply.child
      BY <2>6, <2>7, TraceAssumption DEF Follows
    <3>3. Place'
      BY <2>1, <2>3, <2>6, <3>1, <3>2 DEF Same, Kept, Place
    <3>. QED
      BY <2>1, <2>3, <2>6, <3>1, <3>3 DEF Same, Kept, WalkInv, Budget, Descends
  <2>8. CASE w' = Delegate(across)
    <3>1. Same(across, w') /\ w'.pc \in {"ds", "keys", "verdict"}
      BY <2>4, <2>8, DelegateSame
    <3>2. Place'
      BY <2>1, <2>4, <2>6, <3>1 DEF Same, Kept, Place
    <3>. QED
      BY <2>1, <2>4, <2>6, <3>1, <3>2 DEF Same, Kept, WalkInv, Budget, Descends
  <2>9. CASE w' \in {Finish(here, w.zone), Stop(here)}
    <3>1. Same(here, Stop(here)) /\ Stop(here).pc = "verdict"
      BY <2>2 DEF Same, Kept, Stop, Shaped, Fields
    <3>2. Same(here, w') /\ w'.pc = "verdict"
      BY <2>2, <2>9, <3>1, FinishSame
    <3>3. Place'
      BY <2>1, <2>2, <2>6, <3>2 DEF Same, Kept, WalkInv, Place
    <3>. QED
      BY <2>1, <2>2, <2>6, <3>2, <3>3 DEF Same, Kept, WalkInv, Budget, Descends
  <2>. QED
    BY <2>5, <2>7, <2>8, <2>9
<1>10. CASE DS
  <2>1. w.pc = "ds" /\ w' = Parent(w, FetchDS(w.reply)) /\ UNCHANGED sent
    BY <1>10 DEF DS, Heard
  <2>2. /\ Same(w, w')
        /\ w.cut => w'.pc \in {"keys", "verdict"}
        /\ ~w.cut => w'.pc = "side"
    BY <2>1, ParentSame DEF WalkInv
  <2>3. Place'
    BY <2>1, <2>2 DEF Same, Kept, WalkInv, Place
  <2>. QED
    BY <2>1, <2>2, <2>3, Moves
<1>11. CASE SideLookup
  <2>1. Kept(w, w') /\ w'.pc = w.pc /\ w'.queries = w.queries + 2 /\ sent' = sent + 2
    BY <1>11 DEF SideLookup, SideCharge, WalkInv, Kept, Shaped, Fields
  <2>2. Budget'
    <3>1. w.queries + 2 <= MaxQueries
      BY <1>11 DEF SideLookup, CanSpend, WalkInv, Budget
    <3>. QED
      BY <2>1, <3>1 DEF WalkInv, Budget
  <2>3. Place' /\ Descends'
    BY <2>1 DEF Kept, WalkInv, Place, Descends
  <2>. QED
    BY <2>1, <2>2, <2>3 DEF WalkInv, Kept
<1>12. CASE SideOutOfBudget
  <2>1. /\ Kept(w, w') /\ w'.pc = w.pc /\ UNCHANGED sent
        /\ w'.queries = IF CanSpend THEN w.queries + 1 ELSE w.queries
    BY <1>12 DEF SideOutOfBudget, WalkInv, Kept, Shaped, Fields
  <2>2. Budget'
    BY <2>1 DEF CanSpend, WalkInv, Budget
  <2>3. Place' /\ Descends'
    BY <2>1 DEF Kept, WalkInv, Place, Descends
  <2>. QED
    BY <2>1, <2>2, <2>3 DEF WalkInv, Kept
<1>13. CASE Descend
  <2>1. CASE w.next = <<>>
    <3>1. Same(w, w') /\ w'.pc = "verdict" /\ UNCHANGED sent
      BY <1>13, <2>1 DEF Descend, Stop, WalkInv, Same, Kept, Shaped, Fields
    <3>2. Place'
      BY <3>1 DEF Same, Kept, WalkInv, Place
    <3>. QED
      BY <3>1, <3>2, Moves
  <2>2. CASE w.next # <<>>
    <3>1. /\ Shaped(w') /\ w'.pc = "zone" /\ w'.zone = w.child /\ w'.child = w.child /\ w'.cut = w.cut
          /\ w'.hops = w.hops /\ w'.queries = w.queries /\ w.pc = "side" /\ UNCHANGED sent
      BY <1>13, <2>2 DEF Descend, WalkInv, Shaped, Fields
    <3>2. Place'
      <4>1. ~w.cut /\ \A i \in 1..Len(w.hops) : w.hops[i] \in Nat /\ w.hops[i] <= w.zone /\ w.zone < w.child
        BY <3>1 DEF WalkInv, Place
      <4>2. \A i \in 1..Len(w.hops) : w.hops[i] < w.child
        BY <4>1 DEF WalkInv, Place
      <4>. QED
        BY <3>1, <4>1, <4>2 DEF WalkInv, Place
    <3>3. Budget' /\ Descends'
      BY <3>1 DEF WalkInv, Budget, Descends
    <3>. QED
      BY <3>1, <3>2, <3>3 DEF WalkInv
  <2>. QED
    BY <2>1, <2>2
<1>14. CASE Verdict
  <2>1. Same(w, w') /\ w'.pc = "done" /\ UNCHANGED sent
    BY <1>14 DEF Verdict, WalkInv, Same, Kept, Shaped, Fields
  <2>2. Place'
    BY <2>1 DEF Same, Kept, WalkInv, Place
  <2>. QED
    BY <2>1, <2>2, Moves
<1>15. CASE UNCHANGED vars
  BY <1>15 DEF vars, WalkInv, Shaped, Fields, Budget, Place, Descends
<1>. QED
  BY <1>1, <1>2, <1>3, <1>4, <1>5, <1>6, <1>7, <1>8, <1>9, <1>10, <1>11, <1>12, <1>13, <1>14, <1>15 DEF Next

\* However its servers answer, a walk sends no more queries than its budget.
THEOREM TraceKeepsToItsBudget == Spec => []QueriesBounded
<1>1. WalkInv => QueriesBounded
  BY TraceAssumption DEF WalkInv, Budget, QueriesBounded
<1>. QED
  BY <1>1, WalkInit, WalkStep, PTL DEF Spec

\* Each zone it asks is strictly below the one before.
THEOREM TraceDescends == Spec => []Descends
<1>1. WalkInv => Descends
  BY DEF WalkInv
<1>. QED
  BY <1>1, WalkInit, WalkStep, PTL DEF Spec

-----------------------------------------------------------------------------
(* The verdict.  What the walk knows: of its chain, of the parent's word,  *)
(* of the reply in hand.  lost is whether it has missed anything.          *)

Of(z) == {Delegates[z][i] : i \in 1..Len(Delegates[z])}
Broken == {"nokeys", "badkeys", "badsigs", "badds"}
Unsigned == {"unsigned", "nods"}

World == hosts \in Hostings /\ signing \in Signings /\ answer \in Answers

Links == [zone : Zones, status : Statuses]
Last(chain) == chain[Len(chain)]
Ends(chain, statuses) == chain # <<>> /\ Last(chain).status \in statuses
Firm(chain) == chain # <<>> => Last(chain).status = Secure
Before(chain, i) == \A j \in 1..(i - 1) : chain[j].status = Secure

\* What a link says is so.
LinkTrue(chain, i, lost) ==
    /\ chain[i].status = Secure =>
          chain[i].zone = i - 1 /\ signing[i - 1] = "signed" /\ Before(chain, i)
    /\ Plain =>
          /\ chain[i].zone = i - 1
          /\ chain[i].status = Bogus => signing[i - 1] \in Broken /\ Before(chain, i)
          /\ chain[i].status = Insecure => \E j \in 1..i :
                /\ Before(chain, j)
                /\ \/ chain[j].status = Bogus
                   \/ chain[j].status = Insecure /\ signing[j - 1] \in Unsigned
          /\ chain[i].status = Unknown => lost

ChainTrue(chain, lost) == chain \in Seq(Links) /\ \A i \in 1..Len(chain) : LinkTrue(chain, i, lost)

\* And what a link that is added will say.
NextTrue(chain, z, status, lost) ==
    /\ z \in Zones /\ status \in Statuses
    /\ status = Secure => z = Len(chain) /\ signing[z] = "signed" /\ Firm(chain)
    /\ Plain =>
          /\ z = Len(chain)
          /\ status = Bogus => signing[z] \in Broken /\ Firm(chain)
          /\ status = Insecure => \/ signing[z] \in Unsigned /\ Firm(chain)
                                  \/ Ends(chain, {Insecure, Bogus})
          /\ status = Unknown => lost

\* The parent's word on zone z.
Word(chain, ds, z, lost) ==
    /\ ds.set \in BOOLEAN /\ ds.status \in {"", Insecure, Bogus, Unknown}
    /\ z \in Zones
    /\ ds.status = "" => Firm(chain)
    /\ ds.status = "" /\ ds.set => z = Len(chain) /\ HasDS(z) /\ signing[z] # "badds"
    /\ Plain =>
          /\ z = Len(chain)
          /\ ds.status = "" /\ ~ds.set => ~HasDS(z)
          /\ ds.status = Bogus => signing[z] = "badds" /\ Firm(chain)
          /\ ds.status = Insecure => Ends(chain, {Insecure, Bogus})
          /\ ds.status = Unknown => lost

\* An authoritative reply has its zone's signatures, or they were lost.
Speaks(r, lost) ==
    /\ r.kind = "auth" /\ r.by \in Zones /\ r.sigs \in BOOLEAN
    /\ r.sigs => HasKeys(r.by)
    /\ ~r.sigs /\ HasKeys(r.by) => lost

KeysHeard(r, z, lost) == r # None => Speaks(r, lost) /\ r.by = z
DSHeard(r, z, lost) == r # None => Speaks(r, lost) /\ (Plain => r.by = z)
NameHeard(r, z, lost) ==
    \/ r = None
    \/ r.kind = "referral" /\ r.child \in Nat /\ (Plain => r.child <= z + 1)
    \/ Speaks(r, lost) /\ r.by = Bottom /\ (Plain => Bottom <= z + 1)

\* The name's zone was reached, or its server keeps that zone to itself.
Reached(walk) ==
    \/ Last(walk.chain).zone = Bottom
    \/ /\ walk.hops # <<>> /\ walk.hops[Len(walk.hops)] # Bottom
       /\ ~HasKeys(Bottom) /\ answer # "absent"

\* The answer is judged for what it is.
Judgement(walk, lost) ==
    LET here == Firm(walk.chain) /\ Last(walk.chain).zone = Bottom IN
    /\ walk.chain # <<>>
    /\ walk.found = "failed" => here /\ answer = "badsig"
    /\ walk.found = "verified" => here /\ answer = "good"
    /\ ~lost => Reached(walk)
    /\ ~lost /\ here => (answer = "good" => walk.found = "verified") /\ (answer = "badsig" => walk.found = "failed")

\* The walk is behind a zone cut that an answer of the zone above shows.
Behind(walk, lost) ==
    /\ walk.child = Bottom
    /\ Speaks(walk.said, lost) /\ walk.said.by = Bottom

Aim(walk) == IF walk.cut THEN walk.child ELSE walk.zone
At(walk) == walk.chain # <<>> /\ Last(walk.chain).zone = walk.zone
Goes(walk) == walk.child \in Zones /\ walk.zone < walk.child /\ (Plain => walk.child = walk.zone + 1)

\* Nothing is said of the answer yet.
Unjudged(walk) == walk.found \notin {"failed", "verified"}

\* What holds wherever the walk stands, but at its end.
Base(walk, lost) ==
    /\ walk.zone \in Zones /\ walk.cut \in BOOLEAN /\ walk.keys \in BOOLEAN /\ ~walk.ended /\ Unjudged(walk)
    /\ ChainTrue(walk.chain, lost)
    /\ walk.keys <=> Ends(walk.chain, {Secure})
    /\ walk.servers \in Seq(Of(walk.zone))
    /\ walk.cut => Behind(walk, lost)

Sense(walk, lost) ==
    /\ walk.pc \in {"zone", "keys", "ask", "ds", "side", "verdict", "done"}
    /\ IF walk.pc \in {"verdict", "done"}
       THEN /\ ChainTrue(walk.chain, lost)
            /\ IF walk.ended THEN Judgement(walk, lost) ELSE Unjudged(walk) /\ (walk.truncated \/ lost)
       ELSE Base(walk, lost)
    /\ walk.pc \in {"keys", "ask", "ds"} => walk.left \in Seq(Of(walk.zone))
    /\ walk.pc \in {"zone", "ask", "side"} => ~walk.cut
    /\ walk.pc \in {"zone", "keys"} => Word(walk.chain, walk.ds, Aim(walk), lost)
    /\ walk.pc = "keys" => KeysHeard(walk.reply, Aim(walk), lost)
    /\ walk.pc = "ask" => At(walk) /\ NameHeard(walk.reply, walk.zone, lost)
    /\ walk.pc = "ds" => At(walk) /\ Goes(walk) /\ walk.keys /\ DSHeard(walk.reply, walk.zone, lost)
    /\ walk.pc = "side" =>
          /\ Goes(walk) /\ Word(walk.chain, walk.ds, walk.child, lost)
          /\ walk.next \in Seq(Of(walk.child)) /\ walk.todo \in Seq(Of(walk.child))

\* What is said in the end.
Spoken(walk, lost) == walk.pc = "done" =>
    /\ walk.dnssec = Secure => Truth = Secure
    /\ Plain =>
          /\ walk.dnssec = Bogus => Truth = Bogus
          /\ walk.dnssec = Insecure => Truth = Insecure
          /\ ~lost /\ ~walk.truncated /\ answer # "partly"
             /\ ~(walk.hops # <<>> /\ walk.hops[Len(walk.hops)] # Bottom /\ ~HasKeys(Bottom) /\ answer # "absent")
                => walk.dnssec = Truth


-----------------------------------------------------------------------------
(* Sequences of servers.                                                   *)

LEMMA LeastNat ==
    ASSUME NEW T \in SUBSET Nat, T # {}
    PROVE  \E n \in T : \A m \in T : n <= m
<1> DEFINE R == OpToRel(<, Nat)
<1>1. \E x \in T : \A y \in T : ~(<<y, x>> \in R)
  BY WFMin, NatLessThanWellFounded
<1>2. \A x, y \in Nat : y < x => <<y, x>> \in R
  BY DEF OpToRel
<1> HIDE DEF R
<1>3. \A x, y \in T : <<y, x>> \notin R => x <= y
  BY <1>2
<1> QED BY <1>1, <1>3

Sifts(s, T, n, f) ==
    f = [i \in 0..n |-> IF i = 0 THEN <<>> ELSE IF s[i] \in T THEN Append(f[i - 1], s[i]) ELSE f[i - 1]]

LEMMA SiftExists ==
    ASSUME NEW s, NEW T, NEW n \in Nat
    PROVE  \E f : Sifts(s, T, n, f)
<1> DEFINE Bad == {m \in Nat : ~\E f : Sifts(s, T, m, f)}
<1> SUFFICES ASSUME Bad # {} PROVE FALSE
  OBVIOUS
<1>1. PICK m \in Bad : \A k \in Bad : m <= k
  <2> HIDE DEF Bad
  <2>1. Bad \in SUBSET Nat
    BY DEF Bad
  <2> QED BY <2>1, LeastNat
<1>2. CASE m = 0
  <2>1. Sifts(s, T, 0, [i \in 0..0 |-> <<>>])
    BY DEF Sifts
  <2> QED BY <1>1, <1>2, <2>1
<1>3. CASE m # 0
  <2>1. m - 1 \in Nat /\ m - 1 \notin Bad
    BY <1>1, <1>3
  <2>2. PICK f : Sifts(s, T, m - 1, f)
    BY <2>1
  <2> DEFINE g == [i \in 0..m |-> IF i = m THEN IF s[m] \in T THEN Append(f[m - 1], s[m]) ELSE f[m - 1]
                                           ELSE f[i]]
  <2>3. ASSUME NEW i \in 0..m
        PROVE  g[i] = IF i = 0 THEN <<>> ELSE IF s[i] \in T THEN Append(g[i - 1], s[i]) ELSE g[i - 1]
    <3>1. m \in Nat
      BY <1>1
    <3>2. CASE i = m
      <4>1. g[m - 1] = f[m - 1]
        BY <1>3, <2>1, <3>1
      <4> QED BY <1>3, <3>1, <3>2, <4>1
    <3>3. CASE i # m
      <4>1. i \in 0..(m - 1) /\ (i # 0 => i - 1 \in 0..m /\ i - 1 # m)
        BY <3>1, <3>3
      <4>2. g[i] = f[i] /\ (i # 0 => g[i - 1] = f[i - 1])
        BY <3>1, <3>3, <4>1
      <4>3. f[i] = IF i = 0 THEN <<>> ELSE IF s[i] \in T THEN Append(f[i - 1], s[i]) ELSE f[i - 1]
        BY <2>2, <4>1 DEF Sifts
      <4> QED BY <4>2, <4>3
    <3> QED BY <3>2, <3>3
  <2>4. Sifts(s, T, m, g)
    BY <2>3 DEF Sifts
  <2> QED BY <1>1, <2>4
<1> QED BY <1>2, <1>3

LEMMA SiftStays ==
    ASSUME NEW S, NEW s \in Seq(S), NEW T, NEW f, Sifts(s, T, Len(s), f), NEW n \in 0..Len(s)
    PROVE  f[n] \in Seq(S)
<1> DEFINE Bad == {m \in 0..Len(s) : f[m] \notin Seq(S)}
<1> SUFFICES ASSUME Bad # {} PROVE FALSE
  OBVIOUS
<1>1. PICK m \in Bad : \A k \in Bad : m <= k
  <2> HIDE DEF Bad
  <2>1. Bad \in SUBSET Nat
    BY DEF Bad
  <2> QED BY <2>1, LeastNat
<1>2. f[0] = <<>> /\ <<>> \in Seq(S)
  BY DEF Sifts
<1>3. m \in 0..Len(s) /\ f[m] \notin Seq(S)
  BY <1>1
<1>4. m - 1 \in 0..Len(s) /\ m # 0
  <2> HIDE DEF Bad
  <2>1. m # 0
    BY <1>2, <1>3
  <2>2. Len(s) \in Nat
    OBVIOUS
  <2> QED BY <1>3, <2>1, <2>2
<1>5. m - 1 \notin Bad
  BY <1>1, <1>3, <1>4
<1>6. f[m] = IF s[m] \in T THEN Append(f[m - 1], s[m]) ELSE f[m - 1]
  BY <1>3, <1>4 DEF Sifts
<1>7. f[m - 1] \in Seq(S) /\ s[m] \in S
  BY <1>3, <1>4, <1>5
<1>8. f[m] \in Seq(S)
  <2> HIDE DEF Bad
  <2>1. Append(f[m - 1], s[m]) \in Seq(S)
    BY <1>7
  <2> QED BY <1>6, <1>7, <2>1
<1> QED BY <1>3, <1>8

\* What is sifted out of a sequence was in it.
LEMMA WithinStays ==
    ASSUME NEW S, NEW s \in Seq(S), NEW T
    PROVE  Within(s, T) \in Seq(S)
<1> DEFINE f == CHOOSE f : Sifts(s, T, Len(s), f)
<1>1. Within(s, T) = f[Len(s)]
  BY DEF Within, Sifts
<1>2. Sifts(s, T, Len(s), f)
  BY SiftExists
<1> HIDE DEF f
<1> QED BY <1>1, <1>2, SiftStays

LEMMA TailStays ==
    ASSUME NEW S, NEW s \in Seq(S), s # <<>>
    PROVE  Head(s) \in S /\ Tail(s) \in Seq(S)
OBVIOUS

LEMMA CandidatesStay ==
    ASSUME NEW S, NEW s \in Seq(S)
    PROVE  Candidates(s) \in Seq(S)
<1>1. LiveFirst(s) \in Seq(S)
  BY WithinStays DEF LiveFirst
<1>2. MaxServersPerHop \in Nat
  BY TraceAssumption
<1> DEFINE order == LiveFirst(s)
           n == IF Len(order) < MaxServersPerHop THEN Len(order) ELSE MaxServersPerHop
<1>3. n \in 0..Len(order)
  BY <1>1, <1>2
<1>4. Candidates(s) = SubSeq(order, 1, n)
  BY DEF Candidates
<1> HIDE DEF order, n
<1>5. order \in Seq(S)
  BY <1>1 DEF order
<1> QED BY <1>3, <1>4, <1>5

-----------------------------------------------------------------------------
(* The links of a chain.                                                   *)

LEMMA ChainGrows ==
    ASSUME NEW chain, NEW lost \in BOOLEAN, ChainTrue(chain, lost), NEW z, NEW status, NextTrue(chain, z, status, lost)
    PROVE  /\ ChainTrue(Append(chain, Link(z, status)), lost)
           /\ Append(chain, Link(z, status)) # <<>>
           /\ Last(Append(chain, Link(z, status))) = Link(z, status)
<1> DEFINE n == Len(chain)
           longer == Append(chain, Link(z, status))
<1>1. Link(z, status) \in Links /\ chain \in Seq(Links) /\ n \in Nat
  BY DEF NextTrue, ChainTrue, Link, Links
<1>2. /\ longer \in Seq(Links) /\ Len(longer) = n + 1 /\ longer[n + 1] = Link(z, status)
      /\ \A i \in 1..n : longer[i] = chain[i]
  BY <1>1
<1> HIDE DEF longer
<1>3. \A i \in 1..(n + 1) : Before(longer, i) <=> Before(chain, i)
  BY <1>1, <1>2 DEF Before
<1>4. n # 0 => /\ n \in 1..n /\ LinkTrue(chain, n, lost)
               /\ chain[n].status = Secure => Before(chain, n + 1)
  <2>1. n # 0 => n \in 1..n /\ LinkTrue(chain, n, lost)
    BY <1>1 DEF ChainTrue
  <2> QED BY <1>1, <2>1 DEF LinkTrue, Before
<1>5. chain = <<>> <=> n = 0
  BY <1>1
<1>6. Firm(chain) => Before(longer, n + 1)
  <2>1. n = 0 => Before(chain, n + 1)
    BY DEF Before
  <2> QED BY <1>1, <1>3, <1>4, <1>5, <2>1 DEF Firm, Last
<1>7. ASSUME NEW i \in 1..n PROVE LinkTrue(longer, i, lost)
  <2>1. LinkTrue(chain, i, lost)
    BY DEF ChainTrue
  <2>2. longer[i] = chain[i] /\ \A j \in 1..i : longer[j] = chain[j] /\ (Before(longer, j) <=> Before(chain, j))
    BY <1>1, <1>2, <1>3
  <2>3. i \in 1..i
    BY <1>1
  <2> HIDE DEF n
  <2> QED BY <2>1, <2>2, <2>3 DEF LinkTrue
<1>8. LinkTrue(longer, n + 1, lost)
  <2> DEFINE x == longer[n + 1]
  <2>1. x.zone = z /\ x.status = status
    BY <1>2 DEF Link
  <2>2. x.status = Secure => x.zone = n + 1 - 1 /\ signing[n + 1 - 1] = "signed" /\ Before(longer, n + 1)
    BY <1>1, <1>6, <2>1 DEF NextTrue
  <2>3. Plain => /\ x.zone = n + 1 - 1
                 /\ x.status = Bogus => signing[n + 1 - 1] \in Broken /\ Before(longer, n + 1)
                 /\ x.status = Unknown => lost
    BY <1>1, <1>6, <2>1 DEF NextTrue
  <2>4. ASSUME Plain, x.status = Insecure
        PROVE  \E j \in 1..(n + 1) : /\ Before(longer, j)
                                     /\ \/ longer[j].status = Bogus
                                        \/ longer[j].status = Insecure /\ signing[j - 1] \in Unsigned
    <3>1. CASE signing[z] \in Unsigned /\ Firm(chain)
      <4>1. n + 1 \in 1..(n + 1) /\ signing[n + 1 - 1] \in Unsigned
        BY <1>1, <2>1, <2>3, <2>4, <3>1
      <4> QED BY <1>6, <2>4, <3>1, <4>1
    <3>2. CASE Ends(chain, {Insecure, Bogus})
      <4>1. n # 0 /\ chain[n].status \in {Insecure, Bogus} /\ LinkTrue(chain, n, lost)
        BY <1>4, <1>5, <3>2 DEF Ends, Last
      <4>2. chain[n].status = Bogus => Before(chain, n)
        BY <2>4, <4>1 DEF LinkTrue
      <4>3. \E j \in 1..n : /\ Before(chain, j)
                            /\ \/ chain[j].status = Bogus
                               \/ chain[j].status = Insecure /\ signing[j - 1] \in Unsigned
        BY <1>4, <2>4, <4>1, <4>2 DEF LinkTrue
      <4>4. \A j \in 1..n : j \in 1..(n + 1) /\ longer[j] = chain[j] /\ (Before(longer, j) <=> Before(chain, j))
        BY <1>1, <1>2, <1>3
      <4> HIDE DEF n
      <4> QED BY <4>3, <4>4
    <3> QED BY <2>1, <2>4, <3>1, <3>2 DEF NextTrue
  <2> QED BY <2>2, <2>3, <2>4 DEF LinkTrue
<1>9. \A i \in 1..(n + 1) : i = n + 1 \/ i \in 1..n
  BY <1>1
<1>10. \A i \in 1..Len(longer) : LinkTrue(longer, i, lost)
  BY <1>2, <1>7, <1>8, <1>9
<1>11. longer # <<>> /\ Last(longer) = Link(z, status)
  BY <1>1, <1>2 DEF Last
<1> QED BY <1>2, <1>10, <1>11 DEF ChainTrue, longer

\* What was missed stays missed.
LEMMA ChainLoses ==
    ASSUME NEW chain, NEW lost \in BOOLEAN, NEW more \in BOOLEAN, lost => more, ChainTrue(chain, lost)
    PROVE  ChainTrue(chain, more)
BY DEF ChainTrue, LinkTrue

\* What the last link says.
LEMMA LastLink ==
    ASSUME NEW chain, NEW lost \in BOOLEAN, ChainTrue(chain, lost), chain # <<>>
    PROVE  /\ Last(chain) \in Links /\ Len(chain) \in Nat \ {0}
           /\ LinkTrue(chain, Len(chain), lost)
           /\ Last(chain).status \in Statuses
           /\ Last(chain).status = Secure => /\ Last(chain).zone = Len(chain) - 1
                                             /\ signing[Last(chain).zone] = "signed"
           /\ Plain => /\ Last(chain).zone = Len(chain) - 1
                       /\ Last(chain).status = Unknown => lost
<1>1. chain \in Seq(Links) /\ Len(chain) \in 1..Len(chain) /\ Len(chain) \in Nat
  BY DEF ChainTrue
<1>2. LinkTrue(chain, Len(chain), lost) /\ chain[Len(chain)] \in Links
  BY <1>1 DEF ChainTrue
<1> QED BY <1>1, <1>2 DEF LinkTrue, Last, Links

-----------------------------------------------------------------------------
(* What the nameservers say, and what the walk makes of it.                *)

LEMMA Signs ==
    ASSUME World, NEW z \in Zones
    PROVE  signing[z] \in {"signed", "unsigned"} \cup Broken \cup Unsigned
<1>1. signing \in [Zones -> {"signed", "unsigned", "nods", "nokeys", "badkeys", "badsigs", "badds"}]
  BY TraceAssumption DEF World
<1> QED BY <1>1 DEF Broken, Unsigned

LEMMA RootSigned == World => signing[0] = "signed"
BY TraceAssumption DEF World

LEMMA SetHasTop ==
    ASSUME NEW H \in SUBSET Zones, H # {}
    PROVE  \E d \in H : \A g \in H : g <= d
<1> DEFINE T == {Bottom - h : h \in H}
<1>1. Bottom \in Nat /\ \A h \in H : h \in Nat /\ h <= Bottom /\ Bottom - h \in Nat
  BY TraceAssumption DEF Zones
<1>2. PICK n \in T : \A m \in T : n <= m
  <2>1. T \in SUBSET Nat /\ T # {}
    BY <1>1
  <2> HIDE DEF T
  <2> QED BY <2>1, LeastNat
<1>3. PICK d \in H : n = Bottom - d
  BY <1>2
<1>4. ASSUME NEW g \in H PROVE g <= d
  <2>1. Bottom - d <= Bottom - g
    BY <1>2, <1>3
  <2> QED BY <1>1, <2>1
<1> QED BY <1>4

\* An answer comes from the zone that has the records, or from the child of that
\* zone when it is asked for its own DS; a referral from a zone the server has.
LEMMA ReplyIs ==
    ASSUME World, NEW s \in Servers, NEW type, NEW z \in Zones, NEW owner,
           owner = CASE type = "name" -> Bottom [] type = "DNSKEY" -> z [] OTHER -> z - 1,
           NEW r, r = Reply(s, type, z)
    PROVE  \/ r = None
           \/ \E d \in hosts[s] : d <= owner /\ d # owner /\ r = Referral(d + 1)
           \/ owner \in hosts[s] /\ r = Auth(owner, HasKeys(owner))
           \/ /\ type = "DS" /\ z \in hosts[s] /\ (\A d \in hosts[s] : ~(d <= owner))
              /\ r = Auth(z, HasKeys(z))
<1> DEFINE held == {h \in hosts[s] : h <= owner}
           deepest == CHOOSE h \in held : \A g \in held : g <= h
<1>1. r = CASE held # {} /\ deepest = owner -> Auth(owner, HasKeys(owner))
            [] held # {} /\ deepest # owner -> Referral(deepest + 1)
            [] held = {} /\ type = "DS" /\ z \in hosts[s] -> Auth(z, HasKeys(z))
            [] OTHER -> None
  BY DEF Reply
<1>2. hosts[s] \in SUBSET Zones
  BY TraceAssumption DEF World
<1>3. held # {} => deepest \in held
  <2>1. held \in SUBSET Zones
    BY <1>2
  <2> HIDE DEF held
  <2> QED BY <2>1, SetHasTop
<1>4. \A d \in held : d \in hosts[s] /\ d <= owner
  OBVIOUS
<1>5. held = {} => \A d \in hosts[s] : ~(d <= owner)
  OBVIOUS
<1> HIDE DEF held, deepest
<1> QED BY <1>1, <1>3, <1>4, <1>5

\* The keys of a zone are asked of its servers.
LEMMA KeysReply ==
    ASSUME World, NEW s \in Servers, NEW z \in Zones, NEW r, r = Reply(s, "DNSKEY", z), r.kind = "auth"
    PROVE  r = Auth(z, HasKeys(z))
<1>1. \/ r = None
      \/ \E d \in hosts[s] : r = Referral(d + 1)
      \/ r = Auth(z, HasKeys(z))
  BY ReplyIs
<1> QED BY <1>1 DEF None, Referral

LEMMA DSReply ==
    ASSUME World, NEW z \in Zones, NEW s \in Of(z), NEW child \in Zones, z < child, Plain => child = z + 1,
           NEW r, r = Reply(s, "DS", child), r.kind = "auth"
    PROVE  \/ r = Auth(child - 1, HasKeys(child - 1)) /\ child - 1 \in Zones
           \/ r = Auth(child, HasKeys(child)) /\ ~Plain
<1>1. z \in Nat /\ child \in Nat /\ child <= Bottom /\ Bottom \in Nat /\ child - 1 \in Zones
  BY TraceAssumption DEF Zones
<1>2. s \in Servers
  BY TraceAssumption DEF Of
<1>3. \/ r = None
      \/ \E d \in hosts[s] : r = Referral(d + 1)
      \/ r = Auth(child - 1, HasKeys(child - 1))
      \/ child \in hosts[s] /\ (\A d \in hosts[s] : ~(d <= child - 1)) /\ r = Auth(child, HasKeys(child))
  BY <1>2, ReplyIs
<1>4. Plain /\ child \in hosts[s] => z \in hosts[s] /\ z <= child - 1
  <2>1. PICK i \in 1..Len(Delegates[z]) : s = Delegates[z][i]
    BY DEF Of
  <2> QED BY <1>1, <2>1 DEF Plain
<1> QED BY <1>1, <1>3, <1>4 DEF None, Referral

LEMMA NameReply ==
    ASSUME World, NEW z \in Zones, NEW s \in Of(z), NEW r, r = Reply(s, "name", z),
           r.kind \in {"auth", "referral"}
    PROVE  \/ r = Auth(Bottom, HasKeys(Bottom)) /\ (Plain => Bottom <= z + 1)
           \/ r.kind = "referral" /\ r.child \in Nat /\ (Plain => r.child <= z + 1)
<1>1. z \in Nat /\ z <= Bottom /\ Bottom \in Nat
  BY TraceAssumption DEF Zones
<1>2. s \in Servers /\ hosts[s] \in SUBSET Zones
  BY TraceAssumption DEF Of, World
<1>3. \/ r = None
      \/ \E d \in hosts[s] : d <= Bottom /\ d # Bottom /\ r = Referral(d + 1)
      \/ Bottom \in hosts[s] /\ r = Auth(Bottom, HasKeys(Bottom))
  BY <1>2, ReplyIs
<1>4. Plain => \A d \in hosts[s] : z < d => d = z + 1 /\ d = Bottom
  <2>1. PICK i \in 1..Len(Delegates[z]) : s = Delegates[z][i]
    BY DEF Of
  <2> QED BY <2>1 DEF Plain
<1>5. \A d \in hosts[s] : d \in Nat /\ d + 1 \in Nat
  BY <1>2 DEF Zones
<1>6. CASE \E d \in hosts[s] : d # Bottom /\ r = Referral(d + 1)
  <2>1. PICK d \in hosts[s] : d # Bottom /\ r = Referral(d + 1)
    BY <1>6
  <2>2. Plain => d + 1 <= z + 1
    BY <1>1, <1>4, <1>5, <2>1
  <2> QED BY <1>5, <2>1, <2>2 DEF Referral
<1>7. CASE Bottom \in hosts[s] /\ r = Auth(Bottom, HasKeys(Bottom))
  BY <1>1, <1>4, <1>7
<1> QED BY <1>3, <1>6, <1>7 DEF None

\* Signatures that were on the way arrive, or are lost.
LEMMA Carried ==
    ASSUME World, NEW by \in Zones, NEW lost \in BOOLEAN, NEW kept \in BOOLEAN, ~kept => lost,
           NEW r, r = IF kept THEN Auth(by, HasKeys(by)) ELSE Auth(by, FALSE)
    PROVE  Speaks(r, lost) /\ r.by = by /\ r # None
<1>1. HasKeys(by) \in BOOLEAN
  BY DEF HasKeys
<1> QED BY <1>1 DEF Speaks, Auth, None

-----------------------------------------------------------------------------
(* A link's status.                                                        *)

\* What the keys of a zone add to its parent's word.
LEMMA StatusTrue ==
    ASSUME World, NEW chain, NEW ds, NEW z, NEW lost \in BOOLEAN, NEW r, Word(chain, ds, z, lost),
           KeysHeard(r, z, lost), r = None => lost
    PROVE  NextTrue(chain, z, Status(z, ds, r), lost)
<1> DEFINE st == Status(z, ds, r)
<1>1. z \in Zones /\ signing[z] \in {"signed", "unsigned"} \cup Broken \cup Unsigned
  BY Signs DEF Word
<1>2. CASE ds.status # ""
  <2>1. st = ds.status
    BY <1>2 DEF Status
  <2> QED BY <1>1, <1>2, <2>1 DEF Word, NextTrue, Statuses, Broken, Secure, Bogus, Insecure, Unknown
<1>3. CASE ds.status = "" /\ ~ds.set
  <2>1. st = Insecure
    BY <1>3 DEF Status
  <2>2. Plain => signing[z] \in Unsigned
    BY <1>1, <1>3 DEF Word, HasDS, Unsigned, Broken
  <2> QED BY <1>1, <1>3, <2>1, <2>2 DEF Word, NextTrue, Statuses, Secure, Bogus, Insecure, Unknown
<1>4. CASE ds.status = "" /\ ds.set
  <2>1. /\ Firm(chain) /\ z = Len(chain)
        /\ signing[z] \in {"signed", "nokeys", "badkeys", "badsigs"}
    BY <1>4 DEF Word, HasDS
  <2>2. CASE r = None
    <3>1. st = Unknown
      BY <1>4, <2>2 DEF Status
    <3> QED BY <1>1, <2>1, <2>2, <3>1 DEF NextTrue, Statuses, Secure, Bogus, Insecure, Unknown
  <2>3. CASE r # None
    <3>1. st = IF r.kind # "auth" \/ ~HasKeys(z) \/ signing[z] = "badkeys" THEN Bogus
               ELSE IF ~r.sigs THEN Unknown
               ELSE IF signing[z] = "badsigs" THEN Bogus ELSE Secure
      BY <1>4, <2>3 DEF Status
    <3>2. r.kind = "auth" /\ (~r.sigs /\ HasKeys(z) => lost)
      BY <2>3 DEF KeysHeard, Speaks
    <3>3. \/ st = Bogus /\ signing[z] \in Broken
          \/ st = Unknown /\ lost
          \/ st = Secure /\ signing[z] = "signed"
      BY <2>1, <3>1, <3>2 DEF HasKeys, Broken
    <3> QED BY <1>1, <2>1, <3>3 DEF NextTrue, Statuses, Secure, Bogus, Insecure, Unknown
  <2> QED BY <2>2, <2>3
<1> QED BY <1>2, <1>3, <1>4 DEF Word

LEMMA NoWord ==
    ASSUME NEW ds, NEW set, ds = [set |-> set, status |-> ""]
    PROVE  ds.set = set /\ ds.status = ""
<1>1. ds.set = set
  OBVIOUS
<1>2. ds.status = ""
  OBVIOUS
<1> QED BY <1>1, <1>2

\* What the parent answers about the DS is its word.
LEMMA FetchTrue ==
    ASSUME World, NEW lost \in BOOLEAN, Base(w, lost), At(w), Goes(w), w.keys, NEW r, DSHeard(r, w.zone, lost),
           r = None => lost, NEW ds, ds = FetchDS(r)
    PROVE  Word(w.chain, ds, w.child, lost)
<1>1. /\ w.zone \in Nat /\ w.child \in Nat /\ w.child \in Zones /\ w.zone < w.child
      /\ Plain => w.child = w.zone + 1
  BY DEF Base, Goes, Zones
<1>2. w.chain # <<>> /\ Last(w.chain).status = Secure /\ Firm(w.chain) /\ ChainTrue(w.chain, lost)
  BY DEF Base, Ends, Firm
<1>3. w.zone = Len(w.chain) - 1 /\ signing[w.zone] = "signed" /\ Len(w.chain) \in Nat
  BY <1>2, LastLink DEF At
<1>4. CASE r = None
  <2>1. ds = [set |-> FALSE, status |-> Unknown]
    BY <1>4 DEF FetchDS
  <2>2. ds.set = FALSE /\ ds.status = Unknown
    BY <2>1
  <2>3. Plain => w.child = Len(w.chain)
    BY <1>1, <1>3
  <2> QED BY <1>1, <1>2, <1>4, <2>2, <2>3 DEF Word, Unknown, Bogus, Insecure
<1>5. CASE r # None /\ ~ShowsDS(r)
  <2>1. ds = [set |-> FALSE, status |-> ""]
    BY <1>5 DEF FetchDS
  <2>2. Plain => ~HasDS(w.child)
    BY <1>1, <1>5 DEF ShowsDS, DSHeard, Speaks
  <2>3. ds.set = FALSE /\ ds.status = ""
    BY <2>1, NoWord
  <2>4. Plain => w.child = Len(w.chain)
    BY <1>1, <1>3
  <2> QED BY <1>1, <1>2, <2>2, <2>3, <2>4 DEF Word, Unknown, Bogus, Insecure
<1>6. CASE r # None /\ ShowsDS(r)
  <2>1. ds = [set |-> TRUE, status |-> DSWord(r)]
    BY <1>6 DEF FetchDS
  <2>2. r.by = w.child - 1 /\ HasDS(w.child) /\ Speaks(r, lost) /\ (Plain => r.by = w.zone)
    BY <1>6 DEF ShowsDS, DSHeard
  <2>3. DSWord(r) = CASE ~r.sigs -> Unknown
                      [] r.sigs /\ r.by = w.zone /\ signing[w.child] # "badds" -> ""
                      [] OTHER -> Bogus
    BY DEF DSWord
  <2>4. HasKeys(w.zone)
    BY <1>3 DEF HasKeys
  <2>5. \/ ds.status = Unknown /\ (Plain => lost)
        \/ ds.status = "" /\ w.child = Len(w.chain) /\ signing[w.child] # "badds"
        \/ ds.status = Bogus /\ (Plain => signing[w.child] = "badds")
    <3>1. r.sigs \in BOOLEAN /\ (Plain /\ ~r.sigs => lost)
      BY <2>2, <2>4 DEF Speaks
    <3>2. r.by = w.zone => w.child = Len(w.chain)
      BY <1>1, <1>3, <2>2
    <3>3. ds.status = DSWord(r)
      BY <2>1
    <3>4. CASE ~r.sigs
      BY <2>3, <3>1, <3>3, <3>4
    <3>5. CASE r.sigs /\ r.by = w.zone /\ signing[w.child] # "badds"
      BY <2>3, <3>2, <3>3, <3>5
    <3>6. CASE r.sigs /\ ~(r.by = w.zone /\ signing[w.child] # "badds")
      <4>1. ds.status = Bogus
        BY <2>3, <3>3, <3>6
      <4> QED BY <2>2, <3>6, <4>1
    <3> QED BY <3>1, <3>4, <3>5, <3>6
  <2>6. ds.set = TRUE
    BY <2>1
  <2>7. Plain => w.child = Len(w.chain)
    BY <1>1, <1>3
  <2> QED BY <1>1, <1>2, <2>2, <2>5, <2>6, <2>7 DEF Word, Unknown, Bogus, Insecure
<1> QED BY <1>4, <1>5, <1>6

\* Where the zone above is not secure, its child inherits what is known.
LEMMA InheritedTrue ==
    ASSUME NEW lost \in BOOLEAN, NEW walk, walk.chain = w.chain, Base(walk, lost), At(walk), Goes(walk), ~walk.keys
    PROVE  Word(walk.chain, Inherited, walk.child, lost)
<1>1. /\ walk.zone \in Nat /\ walk.child \in Nat /\ walk.child \in Zones
      /\ Plain => walk.child = walk.zone + 1
  BY DEF Base, Goes, Zones
<1>2. walk.chain # <<>> /\ ChainTrue(walk.chain, lost) /\ Last(walk.chain).status # Secure
  BY DEF Base, Ends, At
<1>3. /\ Last(walk.chain).status \in Statuses /\ Len(walk.chain) \in Nat
      /\ Plain => walk.zone = Len(walk.chain) - 1 /\ (Last(walk.chain).status = Unknown => lost)
  BY <1>2, LastLink DEF At
<1>4. Last(walk.chain) = w.chain[Len(w.chain)]
  BY DEF Last
<1>5. Inherited = [set |-> FALSE, status |-> IF Last(walk.chain).status = Unknown THEN Unknown ELSE Insecure]
  BY <1>4 DEF Inherited, LastStatus
<1>6. Plain => walk.child = Len(walk.chain)
  BY <1>1, <1>3
<1>7. Last(walk.chain).status # Unknown => Ends(walk.chain, {Insecure, Bogus})
  BY <1>2, <1>3 DEF Ends, Statuses
<1> QED BY <1>1, <1>2, <1>3, <1>5, <1>6, <1>7 DEF Word, Unknown, Bogus, Insecure

-----------------------------------------------------------------------------
(* The answer's judgement.                                                 *)

LEMMA JudgedOne ==
    ASSUME NEW x
    PROVE  Judged(<<x>>) = x
<1> DEFINE sets == <<x>>
           bad == {i \in DOMAIN sets : sets[i] # "verified"}
<1>1. Judged(sets) = IF bad = {} THEN "verified" ELSE sets[CHOOSE i \in bad : \A j \in bad : i <= j]
  BY DEF Judged
<1>2. DOMAIN sets = {1} /\ sets[1] = x
  OBVIOUS
<1>3. CASE x = "verified"
  <2>1. bad = {}
    BY <1>2, <1>3
  <2> QED BY <1>1, <1>3, <2>1
<1>4. CASE x # "verified"
  <2>1. bad = {1}
    BY <1>2, <1>4
  <2>2. (CHOOSE i \in bad : \A j \in bad : i <= j) = 1
    BY <2>1
  <2> QED BY <1>1, <1>2, <2>1, <2>2
<1> QED BY <1>3, <1>4

LEMMA JudgedTwo ==
    ASSUME NEW x, x # "failed"
    PROVE  Judged(<<x, "unsigned">>) \notin {"verified", "failed"}
<1> DEFINE sets == <<x, "unsigned">>
           bad == {i \in DOMAIN sets : sets[i] # "verified"}
           first == CHOOSE i \in bad : \A j \in bad : i <= j
<1>1. Judged(sets) = IF bad = {} THEN "verified" ELSE sets[first]
  BY DEF Judged
<1>2. DOMAIN sets = {1, 2} /\ sets[1] = x /\ sets[2] = "unsigned"
  OBVIOUS
<1>3. 2 \in bad /\ bad \in SUBSET Nat
  BY <1>2
<1>4. first \in bad
  <2> HIDE DEF bad
  <2> QED BY <1>3, LeastNat
<1>5. sets[first] # "verified" /\ first \in {1, 2}
  BY <1>2, <1>4
<1> HIDE DEF sets, bad, first
<1>6. sets[first] \in {x, "unsigned"} /\ Judged(sets) = sets[first]
  BY <1>1, <1>2, <1>3, <1>5
<1>7. Judged(sets) \notin {"verified", "failed"}
  BY <1>5, <1>6
<1> QED BY <1>7 DEF sets

\* What the RRsets come to.
LEMMA SetsJudged ==
    ASSUME World, NEW r, r.sigs \in BOOLEAN, NEW z, NEW sets, sets = RRsets(r, z)
    PROVE  /\ sets = <<>> <=> answer = "absent"
           /\ answer # "absent" =>
                 /\ Judged(sets) = "failed" <=> answer = "badsig" /\ r.sigs /\ r.by = z
                 /\ Judged(sets) = "verified" <=> answer = "good" /\ r.sigs /\ r.by = z
<1>1. answer \in {"good", "badsig", "partly", "foreign", "absent"}
  BY TraceAssumption DEF World
<1>2. CASE answer = "absent"
  BY <1>2 DEF RRsets
<1>3. CASE answer = "foreign"
  <2>1. PICK x \in {"foreign", "unsigned"} : sets = <<x>>
    BY <1>3 DEF RRsets
  <2>2. Judged(sets) = x /\ sets # <<>>
    BY <2>1, JudgedOne
  <2> QED BY <1>3, <2>2
<1>4. CASE answer = "partly"
  <2>1. PICK x \in {"verified", "foreign", "unsigned"} : sets = <<x, "unsigned">>
    BY <1>4 DEF RRsets
  <2>2. Judged(sets) \notin {"verified", "failed"} /\ sets # <<>>
    BY <2>1, JudgedTwo
  <2> QED BY <1>4, <2>2
<1>5. CASE answer \in {"good", "badsig"}
  <2> DEFINE x == CASE ~r.sigs -> "unsigned"
                    [] r.sigs /\ r.by # z -> "foreign"
                    [] r.sigs /\ r.by = z -> IF answer = "good" THEN "verified" ELSE "failed"
  <2>1. sets = <<x>>
    BY <1>5 DEF RRsets
  <2>2. /\ ~r.sigs => x = "unsigned"
        /\ r.sigs /\ r.by # z => x = "foreign"
        /\ r.sigs /\ r.by = z => x = IF answer = "good" THEN "verified" ELSE "failed"
    OBVIOUS
  <2> HIDE DEF x
  <2>3. Judged(sets) = x /\ sets # <<>>
    BY <2>1, JudgedOne
  <2> QED BY <1>5, <2>2, <2>3
<1> QED BY <1>1, <1>2, <1>3, <1>4, <1>5

\* finish says of the answer what it is.
LEMMA FinishJudges ==
    ASSUME World, NEW lost \in BOOLEAN, NEW walk, Shaped(walk), ChainTrue(walk.chain, lost),
           walk.keys <=> Ends(walk.chain, {Secure}), NEW z, walk.chain # <<>>, Last(walk.chain).zone = z,
           Speaks(walk.reply, lost), walk.reply.by = Bottom,
           \/ z = Bottom
           \/ /\ walk.hops # <<>> /\ walk.hops[Len(walk.hops)] # Bottom
              /\ ~walk.reply.sigs /\ answer # "absent"
    PROVE  Judgement(Finish(walk, z), lost)
<1> DEFINE sets == RRsets(walk.reply, z)
           there == Finish(walk, z)
<1>1. /\ there.chain = walk.chain /\ there.hops = walk.hops
      /\ there.found = CASE sets = <<>> -> "none"
                         [] sets # <<>> /\ ~walk.keys -> "unchecked"
                         [] OTHER -> Judged(sets)
  BY DEF Finish, Stop, Shaped, Fields
<1>2. walk.reply.sigs \in BOOLEAN /\ (~walk.reply.sigs /\ HasKeys(Bottom) => lost)
  BY DEF Speaks
<1>3. /\ sets = <<>> <=> answer = "absent"
      /\ answer # "absent" =>
            /\ Judged(sets) = "failed" <=> answer = "badsig" /\ walk.reply.sigs /\ Bottom = z
            /\ Judged(sets) = "verified" <=> answer = "good" /\ walk.reply.sigs /\ Bottom = z
  BY <1>2, SetsJudged
<1>4. walk.keys => Firm(walk.chain) /\ Last(walk.chain).status = Secure
  BY DEF Ends, Firm
<1>5. Firm(walk.chain) => walk.keys
  BY DEF Ends, Firm
<1>6. walk.keys /\ z = Bottom => HasKeys(Bottom)
  BY <1>4, LastLink DEF HasKeys
<1> HIDE DEF sets, there
<1>7. ~lost => Reached(there)
  BY <1>1, <1>2 DEF Reached
<1>8. CASE answer = "absent"
  <2>1. there.found = "none"
    BY <1>1, <1>3, <1>8
  <2> QED BY <1>1, <1>7, <1>8, <2>1 DEF Judgement, there
<1>9. CASE answer # "absent" /\ ~walk.keys
  <2>1. there.found = "unchecked"
    BY <1>1, <1>3, <1>9
  <2> QED BY <1>1, <1>5, <1>7, <1>9, <2>1 DEF Judgement, there
<1>10. CASE answer # "absent" /\ walk.keys
  <2>1. there.found = Judged(sets)
    BY <1>1, <1>3, <1>10
  <2> QED BY <1>1, <1>2, <1>3, <1>4, <1>6, <1>7, <1>10, <2>1 DEF Judgement, there
<1> QED BY <1>8, <1>9, <1>10

-----------------------------------------------------------------------------
(* What the walk's helpers keep of what it knows.                          *)

\* Two walks that know the same of the chain and stand in the same place.
Alike(walk, other) ==
    /\ other.zone = walk.zone /\ other.child = walk.child /\ other.cut = walk.cut
    /\ other.chain = walk.chain /\ other.keys = walk.keys
    /\ other.servers = walk.servers /\ other.said = walk.said /\ other.ended = walk.ended /\ other.found = walk.found

LEMMA AlikeBase ==
    ASSUME NEW walk, NEW other, Alike(walk, other), NEW lost \in BOOLEAN
    PROVE  /\ Base(walk, lost) => Base(other, lost)
           /\ At(walk) => At(other)
           /\ Goes(walk) => Goes(other)
           /\ Aim(other) = Aim(walk)
BY DEF Alike, Base, Behind, At, Goes, Aim, Unjudged

LEMMA QuerySense ==
    ASSUME NEW walk, Shaped(walk), NEW lost \in BOOLEAN, Base(walk, lost), NEW pc \in {"keys", "ask", "ds"},
           pc = "keys" => Word(walk.chain, walk.ds, Aim(walk), lost),
           pc = "ask" => ~walk.cut /\ At(walk),
           pc = "ds" => At(walk) /\ Goes(walk) /\ walk.keys
    PROVE  Sense(Query(walk, pc, walk.servers), lost)
<1> DEFINE there == Query(walk, pc, walk.servers)
<1>1. /\ Alike(walk, there) /\ there.pc = pc /\ there.reply = None /\ there.ds = walk.ds
      /\ there.left = Candidates(walk.servers)
  BY DEF Query, Shaped, Fields, Alike
<1>2. walk.servers \in Seq(Of(walk.zone)) /\ Candidates(walk.servers) \in Seq(Of(walk.zone))
  BY CandidatesStay DEF Base
<1> HIDE DEF there
<1>3. /\ Base(there, lost) /\ Aim(there) = Aim(walk)
      /\ At(walk) => At(there)
      /\ Goes(walk) => Goes(there)
  BY <1>1, AlikeBase
<1>4. there.left \in Seq(Of(there.zone)) /\ there.chain = walk.chain /\ there.keys = walk.keys /\ there.cut = walk.cut
  BY <1>1, <1>2 DEF Alike
<1>5. Sense(there, lost)
  BY <1>1, <1>3, <1>4 DEF Sense, KeysHeard, NameHeard, DSHeard
<1> QED BY <1>5 DEF there

LEMMA FinishSense ==
    ASSUME NEW walk, Shaped(walk), NEW lost \in BOOLEAN, ChainTrue(walk.chain, lost), NEW z, Judgement(Finish(walk, z), lost)
    PROVE  Sense(Finish(walk, z), lost)
<1> DEFINE there == Finish(walk, z)
<1>1. there.chain = walk.chain /\ there.pc = "verdict" /\ there.ended = TRUE
  BY DEF Finish, Stop, Shaped, Fields
<1> HIDE DEF there
<1>2. Judgement(there, lost)
  BY DEF there
<1>3. Sense(there, lost)
  BY <1>1, <1>2 DEF Sense
<1> QED BY <1>3 DEF there

\* A true status makes a true link.
LEMMA AddLinkSense ==
    ASSUME World, NEW walk, Shaped(walk), NEW lost \in BOOLEAN, Base(walk, lost),
           NEW status, NextTrue(walk.chain, Aim(walk), status, lost)
    PROVE  Sense(AddLink(walk, status), lost)
<1> DEFINE z == IF walk.cut THEN walk.child ELSE walk.zone
           with == [walk EXCEPT !.chain = Append(@, Link(z, status)), !.keys = (status = Secure)]
           judged == [with EXCEPT !.reply = walk.said]
<1>1. AddLink(walk, status) = IF walk.cut THEN Finish(judged, z) ELSE Query(with, "ask", walk.servers)
  BY DEF AddLink
<1>2. /\ Shaped(with) /\ with.chain = Append(walk.chain, Link(z, status)) /\ with.keys = (status = Secure)
      /\ with.zone = walk.zone /\ with.child = walk.child /\ with.cut = walk.cut
      /\ with.servers = walk.servers /\ with.said = walk.said
      /\ with.ended = walk.ended /\ with.found = walk.found
  BY DEF Shaped, Fields
<1>3. /\ Shaped(judged) /\ judged.chain = with.chain /\ judged.keys = with.keys
      /\ Alike(with, judged) /\ judged.reply = walk.said
  BY DEF Shaped, Fields, Alike
<1>4. z = Aim(walk)
  BY DEF Aim
<1> HIDE DEF with, judged, z
<1>5. /\ ChainTrue(with.chain, lost) /\ with.chain # <<>>
      /\ Last(with.chain).zone = z /\ Last(with.chain).status = status
  BY <1>2, <1>4, ChainGrows DEF Base, Link
<1>6. with.keys \in BOOLEAN /\ (with.keys <=> Ends(with.chain, {Secure}))
  BY <1>2, <1>5 DEF Ends
<1>7. Base(with, lost)
  <2>1. /\ walk.zone \in Zones /\ walk.cut \in BOOLEAN /\ walk.servers \in Seq(Of(walk.zone))
        /\ walk.cut => Behind(walk, lost)
        /\ ~walk.ended /\ Unjudged(walk)
    BY DEF Base
  <2>2. with.cut => Behind(with, lost)
    BY <1>2, <2>1 DEF Behind
  <2> QED BY <1>2, <1>5, <1>6, <2>1, <2>2 DEF Base, Unjudged
<1>8. CASE ~walk.cut
  <2>1. z = walk.zone
    BY <1>4, <1>8 DEF Aim
  <2>2. At(with) /\ ~with.cut
    BY <1>2, <1>5, <1>8, <2>1 DEF At
  <2>3. Sense(Query(with, "ask", with.servers), lost)
    BY <1>2, <1>7, <2>2, QuerySense
  <2> QED BY <1>1, <1>2, <1>8, <2>3
<1>9. CASE walk.cut
  <2>1. Behind(walk, lost)
    BY <1>9 DEF Base
  <2>2. z = Bottom /\ Speaks(judged.reply, lost) /\ judged.reply.by = Bottom
    BY <1>3, <1>4, <1>9, <2>1 DEF Behind, Aim
  <2>3. /\ ChainTrue(judged.chain, lost) /\ judged.chain # <<>> /\ Last(judged.chain).zone = z
        /\ judged.keys <=> Ends(judged.chain, {Secure})
    BY <1>3, <1>5, <1>6
  <2>4. Judgement(Finish(judged, z), lost)
    BY <1>3, <2>2, <2>3, FinishJudges
  <2>5. Sense(Finish(judged, z), lost)
    BY <1>3, <2>3, <2>4, FinishSense
  <2> QED BY <1>1, <1>9, <2>5
<1> QED BY <1>8, <1>9

\* The parent's word, where it is a status already, is one.
LEMMA WordTrue ==
    ASSUME NEW chain, NEW ds, NEW z, NEW lost \in BOOLEAN, Word(chain, ds, z, lost), ds.status # ""
    PROVE  NextTrue(chain, z, ds.status, lost)
BY DEF Word, NextTrue, Statuses, Broken, Secure, Bogus, Insecure, Unknown

LEMMA ValidateSense ==
    ASSUME World, NEW walk, Shaped(walk), NEW lost \in BOOLEAN, Base(walk, lost),
           Word(walk.chain, walk.ds, Aim(walk), lost)
    PROVE  Sense(Validate(walk), lost)
<1>1. CASE walk.ds.status # ""
  <2>1. Validate(walk) = AddLink(walk, walk.ds.status)
    BY <1>1 DEF Validate
  <2> QED BY <1>1, <2>1, WordTrue, AddLinkSense
<1>2. CASE walk.ds.status = ""
  <2>1. Validate(walk) = Query(walk, "keys", walk.servers)
    BY <1>2 DEF Validate
  <2> QED BY <2>1, QuerySense
<1> QED BY <1>1, <1>2

LEMMA ParentSense ==
    ASSUME World, NEW walk, Shaped(walk), NEW lost \in BOOLEAN, Base(walk, lost), Goes(walk),
           NEW ds, Word(walk.chain, ds, walk.child, lost)
    PROVE  Sense(Parent(walk, ds), lost)
<1> DEFINE given == [walk EXCEPT !.ds = ds]
           lacks == Within(Delegates[walk.child], Glueless)
           n == IF Len(lacks) < MaxSideLookups THEN Len(lacks) ELSE MaxSideLookups
<1>1. Shaped(given) /\ Alike(walk, given) /\ given.ds = ds /\ given.chain = walk.chain
  BY DEF Shaped, Fields, Alike
<1>2. CASE walk.cut
  <2>1. Parent(walk, ds) = Validate(given)
    BY <1>2 DEF Parent
  <2> HIDE DEF given
  <2>2. Base(given, lost) /\ Aim(given) = walk.child
    BY <1>1, <1>2, AlikeBase DEF Aim
  <2>3. Word(given.chain, given.ds, Aim(given), lost)
    BY <1>1, <2>2
  <2> QED BY <1>1, <2>1, <2>2, <2>3, ValidateSense
<1>3. CASE ~walk.cut
  <2>1. Parent(walk, ds) = [given EXCEPT !.pc = "side",
                              !.next = Within(Delegates[walk.child], Servers \ Glueless),
                              !.todo = SubSeq(lacks, 1, n)]
    BY <1>3 DEF Parent
  <2> HIDE DEF lacks, n
  <2>2. /\ Alike(given, Parent(walk, ds)) /\ Parent(walk, ds).pc = "side"
        /\ Parent(walk, ds).ds = given.ds /\ Parent(walk, ds).chain = given.chain
        /\ Parent(walk, ds).next = Within(Delegates[walk.child], Servers \ Glueless)
        /\ Parent(walk, ds).todo = SubSeq(lacks, 1, n)
    BY <1>1, <2>1 DEF Shaped, Fields, Alike
  <2>3. Delegates[walk.child] \in Seq(Of(walk.child))
    <3>1. walk.child \in Zones
      BY DEF Goes
    <3>2. Delegates[walk.child] \in Seq(Servers)
      BY <3>1, TraceAssumption
    <3> QED BY <3>2 DEF Of
  <2>4. /\ Within(Delegates[walk.child], Servers \ Glueless) \in Seq(Of(walk.child))
        /\ lacks \in Seq(Of(walk.child))
    BY <2>3, WithinStays DEF lacks
  <2>5. SubSeq(lacks, 1, n) \in Seq(Of(walk.child))
    <3>1. MaxSideLookups \in Nat
      BY TraceAssumption
    <3>2. n \in 0..Len(lacks)
      BY <2>4, <3>1 DEF n
    <3> QED BY <2>4, <3>2
  <2> DEFINE there == Parent(walk, ds)
  <2> HIDE DEF there, given
  <2>6. Alike(walk, there) /\ there.pc = "side" /\ there.ds = ds /\ there.chain = walk.chain
    BY <1>1, <2>2 DEF Alike, there
  <2>7. Base(there, lost) /\ Goes(there) /\ there.child = walk.child /\ ~there.cut
    BY <1>3, <2>6, AlikeBase DEF Alike
  <2>8. there.next \in Seq(Of(there.child)) /\ there.todo \in Seq(Of(there.child))
    BY <2>2, <2>4, <2>5, <2>7 DEF there
  <2>9. Sense(there, lost)
    BY <2>6, <2>7, <2>8 DEF Sense
  <2> QED BY <2>9 DEF there
<1> QED BY <1>2, <1>3

LEMMA DelegateSense ==
    ASSUME World, NEW walk, Shaped(walk), NEW lost \in BOOLEAN, Base(walk, lost), At(walk), Goes(walk),
           walk.chain = w.chain
    PROVE  Sense(Delegate(walk), lost)
<1>1. CASE walk.keys
  <2>1. Delegate(walk) = Query(walk, "ds", walk.servers)
    BY <1>1 DEF Delegate
  <2> QED BY <1>1, <2>1, QuerySense
<1>2. CASE ~walk.keys
  <2>1. Delegate(walk) = Parent(walk, Inherited)
    BY <1>2 DEF Delegate
  <2>2. Word(walk.chain, Inherited, walk.child, lost)
    BY <1>2, InheritedTrue
  <2> QED BY <2>1, <2>2, ParentSense
<1> QED BY <1>1, <1>2

-----------------------------------------------------------------------------
(* Every step of the walk.                                                 *)

\* What is so stays so when more is lost.
LEMMA SenseLost ==
    ASSUME NEW walk, NEW lost \in BOOLEAN, NEW more \in BOOLEAN, lost => more, Sense(walk, lost)
    PROVE  Sense(walk, more)
<1>1. \A r : Speaks(r, lost) => Speaks(r, more)
  BY DEF Speaks
<1>2. ChainTrue(walk.chain, lost) => ChainTrue(walk.chain, more)
  BY ChainLoses
<1>3. Base(walk, lost) => Base(walk, more)
  BY <1>1, <1>2 DEF Base, Behind
<1>4. \A ds, z : Word(walk.chain, ds, z, lost) => Word(walk.chain, ds, z, more)
  BY DEF Word
<1>5. \A r, z : /\ KeysHeard(r, z, lost) => KeysHeard(r, z, more)
                /\ DSHeard(r, z, lost) => DSHeard(r, z, more)
                /\ NameHeard(r, z, lost) => NameHeard(r, z, more)
  BY <1>1 DEF KeysHeard, DSHeard, NameHeard
<1>6. Judgement(walk, lost) => Judgement(walk, more)
  BY DEF Judgement
<1> QED BY <1>2, <1>3, <1>4, <1>5, <1>6 DEF Sense

\* A walk that stays where it is.
LEMMA SenseStays ==
    ASSUME NEW walk, NEW other, NEW lost \in BOOLEAN, Sense(walk, lost), walk.pc # "done",
           Alike(walk, other), other.pc = walk.pc, other.ds = walk.ds, other.reply = walk.reply,
           other.next \in Seq(Of(walk.child)) \/ other.next = walk.next,
           other.todo \in Seq(Of(walk.child)) \/ other.todo = walk.todo,
           other.left \in Seq(Of(walk.zone)) \/ other.left = walk.left,
           other.hops = walk.hops, other.found = walk.found, walk.truncated => other.truncated
    PROVE  Sense(other, lost)
<1>1. /\ Base(walk, lost) => Base(other, lost)
      /\ At(walk) => At(other)
      /\ Goes(walk) => Goes(other)
      /\ Aim(other) = Aim(walk)
  BY AlikeBase
<1>2. /\ other.zone = walk.zone /\ other.child = walk.child /\ other.cut = walk.cut
      /\ other.chain = walk.chain /\ other.keys = walk.keys /\ other.ended = walk.ended
  BY DEF Alike
<1>3. Judgement(walk, lost) => Judgement(other, lost)
  BY <1>2 DEF Judgement, Reached
<1> QED BY <1>1, <1>2, <1>3 DEF Sense, Unjudged

LEMMA SenseInit == Init => World /\ Sense(w, unheard)
<1> SUFFICES ASSUME Init PROVE World /\ Sense(w, unheard)
  OBVIOUS
<1>1. World
  BY DEF Init, World
<1>2. /\ w.pc = "zone" /\ w.zone = 0 /\ w.cut = FALSE /\ w.keys = FALSE /\ w.ended = FALSE
      /\ w.chain = <<>> /\ w.servers = Delegates[0]
  BY DEF Init
<1>3. w.ds = [set |-> TRUE, status |-> ""]
  BY DEF Init
<1>4. 0 \in Zones /\ Delegates[0] \in Seq(Servers)
  BY TraceAssumption DEF Zones
<1>5. ChainTrue(w.chain, unheard)
  BY <1>2 DEF ChainTrue
<1>6. Unjudged(w)
  BY DEF Init, Unjudged
<1>7. Base(w, unheard)
  <2>1. Delegates[0] \in Seq(Of(0))
    BY <1>4 DEF Of
  <2> QED BY <1>2, <1>4, <1>5, <1>6, <2>1 DEF Base, Ends
<1>8. Word(w.chain, w.ds, Aim(w), unheard)
  <2>1. w.ds.set = TRUE
    BY <1>3, NoWord
  <2>2. w.ds.status = ""
    BY <1>3, NoWord
  <2>3. Aim(w) = 0
    BY <1>2 DEF Aim
  <2>4. signing[0] = "signed"
    BY <1>1, RootSigned
  <2>5. HasDS(0) /\ Firm(w.chain) /\ Len(w.chain) = 0
    BY <1>2, <2>4 DEF HasDS, Firm
  <2> QED BY <1>4, <2>1, <2>2, <2>3, <2>4, <2>5 DEF Word, Insecure, Bogus, Unknown
<1> QED BY <1>1, <1>2, <1>7, <1>8 DEF Sense

LEMMA SenseStep ==
    ASSUME World, Shaped(w), w.hops \in Seq(Nat), w.zone \in Nat, unheard \in BOOLEAN, Sense(w, unheard), Next, ~Verdict
    PROVE  unheard' \in BOOLEAN /\ Sense(w', unheard')
<1>1. CASE Expire
  <2>1. Sense(w', unheard)
    <3>1. /\ w.pc # "done" /\ Alike(w, w') /\ w'.pc = w.pc /\ w'.ds = w.ds /\ w'.reply = w.reply
          /\ w'.next = w.next /\ w'.todo = w.todo /\ w'.left = w.left
          /\ w'.hops = w.hops /\ w'.found = w.found /\ w'.truncated = w.truncated
      BY <1>1 DEF Expire, Shaped, Fields, Alike
    <3> QED BY <3>1, SenseStays
  <2> QED BY <1>1, <2>1 DEF Expire
<1>2. CASE OutOfBudget
  <2>1. /\ w.pc # "done" /\ Alike(w, w') /\ w'.pc = w.pc /\ w'.ds = w.ds /\ w'.reply = w.reply
        /\ w'.next = w.next /\ w'.todo = w.todo /\ w'.left = <<>>
        /\ w'.hops = w.hops /\ w'.found = w.found /\ w'.truncated = TRUE
    BY <1>2 DEF OutOfBudget, Asking, Shaped, Fields, Alike
  <2>2. w'.left \in Seq(Of(w.zone))
    BY <2>1
  <2>3. Sense(w', unheard)
    BY <2>1, <2>2, SenseStays
  <2> QED BY <1>2, <2>3 DEF OutOfBudget
<1>3. CASE Silent \/ Useless
  <2>1. /\ w.pc \in {"keys", "ask", "ds"} /\ w.left # <<>>
        /\ Alike(w, w') /\ w'.pc = w.pc /\ w'.ds = w.ds /\ w'.reply = w.reply
        /\ w'.next = w.next /\ w'.todo = w.todo /\ w'.left = Tail(w.left)
        /\ w'.hops = w.hops /\ w'.found = w.found /\ w'.truncated = w.truncated
    BY <1>3 DEF Silent, Useless, Asking, Shaped, Fields, Alike
  <2>2. w.left \in Seq(Of(w.zone))
    BY <2>1 DEF Sense
  <2>3. w'.left \in Seq(Of(w.zone))
    BY <2>1, <2>2, TailStays
  <2>4. Sense(w', unheard)
    BY <2>1, <2>3, SenseStays
  <2> QED BY <1>3, <2>4 DEF Silent, Useless
<1>4. CASE Answered
  <2> DEFINE s == Head(w.left)
             r == Reply(s, Type, Target)
  <2>1. PICK kept \in BOOLEAN :
          /\ kept \/ (r.kind = "auth" /\ r.sigs)
          /\ w' = [w EXCEPT !.queries = @ + 1, !.left = <<>>,
                            !.reply = IF kept THEN r ELSE Auth(r.by, FALSE)]
          /\ unheard' = (unheard \/ ~kept)
    BY <1>4 DEF Answered
  <2>2. w.pc \in {"keys", "ask", "ds"} /\ w.left # <<>> /\ Usable(r)
    BY <1>4 DEF Answered, Asking
  <2> HIDE DEF r, s
  <2>3. /\ Alike(w, w') /\ w'.pc = w.pc /\ w'.ds = w.ds /\ w'.left = <<>>
        /\ w'.reply = IF kept THEN r ELSE Auth(r.by, FALSE)
    BY <2>1 DEF Shaped, Fields, Alike
  <2>4. w.left \in Seq(Of(w.zone)) /\ s \in Of(w.zone) /\ Base(w, unheard) /\ w.zone \in Zones
    <3>1. w.left \in Seq(Of(w.zone)) /\ Base(w, unheard)
      BY <2>2 DEF Sense
    <3> QED BY <2>2, <3>1 DEF s, Base
  <2>5. s \in Servers
    BY <2>4, TraceAssumption DEF Of
  <2>6. unheard' \in BOOLEAN /\ (~kept => unheard') /\ (unheard => unheard')
    BY <2>1
  <2> DEFINE lost == unheard'
  <2>7. Sense(w, lost)
    BY <2>6, SenseLost
  <2> HIDE DEF lost
  <2>8. lost \in BOOLEAN /\ (~kept => lost)
    BY <2>6 DEF lost
  <2>9. /\ Base(w', lost) /\ Aim(w') = Aim(w)
        /\ At(w) => At(w')
        /\ Goes(w) => Goes(w')
        /\ w'.zone = w.zone /\ w'.chain = w.chain /\ w'.keys = w.keys /\ w'.cut = w.cut
    <3>1. Base(w, lost)
      BY <2>2, <2>7 DEF Sense
    <3> QED BY <2>3, <2>8, <3>1, AlikeBase DEF Alike
  <2>10. w'.left \in Seq(Of(w'.zone))
    BY <2>3
  <2>11. CASE w.pc = "keys"
    <3>1. Aim(w) \in Zones /\ Target = Aim(w) /\ Type = "DNSKEY"
      BY <2>11 DEF Sense, Word, Target, Aim, Type
    <3>2. r.kind = "auth"
      BY <2>2, <3>1 DEF Usable
    <3>3. r = Auth(Aim(w), HasKeys(Aim(w)))
      BY <2>5, <3>1, <3>2, KeysReply DEF r
    <3>4. w'.reply = IF kept THEN Auth(Aim(w), HasKeys(Aim(w))) ELSE Auth(Aim(w), FALSE)
      BY <2>3, <3>3 DEF Auth
    <3>5. KeysHeard(w'.reply, Aim(w'), lost)
      BY <2>8, <2>9, <3>1, <3>4, Carried DEF KeysHeard
    <3>6. Word(w'.chain, w'.ds, Aim(w'), lost)
      BY <2>3, <2>7, <2>9, <2>11 DEF Sense
    <3>7. Sense(w', lost)
      BY <2>3, <2>9, <2>10, <2>11, <3>5, <3>6 DEF Sense
    <3> QED BY <2>6, <3>7 DEF lost
  <2>12. CASE w.pc = "ask"
    <3>1. ~w.cut /\ At(w) /\ Target = w.zone /\ Type = "name"
      BY <2>7, <2>12 DEF Sense, Target, Type
    <3>2. r.kind \in {"auth", "referral"}
      BY <2>2 DEF Usable
    <3>3. \/ r = Auth(Bottom, HasKeys(Bottom)) /\ (Plain => Bottom <= w.zone + 1)
          \/ r.kind = "referral" /\ r.child \in Nat /\ (Plain => r.child <= w.zone + 1)
      BY <2>4, <3>1, <3>2, NameReply DEF r
    <3>4. NameHeard(w'.reply, w.zone, lost)
      <4>1. CASE r = Auth(Bottom, HasKeys(Bottom)) /\ (Plain => Bottom <= w.zone + 1)
        <5>1. w'.reply = IF kept THEN Auth(Bottom, HasKeys(Bottom)) ELSE Auth(Bottom, FALSE)
          BY <2>3, <4>1 DEF Auth
        <5>2. Bottom \in Zones
          BY TraceAssumption DEF Zones
        <5> QED BY <2>8, <4>1, <5>1, <5>2, Carried DEF NameHeard
      <4>2. CASE r.kind = "referral" /\ r.child \in Nat /\ (Plain => r.child <= w.zone + 1)
        <5>1. w'.reply = r
          BY <2>1, <2>3, <4>2
        <5> QED BY <4>2, <5>1 DEF NameHeard
      <4> QED BY <3>3, <4>1, <4>2
    <3>5. Sense(w', lost)
      BY <2>3, <2>9, <2>10, <2>12, <3>1, <3>4 DEF Sense
    <3> QED BY <2>6, <3>5 DEF lost
  <2>13. CASE w.pc = "ds"
    <3>1. /\ Goes(w) /\ At(w) /\ w.keys /\ Target = w.child /\ Type = "DS" /\ w.child \in Zones /\ w.zone < w.child
          /\ Plain => w.child = w.zone + 1
      BY <2>7, <2>13 DEF Sense, Target, Type, Goes
    <3>2. r.kind = "auth"
      BY <2>2, <3>1 DEF Usable
    <3>3. \/ r = Auth(w.child - 1, HasKeys(w.child - 1)) /\ w.child - 1 \in Zones
          \/ r = Auth(w.child, HasKeys(w.child)) /\ ~Plain
      BY <2>4, <3>1, <3>2, DSReply DEF r
    <3>4. PICK by \in Zones : r = Auth(by, HasKeys(by)) /\ (Plain => by = w.child - 1)
      BY <3>1, <3>3
    <3>5. Plain => by = w.zone
      BY <2>4, <3>1, <3>4 DEF Zones
    <3>6. w'.reply = IF kept THEN Auth(by, HasKeys(by)) ELSE Auth(by, FALSE)
      BY <2>3, <3>4 DEF Auth
    <3>7. DSHeard(w'.reply, w.zone, lost)
      BY <2>8, <3>5, <3>6, Carried DEF DSHeard
    <3>8. Sense(w', lost)
      BY <2>3, <2>9, <2>10, <2>13, <3>1, <3>7 DEF Sense
    <3> QED BY <2>6, <3>8 DEF lost
  <2> QED BY <2>2, <2>11, <2>12, <2>13
<1>5. CASE TooDeep
  <2>1. /\ w'.pc = "verdict" /\ w'.chain = w.chain /\ w'.ended = w.ended /\ w'.found = w.found
        /\ w'.truncated = TRUE /\ w.pc = "zone" /\ unheard' = unheard
    BY <1>5 DEF TooDeep, Stop, Shaped, Fields
  <2>2. ChainTrue(w.chain, unheard) /\ ~w.ended /\ Unjudged(w)
    BY <2>1 DEF Sense, Base
  <2>3. Sense(w', unheard)
    BY <2>1, <2>2 DEF Sense, Unjudged
  <2> QED BY <2>1, <2>3
<1>6. CASE EnterZone
  <2>1. w.pc = "zone" /\ w' = Validate(w) /\ unheard' = unheard
    BY <1>6 DEF EnterZone
  <2>2. Base(w, unheard) /\ Word(w.chain, w.ds, Aim(w), unheard)
    BY <2>1 DEF Sense
  <2>3. Sense(w', unheard)
    BY <2>1, <2>2, ValidateSense
  <2> QED BY <2>1, <2>3
<1>7. CASE Keys
  <2>1. /\ w.pc = "keys" /\ w' = AddLink(w, Status(Target, w.ds, w.reply))
        /\ unheard' = (unheard \/ w.reply = None)
    BY <1>7 DEF Keys, Heard
  <2> DEFINE lost == unheard'
  <2>2. lost \in BOOLEAN /\ (unheard => lost) /\ (w.reply = None => lost)
    BY <2>1
  <2> HIDE DEF lost
  <2>3. Sense(w, lost)
    BY <2>2, SenseLost
  <2>4. /\ Base(w, lost) /\ Word(w.chain, w.ds, Aim(w), lost) /\ KeysHeard(w.reply, Aim(w), lost)
        /\ Target = Aim(w)
    BY <2>1, <2>3 DEF Sense, Target, Aim
  <2>5. NextTrue(w.chain, Aim(w), Status(Target, w.ds, w.reply), lost)
    BY <2>2, <2>4, StatusTrue
  <2>6. Sense(w', lost)
    BY <2>1, <2>2, <2>4, <2>5, AddLinkSense
  <2> QED BY <2>2, <2>6 DEF lost
<1>8. CASE Ask
  <2> DEFINE r == w.reply
             here == [w EXCEPT !.hops = Append(@, w.zone), !.said = r]
             below == [here EXCEPT !.child = r.child]
             across == [here EXCEPT !.child = r.by, !.cut = TRUE]
  <2>1. /\ w.pc = "ask" /\ ~w.cut /\ At(w) /\ Base(w, unheard) /\ NameHeard(r, w.zone, unheard)
    BY <1>8 DEF Ask, Heard, Sense
  <2>2. /\ w' = CASE Follows(r) -> Delegate(below)
                  [] r.kind = "auth" -> IF CutIn(r) THEN Delegate(across) ELSE Finish(here, w.zone)
                  [] OTHER -> Stop(here)
        /\ unheard' = (unheard \/ ~(r.kind = "auth" \/ Follows(r)))
    BY <1>8 DEF Ask
  <2>3. /\ Shaped(here) /\ here.hops = Append(w.hops, w.zone) /\ here.said = r /\ here.reply = r
        /\ here.zone = w.zone /\ here.child = w.child /\ here.cut = w.cut
        /\ here.chain = w.chain /\ here.keys = w.keys /\ here.servers = w.servers 
        /\ here.ended = w.ended /\ here.found = w.found
    BY DEF Shaped, Fields
  <2>4. /\ Shaped(below) /\ below.child = r.child
        /\ below.zone = w.zone /\ below.cut = w.cut
        /\ below.chain = w.chain /\ below.keys = w.keys /\ below.servers = w.servers 
        /\ below.ended = w.ended /\ below.found = w.found
    BY <2>3 DEF Shaped, Fields
  <2>5. /\ Shaped(across) /\ across.child = r.by /\ across.cut = TRUE
        /\ across.zone = w.zone /\ across.said = r
        /\ across.chain = w.chain /\ across.keys = w.keys /\ across.servers = w.servers 
        /\ across.ended = w.ended /\ across.found = w.found
    BY <2>3 DEF Shaped, Fields
  <2>6. Follows(r) <=> r.kind = "referral" /\ r.child \in (w.zone + 1)..Bottom
    BY DEF Follows
  <2> HIDE DEF here, below, across, r
  <2>7. /\ w.zone \in Zones /\ w.zone \in Nat /\ w.zone <= Bottom /\ Bottom \in Nat /\ Bottom \in Zones
        /\ ~w.ended /\ Unjudged(w) /\ ChainTrue(w.chain, unheard) /\ w.chain # <<>> /\ Last(w.chain).zone = w.zone
    BY <2>1, TraceAssumption DEF Base, Zones, At
  <2>8. CASE Follows(r)
    <3>1. w' = Delegate(below)
      BY <2>2, <2>6, <2>8
    <3>2. unheard' = unheard
      BY <2>2, <2>8
    <3>3. r.kind = "referral" /\ r.child \in Zones /\ w.zone < r.child /\ (Plain => r.child = w.zone + 1)
      <4>1. r.kind = "referral" /\ r.child \in (w.zone + 1)..Bottom
        BY <2>6, <2>8
      <4>2. Plain => r.child <= w.zone + 1
        BY <2>1, <4>1 DEF NameHeard, None, Speaks
      <4> QED BY <2>7, <4>1, <4>2 DEF Zones
    <3>4. Base(below, unheard) /\ At(below)
      BY <2>1, <2>4 DEF Base, At, Unjudged
    <3>5. Goes(below)
      BY <2>4, <3>3 DEF Goes
    <3>6. Sense(w', unheard)
      BY <2>4, <3>1, <3>4, <3>5, DelegateSense
    <3> QED BY <3>2, <3>6
  <2>9. CASE r.kind = "auth"
    <3>1. ~Follows(r) /\ unheard' = unheard
      BY <2>2, <2>6, <2>9
    <3>2. Speaks(r, unheard) /\ r.by = Bottom /\ (Plain => Bottom <= w.zone + 1)
      BY <2>1, <2>9 DEF NameHeard, None
    <3>3. CASE CutIn(r)
      <4>1. w' = Delegate(across)
        BY <2>2, <2>9, <3>1, <3>3
      <4>2. w.zone < Bottom /\ (Plain => Bottom = w.zone + 1)
        BY <2>7, <3>2, <3>3 DEF CutIn
      <4>3. Base(across, unheard) /\ At(across)
        BY <2>1, <2>5, <3>2 DEF Base, At, Behind, Unjudged
      <4>4. Goes(across)
        BY <2>5, <2>7, <3>2, <4>2 DEF Goes
      <4>5. Sense(w', unheard)
        BY <2>5, <4>1, <4>3, <4>4, DelegateSense
      <4> QED BY <3>1, <4>5
    <3>4. CASE ~CutIn(r)
      <4>1. w' = Finish(here, w.zone)
        BY <2>2, <2>9, <3>1, <3>4
      <4>2. here.hops # <<>> /\ here.hops[Len(here.hops)] = w.zone
        BY <2>3
      <4>3. w.zone = Bottom \/ (~r.sigs /\ answer # "absent")
        BY <3>2, <3>4 DEF CutIn
      <4>4. w.keys <=> Ends(w.chain, {Secure})
        BY <2>1 DEF Base
      <4>5. Judgement(Finish(here, w.zone), unheard)
        BY <2>3, <2>7, <3>2, <4>2, <4>3, <4>4, FinishJudges
      <4>6. Sense(w', unheard)
        BY <2>3, <2>7, <4>1, <4>5, FinishSense
      <4> QED BY <3>1, <4>6
    <3> QED BY <3>3, <3>4
  <2>10. CASE ~Follows(r) /\ r.kind # "auth"
    <3>1. w' = Stop(here) /\ unheard' = TRUE
      BY <2>2, <2>10
    <3>2. w'.pc = "verdict" /\ w'.chain = w.chain /\ w'.ended = w.ended /\ w'.found = w.found
      BY <2>3, <3>1 DEF Stop, Shaped, Fields
    <3>3. ChainTrue(w.chain, TRUE)
      BY <2>7, ChainLoses
    <3>4. Sense(w', TRUE)
      BY <2>7, <3>2, <3>3 DEF Sense, Unjudged
    <3> QED BY <3>1, <3>4
  <2> QED BY <2>8, <2>9, <2>10
<1>9. CASE DS
  <2>1. w.pc = "ds" /\ w' = Parent(w, FetchDS(w.reply)) /\ unheard' = (unheard \/ w.reply = None)
    BY <1>9 DEF DS, Heard
  <2> DEFINE lost == unheard'
  <2>2. lost \in BOOLEAN /\ (unheard => lost) /\ (w.reply = None => lost)
    BY <2>1
  <2> HIDE DEF lost
  <2>3. Sense(w, lost)
    BY <2>2, SenseLost
  <2>4. Base(w, lost) /\ At(w) /\ Goes(w) /\ w.keys /\ DSHeard(w.reply, w.zone, lost)
    BY <2>1, <2>3 DEF Sense
  <2>5. Word(w.chain, FetchDS(w.reply), w.child, lost)
    BY <2>2, <2>4, FetchTrue
  <2>6. Sense(w', lost)
    BY <2>1, <2>2, <2>4, <2>5, ParentSense
  <2> QED BY <2>2, <2>6 DEF lost
<1>10. CASE SideLookup
  <2>1. PICK found \in BOOLEAN :
          w' = [w EXCEPT !.queries = SideCharge(2), !.todo = Tail(@),
                         !.next = IF found THEN Append(@, Head(w.todo)) ELSE @]
    BY <1>10 DEF SideLookup
  <2>2. /\ w.pc = "side" /\ w.todo # <<>> /\ Alike(w, w') /\ w'.pc = w.pc /\ w'.ds = w.ds /\ w'.reply = w.reply
        /\ w'.next = (IF found THEN Append(w.next, Head(w.todo)) ELSE w.next) /\ w'.todo = Tail(w.todo)
        /\ w'.left = w.left
        /\ w'.hops = w.hops /\ w'.found = w.found /\ w'.truncated = w.truncated
        /\ unheard' = unheard
    BY <1>10, <2>1 DEF SideLookup, Seeking, Shaped, Fields, Alike
  <2>3. w.next \in Seq(Of(w.child)) /\ w.todo \in Seq(Of(w.child))
    BY <2>2 DEF Sense
  <2>4. w'.next \in Seq(Of(w.child)) /\ w'.todo \in Seq(Of(w.child))
    <3>1. Head(w.todo) \in Of(w.child) /\ Tail(w.todo) \in Seq(Of(w.child))
      BY <2>2, <2>3, TailStays
    <3>2. Append(w.next, Head(w.todo)) \in Seq(Of(w.child))
      BY <2>3, <3>1
    <3> QED BY <2>2, <2>3, <3>1, <3>2
  <2>5. Sense(w', unheard)
    BY <2>2, <2>4, SenseStays
  <2> QED BY <2>2, <2>5
<1>11. CASE SideOutOfBudget
  <2>1. /\ w.pc = "side" /\ Alike(w, w') /\ w'.pc = w.pc /\ w'.ds = w.ds /\ w'.reply = w.reply
        /\ w'.next = w.next /\ w'.todo = <<>> /\ w'.left = w.left
        /\ w'.hops = w.hops /\ w'.found = w.found /\ w'.truncated = TRUE
        /\ unheard' = unheard
    BY <1>11 DEF SideOutOfBudget, Seeking, Shaped, Fields, Alike
  <2>2. w'.todo \in Seq(Of(w.child))
    BY <2>1
  <2>3. Sense(w', unheard)
    BY <2>1, <2>2, SenseStays
  <2> QED BY <2>1, <2>3
<1>12. CASE Descend
  <2>1. w.pc = "side" /\ unheard' = (unheard \/ w.next = <<>>)
    BY <1>12 DEF Descend
  <2>2. /\ Base(w, unheard) /\ ~w.cut /\ Goes(w) /\ Word(w.chain, w.ds, w.child, unheard)
        /\ w.next \in Seq(Of(w.child))
    BY <2>1 DEF Sense
  <2>3. CASE w.next = <<>>
    <3>1. w'.pc = "verdict" /\ w'.chain = w.chain /\ w'.ended = w.ended /\ w'.found = w.found /\ unheard' = TRUE
      BY <1>12, <2>1, <2>3 DEF Descend, Stop, Shaped, Fields
    <3>2. ChainTrue(w.chain, TRUE) /\ ~w.ended /\ Unjudged(w)
      BY <2>2, ChainLoses DEF Base
    <3>3. Sense(w', TRUE)
      BY <3>1, <3>2 DEF Sense, Unjudged
    <3> QED BY <3>1, <3>3
  <2>4. CASE w.next # <<>>
    <3>1. /\ w'.pc = "zone" /\ w'.zone = w.child /\ w'.servers = w.next /\ w'.cut = w.cut
          /\ w'.keys = w.keys /\ w'.ended = w.ended /\ w'.found = w.found /\ w'.chain = w.chain /\ w'.ds = w.ds
      BY <1>12, <2>4 DEF Descend, Shaped, Fields
    <3>2. unheard' = unheard
      BY <2>1, <2>4
    <3>3. Base(w', unheard)
      BY <2>2, <3>1 DEF Base, Goes, Unjudged
    <3>4. Aim(w') = w.child
      BY <2>2, <3>1 DEF Aim
    <3>5. Sense(w', unheard)
      BY <2>2, <3>1, <3>3, <3>4 DEF Sense
    <3> QED BY <3>2, <3>5
  <2> QED BY <2>3, <2>4
<1> QED BY <1>1, <1>2, <1>3, <1>4, <1>5, <1>6, <1>7, <1>8, <1>9, <1>10, <1>11, <1>12 DEF Next

-----------------------------------------------------------------------------
(* The verdict, and the truth about the name.                              *)

LEMMA BeforeSigned ==
    ASSUME NEW chain, NEW lost \in BOOLEAN, ChainTrue(chain, lost), NEW i \in 1..Len(chain), Before(chain, i)
    PROVE  \A y \in 0..(i - 2) : signing[y] = "signed"
<1> SUFFICES ASSUME NEW y \in 0..(i - 2) PROVE signing[y] = "signed"
  OBVIOUS
<1>1. Len(chain) \in Nat
  BY DEF ChainTrue
<1>2. y + 1 \in 1..(i - 1) /\ y + 1 \in 1..Len(chain) /\ (y + 1) - 1 = y
  BY <1>1
<1>3. chain[y + 1].status = Secure
  BY <1>2 DEF Before
<1>4. LinkTrue(chain, y + 1, lost)
  BY <1>2 DEF ChainTrue
<1>5. signing[(y + 1) - 1] = "signed"
  BY <1>3, <1>4 DEF LinkTrue
<1> QED BY <1>2, <1>5

\* The first zone that is not signed decides.
LEMMA TruthOfFirst ==
    ASSUME World, NEW z \in Zones, signing[z] # "signed", \A y \in 0..(z - 1) : signing[y] = "signed"
    PROVE  Truth = IF signing[z] \in Unsigned THEN Insecure ELSE Bogus
<1> DEFINE bad == {x \in Zones : signing[x] # "signed"}
           first == CHOOSE x \in bad : \A y \in bad : x <= y
<1>1. Truth = CASE bad # {} /\ signing[first] \in {"unsigned", "nods"} -> Insecure
                [] bad # {} /\ signing[first] \notin {"unsigned", "nods"} -> Bogus
                [] bad = {} /\ answer = "good" -> Secure
                [] bad = {} /\ answer \in {"badsig", "partly"} -> Bogus
                [] OTHER -> Unknown
  BY DEF Truth
<1>2. z \in bad /\ bad \in SUBSET Nat
  BY DEF Zones
<1>3. \A y \in bad : z <= y
  <2> SUFFICES ASSUME NEW y \in bad, ~(z <= y) PROVE FALSE
    OBVIOUS
  <2>1. y \in 0..(z - 1)
    BY <1>2
  <2> QED BY <2>1
<1>4. first \in bad /\ \A y \in bad : first <= y
  <2> HIDE DEF bad
  <2> QED BY <1>2, <1>3
<1>5. first = z
  <2> HIDE DEF bad, first
  <2> QED BY <1>2, <1>3, <1>4
<1> HIDE DEF bad, first
<1>6. bad # {}
  BY <1>2
<1> QED BY <1>1, <1>5, <1>6 DEF Unsigned

LEMMA TruthOfAll ==
    ASSUME World, \A z \in Zones : signing[z] = "signed"
    PROVE  /\ answer = "good" => Truth = Secure
           /\ answer \in {"badsig", "partly"} => Truth = Bogus
           /\ answer \notin {"good", "badsig", "partly"} => Truth = Unknown
<1> DEFINE bad == {x \in Zones : signing[x] # "signed"}
           first == CHOOSE x \in bad : \A y \in bad : x <= y
<1>1. Truth = CASE bad # {} /\ signing[first] \in {"unsigned", "nods"} -> Insecure
                [] bad # {} /\ signing[first] \notin {"unsigned", "nods"} -> Bogus
                [] bad = {} /\ answer = "good" -> Secure
                [] bad = {} /\ answer \in {"badsig", "partly"} -> Bogus
                [] OTHER -> Unknown
  BY DEF Truth
<1>2. bad = {}
  OBVIOUS
<1> HIDE DEF bad, first
<1> QED BY <1>1, <1>2

\* A chain that is secure down to the name's zone is all there is.
LEMMA AllSigned ==
    ASSUME NEW chain, NEW lost \in BOOLEAN, ChainTrue(chain, lost), chain # <<>>, Firm(chain),
           Last(chain).zone = Bottom
    PROVE  \A z \in Zones : signing[z] = "signed"
<1> DEFINE n == Len(chain)
<1>1. n \in Nat \ {0} /\ Last(chain).status = Secure /\ n - 1 = Bottom /\ signing[Bottom] = "signed"
      /\ LinkTrue(chain, n, lost)
  BY LastLink DEF Firm
<1>2. Before(chain, n)
  BY <1>1 DEF LinkTrue, Last
<1>3. \A y \in 0..(n - 2) : signing[y] = "signed"
  <2>1. n \in 1..Len(chain)
    BY <1>1
  <2> QED BY <1>2, <2>1, BeforeSigned
<1> HIDE DEF n
<1> SUFFICES ASSUME NEW z \in Zones PROVE signing[z] = "signed"
  OBVIOUS
<1>4. z = Bottom \/ z \in 0..(n - 2)
  BY <1>1, TraceAssumption DEF Zones
<1> QED BY <1>1, <1>3, <1>4

LEMMA VerdictSense ==
    ASSUME World, Shaped(w), unheard \in BOOLEAN, Sense(w, unheard), Verdict
    PROVE  unheard' = unheard /\ Sense(w', unheard) /\ Spoken(w', unheard)
<1>1. /\ w.pc = "verdict" /\ w'.pc = "done" /\ unheard' = unheard
      /\ w'.chain = w.chain /\ w'.ended = w.ended /\ w'.found = w.found
      /\ w'.hops = w.hops /\ w'.truncated = w.truncated
  BY DEF Verdict, Shaped, Fields
<1>2. w'.dnssec = CASE Has(Bogus) \/ w.found = "failed" -> Bogus
                    [] OTHER -> IF w.truncated \/ ~w.ended \/ Has(Unknown) THEN Unknown
                                ELSE IF Has(Insecure) THEN Insecure
                                ELSE IF w.found = "verified" THEN Secure ELSE Unknown
  BY DEF Verdict, Shaped, Fields
<1>3. /\ ChainTrue(w.chain, unheard)
      /\ IF w.ended THEN Judgement(w, unheard) ELSE Unjudged(w) /\ (w.truncated \/ unheard)
  BY <1>1 DEF Sense
<1>4. Sense(w', unheard)
  <2>1. w.ended => Judgement(w', unheard)
    BY <1>1, <1>3 DEF Judgement, Reached
  <2> QED BY <1>1, <1>3, <2>1 DEF Sense, Unjudged
<1>5. \A status : Has(status) <=> \E i \in 1..Len(w.chain) : w.chain[i].status = status
  BY <1>3 DEF Has, ChainTrue
<1>6. Secure # Bogus /\ Secure # Insecure /\ Secure # Unknown /\ Bogus # Insecure /\ Bogus # Unknown /\ Insecure # Unknown
  BY DEF Secure, Bogus, Insecure, Unknown
<1>7. \A i \in 1..Len(w.chain) : LinkTrue(w.chain, i, unheard) /\ w.chain[i] \in Links
  BY <1>3 DEF ChainTrue
<1>8. Len(w.chain) \in Nat
  BY <1>3 DEF ChainTrue
<1>9. w.ended /\ Firm(w.chain) /\ Last(w.chain).zone = Bottom => \A z \in Zones : signing[z] = "signed"
  BY <1>3, AllSigned DEF Judgement
<1>10. w.found \in {"failed", "verified"} => w.ended
  BY <1>3 DEF Unjudged
\* The first link that does not hold.
<1>11. ASSUME Plain, NEW i \in 1..Len(w.chain), Before(w.chain, i), signing[i - 1] \in Broken \cup Unsigned
       PROVE  Truth = IF signing[i - 1] \in Unsigned THEN Insecure ELSE Bogus
  <2>1. i - 1 \in Zones
    BY <1>7, <1>11 DEF LinkTrue, Links
  <2>2. \A y \in 0..((i - 1) - 1) : signing[y] = "signed"
    <3>1. \A y \in 0..(i - 2) : signing[y] = "signed"
      BY <1>3, <1>11, BeforeSigned
    <3>2. (i - 1) - 1 = i - 2
      BY <1>8
    <3> QED BY <3>1, <3>2
  <2>3. signing[i - 1] # "signed"
    BY <1>11 DEF Broken, Unsigned
  <2> QED BY <2>1, <2>2, <2>3, TruthOfFirst
<1>12. CASE Has(Bogus) \/ w.found = "failed"
  <2>1. w'.dnssec = Bogus
    BY <1>2, <1>12
  <2>2. ASSUME Plain, Has(Bogus) PROVE Truth = Bogus
    <3>1. PICK i \in 1..Len(w.chain) : w.chain[i].status = Bogus
      BY <1>5, <2>2
    <3>2. signing[i - 1] \in Broken /\ Before(w.chain, i)
      BY <1>7, <2>2, <3>1 DEF LinkTrue
    <3>3. signing[i - 1] \notin Unsigned
      BY <3>2 DEF Broken, Unsigned
    <3> QED BY <1>11, <2>2, <3>2, <3>3
  <2>3. ASSUME w.found = "failed" PROVE Truth = Bogus
    <3>1. Firm(w.chain) /\ Last(w.chain).zone = Bottom /\ answer = "badsig" /\ w.ended
      BY <1>3, <1>10, <2>3 DEF Judgement
    <3> QED BY <1>9, <3>1, TruthOfAll
  <2>4. Plain => Truth = Bogus
    BY <1>12, <2>2, <2>3
  <2>5. Spoken(w', unheard)
    BY <1>6, <2>1, <2>4 DEF Spoken
  <2> QED BY <1>1, <1>4, <2>5
<1>13. CASE ~Has(Bogus) /\ w.found # "failed" /\ (w.truncated \/ ~w.ended \/ Has(Unknown))
  <2>1. w'.dnssec = Unknown
    BY <1>2, <1>13
  <2>2. Plain /\ Has(Unknown) => unheard
    BY <1>5, <1>7 DEF LinkTrue
  <2>3. Plain => w.truncated \/ unheard
    BY <1>3, <1>13, <2>2
  <2>4. Spoken(w', unheard)
    BY <1>1, <1>6, <2>1, <2>3 DEF Spoken
  <2> QED BY <1>1, <1>4, <2>4
<1>14. CASE ~Has(Bogus) /\ w.found # "failed" /\ ~w.truncated /\ w.ended /\ ~Has(Unknown) /\ Has(Insecure)
  <2>1. w'.dnssec = Insecure
    BY <1>2, <1>14
  <2>2. ASSUME Plain PROVE Truth = Insecure
    <3>1. PICK i \in 1..Len(w.chain) : w.chain[i].status = Insecure
      BY <1>5, <1>14
    <3>2. PICK j \in 1..i : /\ Before(w.chain, j)
                            /\ \/ w.chain[j].status = Bogus
                               \/ w.chain[j].status = Insecure /\ signing[j - 1] \in Unsigned
      BY <1>7, <2>2, <3>1 DEF LinkTrue
    <3>3. j \in 1..Len(w.chain)
      BY <1>8
    <3>4. signing[j - 1] \in Unsigned
      BY <1>5, <1>14, <3>2, <3>3
    <3> QED BY <1>11, <2>2, <3>2, <3>3, <3>4
  <2>3. Spoken(w', unheard)
    BY <1>6, <2>1, <2>2 DEF Spoken
  <2> QED BY <1>1, <1>4, <2>3
<1>15. CASE /\ ~Has(Bogus) /\ w.found # "failed" /\ ~w.truncated /\ w.ended /\ ~Has(Unknown) /\ ~Has(Insecure)
            /\ w.found = "verified"
  <2>1. w'.dnssec = Secure
    BY <1>2, <1>15
  <2>2. Firm(w.chain) /\ Last(w.chain).zone = Bottom /\ answer = "good"
    BY <1>3, <1>15 DEF Judgement
  <2>3. Truth = Secure
    BY <1>9, <1>15, <2>2, TruthOfAll
  <2>4. Spoken(w', unheard)
    BY <1>6, <2>1, <2>3 DEF Spoken
  <2> QED BY <1>1, <1>4, <2>4
<1>16. CASE /\ ~Has(Bogus) /\ w.found # "failed" /\ ~w.truncated /\ w.ended /\ ~Has(Unknown) /\ ~Has(Insecure)
            /\ w.found # "verified"
  <2>1. w'.dnssec = Unknown
    BY <1>2, <1>16
  <2>2. Firm(w.chain)
    <3>1. \A i \in 1..Len(w.chain) : w.chain[i].status \in Statuses
      BY <1>7 DEF Links
    <3>2. \A i \in 1..Len(w.chain) : w.chain[i].status = Secure
      BY <1>5, <1>16, <3>1 DEF Statuses
    <3>3. w.chain # <<>> => Len(w.chain) \in 1..Len(w.chain)
      BY <1>3, <1>8 DEF ChainTrue
    <3> QED BY <3>2, <3>3 DEF Firm, Last
  <2>3. ASSUME ~unheard, answer # "partly",
               ~(w.hops # <<>> /\ w.hops[Len(w.hops)] # Bottom /\ ~HasKeys(Bottom) /\ answer # "absent")
        PROVE  Truth = Unknown
    <3>1. Judgement(w, unheard)
      BY <1>3, <1>16
    <3>2. Last(w.chain).zone = Bottom
      BY <2>3, <3>1 DEF Judgement, Reached
    <3>3. answer # "good" /\ answer # "badsig"
      BY <1>16, <2>2, <2>3, <3>1, <3>2 DEF Judgement
    <3> QED BY <1>9, <1>16, <2>2, <2>3, <3>2, <3>3, TruthOfAll
  <2>4. Spoken(w', unheard)
    BY <1>1, <1>6, <2>1, <2>3 DEF Spoken
  <2> QED BY <1>1, <1>4, <2>4
<1> QED BY <1>12, <1>13, <1>14, <1>15, <1>16

-----------------------------------------------------------------------------
(* The inductive invariant of the verdict.                                 *)

VerdictInv == WalkInv /\ World /\ unheard \in BOOLEAN /\ Sense(w, unheard) /\ Spoken(w, unheard)

LEMMA OnlyVerdictEnds ==
    ASSUME WalkInv, Next, ~Verdict
    PROVE  w'.pc # "done"
<1>1. Shaped(w)
  BY DEF WalkInv
<1>2. CASE Expire \/ OutOfBudget \/ Silent \/ Useless \/ Answered \/ SideLookup \/ SideOutOfBudget
  <2>1. w'.pc = w.pc /\ w.pc # "done"
    BY <1>1, <1>2 DEF Expire, OutOfBudget, Silent, Useless, Answered, SideLookup, SideOutOfBudget,
                      Asking, Seeking, Shaped, Fields
  <2> QED BY <2>1
<1>3. CASE TooDeep \/ Descend
  <2>1. w'.pc \in {"verdict", "zone"}
    BY <1>1, <1>3 DEF TooDeep, Descend, Stop, Shaped, Fields
  <2> QED BY <2>1
<1>4. CASE EnterZone
  BY <1>1, <1>4, ValidateSame DEF EnterZone
<1>5. CASE Keys
  BY <1>1, <1>5, AddLinkSame DEF Keys
<1>6. CASE Ask
  <2> DEFINE here == [w EXCEPT !.hops = Append(@, w.zone), !.said = w.reply]
             below == [here EXCEPT !.child = w.reply.child]
             across == [here EXCEPT !.child = w.reply.by, !.cut = TRUE]
  <2>1. Shaped(here) /\ Shaped(below) /\ Shaped(across)
    BY <1>1 DEF Shaped, Fields
  <2>2. w' \in {Delegate(below), Delegate(across), Finish(here, w.zone), Stop(here)}
    BY <1>6 DEF Ask
  <2>3. Stop(here).pc = "verdict"
    BY <2>1 DEF Stop, Shaped, Fields
  <2> HIDE DEF here, below, across
  <2> QED BY <2>1, <2>2, <2>3, DelegateSame, FinishSame
<1>7. CASE DS
  BY <1>1, <1>7, ParentSame DEF DS
<1> QED BY <1>2, <1>3, <1>4, <1>5, <1>6, <1>7 DEF Next

\* The world stands still, so what is known of a walk in it stays known.
LEMMA WorldStands ==
    ASSUME UNCHANGED world
    PROVE  /\ World <=> World'
           /\ Sense(w', unheard') => Sense(w, unheard)'
           /\ Spoken(w', unheard') => Spoken(w, unheard)'
<1>1. hosts' = hosts /\ signing' = signing /\ answer' = answer
  BY DEF world
<1>2. Plain' <=> Plain
  BY <1>1 DEF Plain
<1>3. \A z : (HasKeys(z) <=> HasKeys(z)') /\ (HasDS(z) <=> HasDS(z)')
  BY <1>1 DEF HasKeys, HasDS
<1>4. \A chain, i, lost : LinkTrue(chain, i, lost) <=> LinkTrue(chain, i, lost)'
  BY <1>1, <1>2 DEF LinkTrue
<1>5. \A chain, lost : ChainTrue(chain, lost) <=> ChainTrue(chain, lost)'
  BY <1>4 DEF ChainTrue
<1>6. \A chain, ds, z, lost : Word(chain, ds, z, lost) <=> Word(chain, ds, z, lost)'
  <2> TAKE chain, ds, z, lost
  <2>1. signing'[z] = signing[z] /\ (HasDS(z) <=> HasDS(z)') /\ (Plain <=> Plain')
    BY <1>1, <1>2, <1>3
  <2> QED BY <2>1, Zenon DEF Word
<1>7. \A r, lost : Speaks(r, lost) <=> Speaks(r, lost)'
  BY <1>3 DEF Speaks
<1>8. \A r, z, lost : /\ KeysHeard(r, z, lost) <=> KeysHeard(r, z, lost)'
                      /\ DSHeard(r, z, lost) <=> DSHeard(r, z, lost)'
                      /\ NameHeard(r, z, lost) <=> NameHeard(r, z, lost)'
  BY <1>2, <1>7 DEF KeysHeard, DSHeard, NameHeard
<1>9. \A walk, lost : Judgement(walk, lost) <=> Judgement(walk, lost)'
  BY <1>1, <1>3 DEF Judgement, Reached
<1>10. \A walk, lost : Base(walk, lost) <=> Base(walk, lost)'
  BY <1>5, <1>7 DEF Base, Behind
<1>11. \A walk : Goes(walk) <=> Goes(walk)'
  BY <1>2 DEF Goes
<1>12. Truth' = Truth
  BY <1>1 DEF Truth
<1>13. World <=> World'
  BY <1>1 DEF World
<1>14. Sense(w', unheard') => Sense(w, unheard)'
  BY <1>5, <1>6, <1>8, <1>9, <1>10, <1>11 DEF Sense
<1>15. Spoken(w', unheard') => Spoken(w, unheard)'
  BY <1>1, <1>2, <1>3, <1>12 DEF Spoken
<1> QED BY <1>13, <1>14, <1>15

LEMMA VerdictInit == Init => VerdictInv
<1> SUFFICES ASSUME Init PROVE VerdictInv
  OBVIOUS
<1>1. WalkInv /\ World /\ Sense(w, unheard)
  BY WalkInit, SenseInit
<1>2. unheard \in BOOLEAN /\ w.pc = "zone"
  BY DEF Init
<1>3. Spoken(w, unheard)
  BY <1>2 DEF Spoken
<1> QED BY <1>1, <1>2, <1>3 DEF VerdictInv

LEMMA VerdictStep == VerdictInv /\ [Next]_vars => VerdictInv'
<1> SUFFICES ASSUME VerdictInv, [Next]_vars PROVE VerdictInv'
  OBVIOUS
<1>1. WalkInv /\ WalkInv' /\ World /\ unheard \in BOOLEAN /\ Sense(w, unheard) /\ Spoken(w, unheard)
  BY WalkStep DEF VerdictInv
<1>2. Shaped(w) /\ w.hops \in Seq(Nat) /\ w.zone \in Nat
  BY <1>1 DEF WalkInv, Place
<1>3. UNCHANGED world
  BY DEF Next, Expire, OutOfBudget, Silent, Useless, Answered, TooDeep, EnterZone, Keys, Ask, DS,
         SideLookup, SideOutOfBudget, Descend, Verdict, vars, world
<1>4. unheard' \in BOOLEAN /\ Sense(w', unheard') /\ Spoken(w', unheard')
  <2>1. CASE Verdict
    BY <1>1, <1>2, <2>1, VerdictSense
  <2>2. CASE Next /\ ~Verdict
    <3>1. unheard' \in BOOLEAN /\ Sense(w', unheard')
      BY <1>1, <1>2, <2>2, SenseStep
    <3>2. w'.pc # "done"
      BY <1>1, <2>2, OnlyVerdictEnds
    <3>3. Spoken(w', unheard')
      BY <3>2 DEF Spoken
    <3> QED BY <3>1, <3>3
  <2>3. CASE UNCHANGED vars
    <3>1. w' = w /\ unheard' = unheard
      BY <2>3 DEF vars
    <3> QED BY <1>1, <3>1
  <2> QED BY <2>1, <2>2, <2>3
<1> QED BY <1>1, <1>3, <1>4, WorldStands DEF VerdictInv

\* Whatever answers are lost, stripped of signatures or refused, and however the
\* zones are signed: "secure" is said only of a name whose every zone and record
\* is, and where no referral skips a zone "bogus" is said only on evidence and
\* "insecure" only of a name below a zone without a DS.
THEOREM VerdictAlwaysTrue == Spec => []VerdictIsTruth
<1>1. VerdictInv => VerdictIsTruth
  BY DEF VerdictInv, Spoken, VerdictIsTruth, SecureMeansSigned, BogusMeansBroken, InsecureMeansUnsigned, Done
<1> QED BY <1>1, VerdictInit, VerdictStep, PTL DEF Spec

\* And when nothing was lost the walk finds the truth, whatever the depth of the
\* name and the number of its servers.
THEOREM HealthyWalkAlwaysRight == Spec => []HealthyWalkIsRight
<1>1. VerdictInv => HealthyWalkIsRight
  BY DEF VerdictInv, Spoken, HealthyWalkIsRight, Done
<1> QED BY <1>1, VerdictInit, VerdictStep, PTL DEF Spec
=============================================================================
