----------------------------- MODULE BlockList -----------------------------
(***************************************************************************)
(* iptools.BlockList: one collection that the feed syncs and the probe     *)
(* flags write, each source under its own (ip, source) key, and that Check *)
(* reads.  Two TTL indexes age it: updated_at, which every touch refreshes,*)
(* and expires_at, which only a probe sets.  A sync goroutine per feed     *)
(* runs at boot and at each tick, skips while the corpus reads as fresh,   *)
(* and writes its chunks until one fails.  The process may stop and start  *)
(* anywhere.  The publishers and Mongo are external.                       *)
(*                                                                         *)
(* The clock counts hours.  Timers are prompt and a sync ends within       *)
(* the hour (its context allows five minutes), so the clock waits for both.*)
(***************************************************************************)
EXTENDS Integers, FiniteSets

CONSTANTS Addresses, Blocks,
          Covers,      \* Covers[n]: the addresses of netblock n
          Routable,    \* addresses FlagProbe accepts
          Feeds,       \* "ipsum", "spamhaus-drop"
          Names,       \* Names[f]: what feed f can list
          ChunkSize,
          Interval, Slack,  \* blocklistSyncInterval, blocklistSyncSlack
          Ttl, ProbeTtl,    \* blocklistTTL, probeTTL
          MaxClock     \* bound: the clock stops here

Keys == Addresses \cup Blocks
Probe == "corpberry-honeypot"
Sources == Feeds \cup {Probe}

ASSUME ListAssumption ==
    /\ Interval \in Nat /\ Slack \in 1..(Interval - 1) /\ ChunkSize \in Nat \ {0}
    /\ Ttl \in Nat /\ ProbeTtl \in 0..Ttl /\ 4 * Interval <= Ttl /\ MaxClock \in Nat
    /\ Covers \in [Blocks -> SUBSET Addresses] /\ Routable \subseteq Addresses
    /\ Names \in [Feeds -> SUBSET Keys] /\ Probe \notin Feeds
    /\ \A f \in Feeds : IsFiniteSet(Names[f])

Never == -1
None == [updated |-> Never, expires |-> Never]

VARIABLES
    clock,
    doc,   \* doc[s][k]: the document of key k and source s, or None
    feed,  \* feed[f]: what its publisher lists
    sync,  \* each feed's goroutine
    \* history
    since,  \* what became of the feed last: "boot", "complete" or "failure"
    done,   \* when its last complete sync ended
    misses, \* failed syncs since then; 2 stays, and stands for an hour of downtime too
    steady, \* what a complete sync wrote and the publisher has listed ever since
    probed  \* probed[a]: when the last flag of a was written

history == <<since, done, misses, steady, probed>>
vars == <<clock, doc, feed, sync, history>>

Off == [pc |-> "off", began |-> Never, next |-> Never, batch |-> {}, todo |-> {}]
Booting(now) == [pc |-> "check", began |-> now, next |-> Never, batch |-> {}, todo |-> {}]

Up == \A f \in Feeds : sync[f].pc # "off"

Init ==
    /\ clock = 0
    /\ doc = [s \in Sources |-> [k \in Keys |-> None]]
    /\ feed \in [Feeds -> UNION {SUBSET Names[f] : f \in Feeds}]
    /\ \A f \in Feeds : feed[f] \subseteq Names[f]
    /\ sync = [f \in Feeds |-> Booting(0)]
    /\ since = [f \in Feeds |-> "boot"] /\ done = [f \in Feeds |-> Never]
    /\ misses = [f \in Feeds |-> 0]
    /\ steady = [f \in Feeds |-> {}]
    /\ probed = [a \in Addresses |-> Never]

-----------------------------------------------------------------------------
(* One goroutine: runDailySync around syncFeed.                            *)

At(f, pc) == sync[f].pc = pc

\* syncOnce returns; the ticker is made after the first.
Sleep(f) == sync' = [sync EXCEPT
    ![f].pc = "sleep", ![f].batch = {}, ![f].todo = {},
    ![f].next = IF @ = Never THEN clock + Interval ELSE @]

Wake(f) ==
    /\ At(f, "sleep") /\ clock = sync[f].next
    /\ sync' = [sync EXCEPT ![f].pc = "check", ![f].began = clock, ![f].next = @ + Interval]
    /\ UNCHANGED <<clock, doc, feed, history>>

\* Mutant: the interval itself is the guard.
FreshNoSlack(f) == \E k \in Keys :
    doc[f][k] # None /\ clock - doc[f][k].updated < Interval

\* The newest updated_at of the source is younger than the guard.
Fresh(f) == \E k \in Keys :
    doc[f][k] # None /\ clock - doc[f][k].updated < Interval - Slack

Skip(f) ==
    /\ At(f, "check") /\ Fresh(f)
    /\ Sleep(f)
    /\ UNCHANGED <<clock, doc, feed, history>>

\* The corpus is stale or empty, or, fresh or not, the query failed: ShouldSync
\* never skips on an error.
Proceed(f) ==
    /\ At(f, "check")
    /\ sync' = [sync EXCEPT ![f].pc = "fetch"]
    /\ UNCHANGED <<clock, doc, feed, history>>

Fail(f) ==
    /\ Sleep(f)
    /\ since' = [since EXCEPT ![f] = "failure"]
    /\ misses' = [misses EXCEPT ![f] = IF @ < 2 THEN @ + 1 ELSE 2]
    /\ UNCHANGED <<done, steady, probed>>

\* The download and its parse; an outage never parses as an empty feed.
Fetch(f) ==
    /\ At(f, "fetch")
    /\ sync' = [sync EXCEPT ![f].pc = "write", ![f].batch = feed[f], ![f].todo = feed[f]]
    /\ UNCHANGED <<clock, doc, feed, history>>

FetchFails(f) ==
    /\ At(f, "fetch")
    /\ Fail(f)
    /\ UNCHANGED <<clock, doc, feed>>

\* Mutant: updated_at is set when the document is inserted.
TouchNew(f, K) == doc' = [doc EXCEPT ![f] = [k \in Keys |->
    IF k \in K /\ @[k] = None THEN [updated |-> clock, expires |-> Never] ELSE @[k]]]

\* blocklistUpdate without ExpiresAt: upsert, with a new updated_at.
Touch(f, K) == doc' = [doc EXCEPT ![f] = [k \in Keys |->
    IF k \in K THEN [updated |-> clock, expires |-> @[k].expires] ELSE @[k]]]

Chunks(f) == {K \in SUBSET sync[f].todo :
    Cardinality(K) = ChunkSize \/ (K = sync[f].todo /\ Cardinality(K) < ChunkSize)}

WriteChunk(f) ==
    /\ At(f, "write") /\ sync[f].todo # {}
    /\ \E K \in Chunks(f) : Touch(f, K) /\ sync' = [sync EXCEPT ![f].todo = @ \ K]
    /\ UNCHANGED <<clock, feed, history>>

\* Unordered: any of the chunk may be written when the error comes back.
WriteFails(f) ==
    /\ At(f, "write") /\ sync[f].todo # {}
    /\ \E K \in Chunks(f) : \E S \in SUBSET K : Touch(f, S)
    /\ Fail(f)
    /\ UNCHANGED <<clock, feed>>

Complete(f) ==
    /\ At(f, "write") /\ sync[f].todo = {}
    /\ Sleep(f)
    /\ since' = [since EXCEPT ![f] = "complete"]
    /\ done' = [done EXCEPT ![f] = clock]
    /\ misses' = [misses EXCEPT ![f] = IF @ < 2 THEN 0 ELSE 2]
    /\ steady' = [steady EXCEPT ![f] = @ \cup (sync[f].batch \cap feed[f])]
    /\ UNCHANGED <<clock, doc, feed, probed>>

Sync(f) ==
    \/ Wake(f) \/ Skip(f) \/ Proceed(f)
    \/ Fetch(f) \/ FetchFails(f)
    \/ WriteChunk(f) \/ WriteFails(f) \/ Complete(f)

-----------------------------------------------------------------------------
(* Probes, readers, and the world around.                                  *)

\* Mutant: a probe of an address on the list does not move its date.
FlagProbeOnce(a) ==
    /\ Up /\ a \in Routable
    /\ doc' = [doc EXCEPT ![Probe][a] =
          [updated |-> clock, expires |-> IF @ = None THEN clock + ProbeTtl ELSE @.expires]]
    /\ probed' = [probed EXCEPT ![a] = clock]
    /\ UNCHANGED <<clock, feed, sync, since, done, misses, steady>>

\* The request log hands a probe over; a failed upsert changes nothing.
FlagProbe(a) ==
    /\ Up /\ a \in Routable
    /\ doc' = [doc EXCEPT ![Probe][a] = [updated |-> clock, expires |-> clock + ProbeTtl]]
    /\ probed' = [probed EXCEPT ![a] = clock]
    /\ UNCHANGED <<clock, feed, sync, since, done, misses, steady>>

\* Check's Sources: what lists the address or a netblock around it.
Check(a) == {s \in Sources :
    \/ doc[s][a] # None
    \/ \E n \in Blocks : a \in Covers[n] /\ doc[s][n] # None}

ProbeIPs == {a \in Addresses : doc[Probe][a].expires > clock}

\* Mongo deletes what either index lets go, some time after.
Expire(s, k) ==
    /\ doc[s][k] # None
    /\ \/ doc[s][k].updated + Ttl <= clock
       \/ doc[s][k].expires # Never /\ doc[s][k].expires <= clock
    /\ doc' = [doc EXCEPT ![s][k] = None]
    /\ UNCHANGED <<clock, feed, sync, history>>

Publish(f, L) ==
    /\ feed' = [feed EXCEPT ![f] = L]
    /\ steady' = [steady EXCEPT ![f] = @ \cap L]
    /\ UNCHANGED <<clock, doc, sync, since, done, misses, probed>>

\* A sync that is cut short is one that failed.
Stop ==
    /\ Up
    /\ sync' = [f \in Feeds |-> Off]
    /\ misses' = [f \in Feeds |-> IF ~At(f, "sleep") /\ misses[f] < 2 THEN misses[f] + 1 ELSE misses[f]]
    /\ UNCHANGED <<clock, doc, feed, since, done, steady, probed>>

Boot ==
    /\ ~Up
    /\ sync' = [f \in Feeds |-> Booting(clock)]
    /\ since' = [f \in Feeds |-> "boot"]
    /\ UNCHANGED <<clock, doc, feed, done, misses, steady, probed>>

\* An hour passes when no timer is due and no sync would run for longer.
Tick ==
    /\ clock < MaxClock
    /\ \A f \in Feeds :
          CASE At(f, "off") -> TRUE
            [] At(f, "sleep") -> clock < sync[f].next
            [] OTHER -> clock = sync[f].began
    /\ clock' = clock + 1
    /\ misses' = IF Up THEN misses ELSE [f \in Feeds |-> 2]
    /\ UNCHANGED <<doc, feed, sync, since, done, steady, probed>>

Next ==
    \/ Tick \/ Stop \/ Boot
    \/ \E f \in Feeds : Sync(f) \/ \E L \in SUBSET Names[f] : Publish(f, L)
    \/ \E a \in Addresses : FlagProbe(a)
    \/ \E s \in Sources, k \in Keys : Expire(s, k)

Spec == Init /\ [][Next]_vars

-----------------------------------------------------------------------------
Times == 0..MaxClock

TypeOK ==
    /\ clock \in Times
    /\ doc \in [Sources -> [Keys ->
          [updated : Times, expires : 0..(MaxClock + ProbeTtl) \cup {Never}] \cup {None}]]
    /\ feed \in [Feeds -> SUBSET Keys] /\ \A f \in Feeds : feed[f] \subseteq Names[f]
    /\ sync \in [Feeds -> [pc : {"off", "check", "fetch", "write", "sleep"},
                           began : Times \cup {Never}, next : Nat \cup {Never},
                           batch : SUBSET Keys, todo : SUBSET Keys]]
    /\ since \in [Feeds -> {"boot", "complete", "failure"}]
    /\ done \in [Feeds -> Times \cup {Never}]
    /\ misses \in [Feeds -> 0..2]
    /\ steady \in [Feeds -> SUBSET Keys]
    /\ probed \in [Addresses -> Times \cup {Never}]

\* "guarding on the bare interval would skip every other tick" (blocklist.go:28):
\* a process that stays up and meets no failure completes a sync every day; and
\* one that was restarted, as often as it may be, never sleeps over a corpus
\* that reaches two days.
CorpusAgeBounded == \A f \in Feeds : Up =>
    /\ since[f] = "complete" => clock - done[f] <= Interval + 1
    /\ since[f] = "boot" /\ At(f, "sleep") =>
          \E k \in Keys : doc[f][k] # None /\ clock - doc[f][k].updated <= 2 * Interval - Slack

\* "Still-listed IPs are re-touched daily and never expire" (blocklist.go:25),
\* and "the 60-day TTL means nothing expires meanwhile" (blocklist.go:269): what
\* a complete sync wrote and its feed still lists is found by Check, through
\* restarts and a sync that failed or was cut short half way, and by way of its
\* netblock too.
NothingListedExpires == \A f \in Feeds : misses[f] < 2 =>
    \A k \in steady[f], a \in Addresses :
        a = k \/ (k \in Blocks /\ a \in Covers[k]) => f \in Check(a)

\* An address that probed the site is on the probe list until 30 days after its
\* latest probe and no longer, and Check knows it that long at least; feeds,
\* expiry and restarts do not touch it (blocklist.go:44).
ProbesListedThirtyDays ==
    LET Recent == {a \in Addresses : probed[a] # Never /\ clock < probed[a] + ProbeTtl}
    IN  ProbeIPs = Recent /\ \A a \in Recent : Probe \in Check(a)
=============================================================================
