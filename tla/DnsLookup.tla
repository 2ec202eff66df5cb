----------------------------- MODULE DnsLookup -----------------------------
(***************************************************************************)
(* dnstools.Service.lookup: an answer cache in the process, and a          *)
(* singleflight group that lets one of the lookups of a question ask the   *)
(* resolver for all that wait.  The clock is read before the cache, the    *)
(* cache before the group; the one that asks reads the clock again when    *)
(* the answer is back, stores it under that time, and only then wakes the  *)
(* others: every gap is a step here.  The resolver is external: it answers *)
(* with records, with a negative (NXDOMAIN, NODATA or an rcode), it is not *)
(* reached, or decoding panics, each within the client's timeout or when   *)
(* the leader's context ends.                                              *)
(*                                                                         *)
(* raced is a history variable: it guards nothing.                         *)
(***************************************************************************)
EXTENDS Integers, FiniteSets

CONSTANTS Lookups,     \* calls of lookup in progress at once
          Keys,        \* qname|qtype|resolver
          Ttls,        \* the shortest TTL an answer may have
          MinTtl, NegTtl, MaxTtl,  \* cacheMinTTL, cacheNegTTL, cacheMaxTTL
          MaxEntries,  \* cacheMaxEntries
          Width,       \* 2^32: a TTL and an age are uint32
          MaxTime      \* bound of the clock, in seconds

ASSUME DnsAssumption ==
    /\ IsFiniteSet(Keys) /\ IsFiniteSet(Lookups)
    /\ MinTtl \in Nat /\ NegTtl \in MinTtl..MaxTtl /\ MaxTtl \in Nat
    /\ MaxEntries \in Nat \ {0} /\ Width \in Nat \ {0} /\ MaxTime \in 0..Width-1
    /\ Ttls \subseteq 0..Width-1

None == [kind |-> "none"]
Records == [kind : {"records"}, ttl : Ttls]
Oversized == [kind |-> "oversized"]  \* records over cacheMaxCost
Negative == [kind |-> "negative"]
Failures == {[kind |-> "transport"], [kind |-> "panic"]}
Outcomes == Records \cup {Oversized, Negative} \cup Failures

VARIABLES clock,  \* seconds
          cache,  \* cache[k]: the entry [answer, stored, expires], or None
          at,     \* where lookup c is
          key,    \* its question
          now,    \* its reading of the clock, before the cache
          flight, \* flight[k]: the lookup that asks for all and its value, or None
          stamp,  \* stamp[c]: the time it stores the answer under
          served, \* served[c]: what the cache gave lookup c, or None
          raced   \* the lookups between cache and group whose question was answered meanwhile

vars == <<clock, cache, at, key, now, flight, stamp, served, raced>>

Init ==
    /\ clock = 0
    /\ cache = [k \in Keys |-> None]
    /\ at = [c \in Lookups |-> "done"]
    /\ key \in [Lookups -> Keys]
    /\ now = [c \in Lookups |-> 0]
    /\ flight = [k \in Keys |-> None]
    /\ stamp = [c \in Lookups |-> 0]
    /\ served = [c \in Lookups |-> None]
    /\ raced = {}

Tick ==
    /\ clock < MaxTime /\ clock' = clock + 1
    /\ UNCHANGED <<cache, at, key, now, flight, stamp, served, raced>>

Start(c, k) ==
    /\ at[c] = "done"
    /\ at' = [at EXCEPT ![c] = "look"]
    /\ key' = [key EXCEPT ![c] = k]
    /\ now' = [now EXCEPT ![c] = clock]
    /\ served' = [served EXCEPT ![c] = None]
    /\ raced' = raced \ {c}
    /\ UNCHANGED <<clock, cache, flight, stamp>>

\* uint32(age/time.Second): an entry stored after the clock was read has a negative age.
Seconds(age) == age % Width

\* Mutant: a TTL is shown as it was stored.
TtlAsStored(ttl, age) == ttl

TtlLeft(ttl, age) == IF Seconds(age) < ttl THEN ttl - Seconds(age) ELSE 0

Fresh(e, n) == e # None /\ n <= e.expires

\* Mutant: a stored NXDOMAIN or rcode, an entry with an error, counts as a miss.
LookRecordsOnly(c) ==
    LET e == cache[key[c]] IN
    /\ at[c] = "look"
    /\ IF Fresh(e, now[c]) /\ e.answer # Negative
       THEN /\ at' = [at EXCEPT ![c] = "done"]
            /\ served' = [served EXCEPT ![c] = [entry |-> e, shown |-> TtlLeft(e.answer.ttl, now[c] - e.stored)]]
       ELSE at' = [at EXCEPT ![c] = "join"] /\ UNCHANGED served
    /\ UNCHANGED <<clock, cache, key, now, flight, stamp, raced>>

\* cache.get: serve the entry, its TTLs counted down, or go on to the group.
Look(c) ==
    LET e == cache[key[c]] IN
    /\ at[c] = "look"
    /\ IF Fresh(e, now[c])
       THEN /\ at' = [at EXCEPT ![c] = "done"]
            /\ served' = [served EXCEPT ![c] = [entry |-> e, shown |->
                  IF e.answer = Negative THEN 0 ELSE TtlLeft(e.answer.ttl, now[c] - e.stored)]]
       ELSE at' = [at EXCEPT ![c] = "join"] /\ UNCHANGED served
    /\ UNCHANGED <<clock, cache, key, now, flight, stamp, raced>>

\* Mutant: no group, each lookup asks.
JoinNone(c) ==
    /\ at[c] = "join"
    /\ flight' = [flight EXCEPT ![key[c]] = [leader |-> c, value |-> None]]
    /\ at' = [at EXCEPT ![c] = "asking"]
    /\ UNCHANGED <<clock, cache, key, now, stamp, served, raced>>

\* inflight.Do: the first asks, the others wait for it.
Join(c) ==
    /\ at[c] = "join"
    /\ IF flight[key[c]] = None
       THEN /\ flight' = [flight EXCEPT ![key[c]] = [leader |-> c, value |-> None]]
            /\ at' = [at EXCEPT ![c] = "asking"]
       ELSE at' = [at EXCEPT ![c] = "waiting"] /\ UNCHANGED flight
    /\ UNCHANGED <<clock, cache, key, now, stamp, served, raced>>

Clamp(ttl) == IF ttl < MinTtl THEN MinTtl ELSE IF ttl > MaxTtl THEN MaxTtl ELSE ttl

\* 0 means the answer is not stored.
Lifetime(a) ==
    CASE a = Negative -> NegTtl
      [] a \in Records /\ a.ttl > 0 -> Clamp(a.ttl)
      [] OTHER -> 0

Entry(a, stored) == [answer |-> a, stored |-> stored, expires |-> stored + Lifetime(a)]

\* cache.put: a full map is emptied first.
Put(k, a, stored) ==
    LET full == Cardinality({j \in Keys : cache[j] # None}) >= MaxEntries IN
    cache' = IF Lifetime(a) = 0 THEN cache
             ELSE [j \in Keys |-> IF j = k THEN Entry(a, stored) ELSE IF full THEN None ELSE cache[j]]

\* exchange comes back; an answer is to be stored, a failure is not.
Exchange(c, a) ==
    /\ at[c] = "asking"
    /\ at' = [at EXCEPT ![c] = IF a \in Failures THEN "stored" ELSE "answered"]
    /\ flight' = [flight EXCEPT ![key[c]].value = a]
    /\ UNCHANGED <<clock, cache, key, now, stamp, served, raced>>

\* Mutant: the reading of the clock that the cache was asked with.
StampAtStart(c) ==
    /\ at[c] = "answered"
    /\ at' = [at EXCEPT ![c] = "stamped"]
    /\ stamp' = [stamp EXCEPT ![c] = now[c]]
    /\ UNCHANGED <<clock, cache, key, now, flight, served, raced>>

\* The time the answer is stored under.
Stamp(c) ==
    /\ at[c] = "answered"
    /\ at' = [at EXCEPT ![c] = "stamped"]
    /\ stamp' = [stamp EXCEPT ![c] = clock]
    /\ UNCHANGED <<clock, cache, key, now, flight, served, raced>>

Store(c) ==
    /\ at[c] = "stamped"
    /\ at' = [at EXCEPT ![c] = "stored"]
    /\ Put(key[c], flight[key[c]].value, stamp[c])
    /\ raced' = raced \cup {d \in Lookups : at[d] = "join" /\ key[d] = key[c]}
    /\ stamp' = [stamp EXCEPT ![c] = 0]
    /\ UNCHANGED <<clock, key, now, flight, served>>

Waiters(c) == {d \in Lookups : at[d] = "waiting" /\ key[d] = key[c]}

\* Mutant: a panic leaves the flight in the group.
LandUnlessPanic(c) ==
    /\ at[c] = "stored" /\ flight[key[c]].value.kind # "panic"
    /\ at' = [d \in Lookups |-> IF d \in Waiters(c) \cup {c} THEN "done" ELSE at[d]]
    /\ flight' = [flight EXCEPT ![key[c]] = None]
    /\ UNCHANGED <<clock, cache, key, now, stamp, served, raced>>

\* The flight ends, by a panic too, and every waiter comes back with its value.
Land(c) ==
    /\ at[c] = "stored"
    /\ at' = [d \in Lookups |-> IF d \in Waiters(c) \cup {c} THEN "done" ELSE at[d]]
    /\ flight' = [flight EXCEPT ![key[c]] = None]
    /\ UNCHANGED <<clock, cache, key, now, stamp, served, raced>>

Next ==
    \/ Tick
    \/ \E c \in Lookups :
        \/ \E k \in Keys : Start(c, k)
        \/ Look(c) \/ Join(c) \/ Stamp(c) \/ Store(c) \/ Land(c)
        \/ \E a \in Outcomes : Exchange(c, a)

\* Goroutines go on, and an exchange ends by the client's timeout.
Fairness == \A c \in Lookups :
    /\ WF_vars(Look(c) \/ Join(c) \/ Stamp(c) \/ Store(c) \/ Land(c))
    /\ WF_vars(\E a \in Outcomes : Exchange(c, a))

Spec == Init /\ [][Next]_vars /\ Fairness

-----------------------------------------------------------------------------
TypeOK ==
    LET Entries == [answer : Records \cup {Negative}, stored : Nat, expires : Nat] IN
    /\ clock \in 0..MaxTime
    /\ cache \in [Keys -> Entries \cup {None}]
    /\ at \in [Lookups -> {"look", "join", "asking", "answered", "stamped", "stored", "waiting", "done"}]
    /\ key \in [Lookups -> Keys]
    /\ now \in [Lookups -> 0..MaxTime]
    /\ flight \in [Keys -> [leader : Lookups, value : Outcomes \cup {None}] \cup {None}]
    /\ stamp \in [Lookups -> 0..MaxTime]
    /\ served \in [Lookups -> [entry : Entries, shown : Nat] \cup {None}]
    /\ raced \subseteq Lookups

Leading == {"asking", "answered", "stamped", "stored"}

\* At most one query of a question is under way, and a flight in the group
\* has its lookup still at work: identical questions cost one (dns.go:249),
\* and no lookup waits on a flight that is over.
OneQueryPerQuestion == \A k \in Keys :
    /\ {c \in Lookups : key[c] = k /\ at[c] \in Leading} = (IF flight[k] = None THEN {} ELSE {flight[k].leader})
    /\ flight[k] = None => \A c \in Lookups : key[c] = k => at[c] # "waiting"

\* A newer answer is never replaced by an older one, although the time of an
\* answer is read before the lock of the cache is taken (dns.go:531): the
\* lookup that stores a question's answer is the only one that may, until its
\* flight ends.
NewestStays == [][\A k \in Keys : cache[k] # None /\ cache'[k] # None => cache'[k].stored >= cache[k].stored]_vars

\* A cached record never shows a TTL that, counted from the time it is stored
\* under, would outlive the zone's own.
TtlCountsDown == \A c \in Lookups : served[c] # None =>
    LET e == served[c].entry IN
    e.answer \in Records =>
        /\ served[c].shown <= e.answer.ttl
        /\ served[c].shown > 0 => now[c] + served[c].shown <= e.stored + e.answer.ttl

\* A question whose answer is in the cache is not asked again (dns.go:523),
\* but for the race the code leaves open: the flight a lookup would have joined
\* stores its answer between the lookup's look at the cache and its turn at the group.
NoNeedlessQuery == \A c \in Lookups :
    at[c] \in {"join", "asking", "answered", "stamped"} /\ Fresh(cache[key[c]], now[c]) => c \in raced

\* A lookup comes back, with an error at worst, also as a waiter of one that panicked.
EveryLookupReturns == \A c \in Lookups : at[c] = "look" ~> at[c] = "done"
=============================================================================
