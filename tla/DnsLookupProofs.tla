-------------------------- MODULE DnsLookupProofs --------------------------
(***************************************************************************)
(* The answer cache and its group, for any lookups, questions, lifetimes   *)
(* and clock.  The invariant says that no entry is from the future, what   *)
(* of one a lookup was shown (ServedInv), that a lookup's readings of the  *)
(* clock are behind the clock and the time it is about to store an answer  *)
(* under behind no entry of its question (StampInv), and who is in a       *)
(* flight.                                                                 *)
(***************************************************************************)
EXTENDS DnsLookup, TLAPS

Entries == [answer : Records \cup {Negative}, stored : Nat, expires : Nat]

\* An entry is no newer than the clock.
EntryInv == \A k \in Keys : cache[k] # None => cache[k].stored <= clock

Shown(e, n) == IF e.answer = Negative THEN 0 ELSE TtlLeft(e.answer.ttl, n - e.stored)

\* A lookup was shown of an entry what its TTL left when it read the clock.
ServedInv == \A c \in Lookups : served[c] # None =>
    LET e == served[c].entry IN e.stored <= MaxTime /\ served[c].shown = Shown(e, now[c])

ClockInv == \A c \in Lookups : now[c] <= clock

\* What a lookup is about to store is no older than what it replaces.
StampInv == \A c \in Lookups : at[c] = "stamped" =>
    stamp[c] <= clock /\ (cache[key[c]] # None => cache[key[c]].stored <= stamp[c])

IInv == TypeOK /\ ClockInv /\ EntryInv /\ ServedInv /\ StampInv /\ OneQueryPerQuestion /\ NoNeedlessQuery

-----------------------------------------------------------------------------
(* The operators.                                                          *)

LEMMA Constants ==
    /\ MinTtl \in Nat /\ NegTtl \in Nat /\ MaxTtl \in Nat /\ MinTtl <= NegTtl /\ NegTtl <= MaxTtl
    /\ Width \in Nat /\ Width > 0 /\ MaxTime \in Nat /\ MaxTime < Width
    /\ \A t \in Ttls : t \in Nat /\ t < Width
BY DnsAssumption

\* No answer lives longer than five minutes.
LEMMA LifetimeBounded == \A a : Lifetime(a) \in 0..MaxTtl
<1>. TAKE a
<1>1. CASE a = Negative
  <2>1. a \notin Records
    BY <1>1 DEF Negative, Records
  <2>. QED
    BY <1>1, <2>1, Constants DEF Lifetime
<1>2. CASE a # Negative /\ a \in Records /\ a.ttl > 0
  <2>1. a.ttl \in Nat
    BY <1>2, Constants DEF Records
  <2>2. Clamp(a.ttl) \in 0..MaxTtl
    BY <2>1, Constants DEF Clamp
  <2>. QED
    BY <1>2, <2>2 DEF Lifetime
<1>3. CASE a # Negative /\ ~(a \in Records /\ a.ttl > 0)
  BY <1>3, Constants DEF Lifetime
<1>. QED
  BY <1>1, <1>2, <1>3

\* Only records and negatives have a lifetime.
LEMMA StoredAnswers == ASSUME NEW a, Lifetime(a) # 0 PROVE a \in Records \cup {Negative}
BY DEF Lifetime

\* The age an entry shows is never below its age, also where the clock was
\* read before the entry was stored and the difference wraps around.
LEMMA SecondsOfAge ==
    ASSUME NEW n \in 0..MaxTime, NEW s \in Nat, s <= MaxTime
    PROVE  Seconds(n - s) \in Nat /\ Seconds(n - s) >= n - s
<1>1. n - s \in Int /\ n - s < Width /\ n \in Int /\ s \in Int
  BY Constants
<1>2. (n - s) % Width \in 0..(Width - 1)
  BY <1>1, Constants
<1>3. CASE n - s >= 0
  <2>1. n - s \in 0..(Width - 1)
    BY <1>1, <1>3, Constants
  <2>2. \A x \in 0..(Width - 1) : x % Width = x
    BY Constants
  <2>3. (n - s) % Width = n - s
    BY <2>1, <2>2
  <2>. QED
    BY <1>1, <1>2, <2>1, <2>3, Constants DEF Seconds
<1>4. CASE n - s < 0
  BY <1>1, <1>2, <1>4, Constants DEF Seconds
<1>. QED
  BY <1>1, <1>3, <1>4

LEMMA TtlLeftCounts ==
    ASSUME NEW n \in 0..MaxTime, NEW s \in Nat, s <= MaxTime, NEW ttl \in Nat
    PROVE  /\ TtlLeft(ttl, n - s) \in 0..ttl
           /\ TtlLeft(ttl, n - s) > 0 => n + TtlLeft(ttl, n - s) <= s + ttl
<1>. DEFINE g == Seconds(n - s)
<1>1. g \in Nat /\ g >= n - s /\ n \in Nat
  BY SecondsOfAge
<1>2. TtlLeft(ttl, n - s) = IF g < ttl THEN ttl - g ELSE 0
  BY DEF TtlLeft
<1>. HIDE DEF g
<1>3. CASE g < ttl
  BY <1>1, <1>2, <1>3
<1>4. CASE ~(g < ttl)
  BY <1>1, <1>2, <1>4
<1>. QED
  BY <1>3, <1>4

-----------------------------------------------------------------------------
(* Types.                                                                  *)

FlightTypes == [leader : Lookups, value : Outcomes \cup {None}]
ServedTypes == [entry : Entries, shown : Nat]

LEMMA TypeFacts ==
    ASSUME TypeOK
    PROVE  /\ clock \in Nat /\ clock <= MaxTime
           /\ \A k \in Keys : cache[k] # None => cache[k] \in Entries
           /\ \A k \in Keys : flight[k] # None => flight[k] \in FlightTypes
           /\ \A c \in Lookups :
                /\ key[c] \in Keys
                /\ now[c] \in 0..MaxTime /\ now[c] \in Nat /\ stamp[c] \in Nat /\ stamp[c] <= MaxTime
                /\ served[c] # None => served[c] \in ServedTypes
BY Constants DEF TypeOK, Entries, FlightTypes, ServedTypes

\* What Put leaves of a question's entry.
LEMMA PutGives ==
    ASSUME TypeOK, NEW k \in Keys, NEW a, NEW s, Put(k, a, s), NEW j \in Keys
    PROVE  \/ cache'[j] = cache[j] \/ cache'[j] = None
           \/ j = k /\ cache'[j] = Entry(a, s) /\ a \in Records \cup {Negative}
<1>1. CASE Lifetime(a) = 0
  BY <1>1 DEF Put
<1>2. CASE Lifetime(a) # 0
  BY <1>2, StoredAnswers DEF Put
<1>. QED
  BY <1>1, <1>2

LEMMA PutDomain ==
    ASSUME TypeOK, NEW k \in Keys, NEW a, NEW s \in Nat, Put(k, a, s)
    PROVE  cache' \in [Keys -> Entries \cup {None}]
<1>1. cache \in [Keys -> Entries \cup {None}]
  BY DEF TypeOK, Entries
<1>2. ASSUME a \in Records \cup {Negative} PROVE Entry(a, s) \in Entries
  <2>1. s + Lifetime(a) \in Nat
    BY LifetimeBounded, Constants
  <2>. QED
    BY <1>2, <2>1 DEF Entry, Entries
<1>3. \A j \in Keys : cache'[j] \in Entries \cup {None}
  BY <1>1, <1>2, PutGives
<1>4. cache' = cache \/ cache' = [j \in Keys |-> cache'[j]]
  BY DEF Put
<1>. QED
  BY <1>1, <1>3, <1>4

\* What an entry shows is a number of seconds.
LEMMA ShownIsNat ==
    ASSUME NEW e \in Entries, NEW n \in 0..MaxTime, e.stored <= MaxTime
    PROVE  Shown(e, n) \in Nat
<1>1. CASE e.answer = Negative
  BY <1>1 DEF Shown
<1>2. CASE e.answer # Negative
  <2>1. e.answer.ttl \in Nat /\ e.stored \in Nat
    BY <1>2, Constants DEF Entries, Records
  <2>2. TtlLeft(e.answer.ttl, n - e.stored) \in 0..e.answer.ttl
    BY <2>1, TtlLeftCounts
  <2>. QED
    BY <1>2, <2>1, <2>2 DEF Shown
<1>. QED
  BY <1>1, <1>2

\* Look either serves the entry it found or goes on.
LEMMA LookGives ==
    ASSUME TypeOK, NEW c \in Lookups, Look(c)
    PROVE  LET e == cache[key[c]] IN
           /\ at[c] = "look" /\ UNCHANGED <<clock, cache, key, now, flight, stamp, raced>>
           /\ \/ /\ Fresh(e, now[c]) /\ at' = [at EXCEPT ![c] = "done"]
                 /\ served' = [served EXCEPT ![c] = [entry |-> e, shown |-> Shown(e, now[c])]]
              \/ ~Fresh(e, now[c]) /\ at' = [at EXCEPT ![c] = "join"] /\ served' = served
BY DEF Look, Shown

\* A lookup that asks is the leader of its question's flight.
LEMMA Leads ==
    ASSUME TypeOK, OneQueryPerQuestion, NEW c \in Lookups, at[c] \in Leading
    PROVE  flight[key[c]] # None /\ flight[key[c]].leader = c
<1>1. key[c] \in Keys
  BY TypeFacts
<1>2. {d \in Lookups : key[d] = key[c] /\ at[d] \in Leading} =
          (IF flight[key[c]] = None THEN {} ELSE {flight[key[c]].leader})
  BY <1>1 DEF OneQueryPerQuestion
<1>3. c \in {d \in Lookups : key[d] = key[c] /\ at[d] \in Leading}
  OBVIOUS
<1>. QED
  BY <1>2, <1>3

LEMMA TypeStep == ASSUME IInv, [Next]_vars PROVE TypeOK'
<1>0. TypeOK /\ EntryInv /\ OneQueryPerQuestion
  BY DEF IInv
<1>1. CASE Tick
  BY <1>0, <1>1, Constants DEF Tick, TypeOK
<1>2. ASSUME NEW c \in Lookups, NEW k \in Keys, Start(c, k) PROVE TypeOK'
  BY <1>0, <1>2, Constants DEF Start, TypeOK
<1>3. ASSUME NEW c \in Lookups, Look(c) PROVE TypeOK'
  <2>. DEFINE e == cache[key[c]]
  <2>1. ASSUME Fresh(e, now[c]) PROVE [entry |-> e, shown |-> Shown(e, now[c])] \in ServedTypes
    <3>1. key[c] \in Keys /\ e # None
      BY <1>0, <2>1, TypeFacts DEF Fresh
    <3>2. e \in Entries /\ e.stored <= clock
      BY <1>0, <3>1, TypeFacts DEF EntryInv
    <3>3. e.stored <= MaxTime
      BY <1>0, <3>2, TypeFacts, Constants DEF Entries
    <3>4. Shown(e, now[c]) \in Nat
      BY <1>0, <3>2, <3>3, TypeFacts, ShownIsNat
    <3>. QED
      BY <3>2, <3>4 DEF ServedTypes
  <2>2. at' \in [Lookups -> {"look", "join", "asking", "answered", "stamped", "stored", "waiting", "done"}]
    BY <1>0, <1>3, LookGives DEF TypeOK
  <2>3. served \in [Lookups -> ServedTypes \cup {None}]
    BY <1>0 DEF TypeOK, ServedTypes, Entries
  <2>4. served' \in [Lookups -> ServedTypes \cup {None}]
    BY <1>0, <1>3, <2>1, <2>3, LookGives
  <2>. QED
    BY <1>0, <1>3, <2>2, <2>4, LookGives DEF TypeOK, ServedTypes, Entries
<1>4. ASSUME NEW c \in Lookups, Join(c) PROVE TypeOK'
  <2>1. [leader |-> c, value |-> None] \in FlightTypes
    BY DEF FlightTypes
  <2>2. flight \in [Keys -> FlightTypes \cup {None}] /\ key[c] \in Keys
    BY <1>0 DEF TypeOK, FlightTypes
  <2>3. flight' \in [Keys -> FlightTypes \cup {None}]
    BY <1>0, <1>4, <2>1, <2>2 DEF Join
  <2>. QED
    BY <1>0, <1>4, <2>3 DEF Join, TypeOK, FlightTypes
<1>5. ASSUME NEW c \in Lookups, Land(c) PROVE TypeOK'
  <2>1. flight' \in [Keys -> FlightTypes \cup {None}]
    BY <1>0, <1>5 DEF Land, TypeOK, FlightTypes
  <2>. QED
    BY <1>0, <1>5, <2>1 DEF Land, TypeOK, FlightTypes
<1>6. ASSUME NEW c \in Lookups, NEW a \in Outcomes, Exchange(c, a) PROVE TypeOK'
  <2>1. at' \in [Lookups -> {"look", "join", "asking", "answered", "stamped", "stored", "waiting", "done"}]
    BY <1>0, <1>6 DEF Exchange, TypeOK
  <2>2. flight' \in [Keys -> FlightTypes \cup {None}]
    <3>1. key[c] \in Keys /\ flight[key[c]] \in FlightTypes
      BY <1>0, <1>6, Leads, TypeFacts DEF Exchange, Leading
    <3>2. [flight[key[c]] EXCEPT !.value = a] \in FlightTypes
      BY <3>1 DEF FlightTypes
    <3>3. flight' = [flight EXCEPT ![key[c]] = [flight[key[c]] EXCEPT !.value = a]]
      BY <1>6 DEF Exchange
    <3>4. flight \in [Keys -> FlightTypes \cup {None}]
      BY <1>0 DEF TypeOK, FlightTypes
    <3>. QED
      BY <3>1, <3>2, <3>3, <3>4
  <2>. QED
    BY <1>0, <1>6, <2>1, <2>2 DEF Exchange, TypeOK, FlightTypes
<1>8. ASSUME NEW c \in Lookups, Stamp(c) PROVE TypeOK'
  <2>1. at' \in [Lookups -> {"look", "join", "asking", "answered", "stamped", "stored", "waiting", "done"}]
        /\ stamp' \in [Lookups -> 0..MaxTime]
    BY <1>0, <1>8 DEF Stamp, TypeOK
  <2>. QED
    BY <1>0, <1>8, <2>1 DEF Stamp, TypeOK
<1>9. ASSUME NEW c \in Lookups, Store(c) PROVE TypeOK'
  <2>1. at' \in [Lookups -> {"look", "join", "asking", "answered", "stamped", "stored", "waiting", "done"}]
        /\ stamp' \in [Lookups -> 0..MaxTime] /\ raced' \subseteq Lookups
    BY <1>0, <1>9, Constants DEF Store, TypeOK
  <2>2. cache' \in [Keys -> Entries \cup {None}]
    BY <1>0, <1>9, TypeFacts, PutDomain DEF Store
  <2>. QED
    BY <1>0, <1>9, <2>1, <2>2 DEF Store, TypeOK, Entries
<1>7. CASE UNCHANGED vars
  BY <1>0, <1>7 DEF vars, TypeOK
<1>. QED
  BY <1>1, <1>2, <1>3, <1>4, <1>5, <1>6, <1>7, <1>8, <1>9 DEF Next

-----------------------------------------------------------------------------
(* The parts of the invariant.                                             *)

LEMMA ClockStep == ASSUME IInv, [Next]_vars PROVE ClockInv'
<1>0. ClockInv /\ clock \in Nat /\ \A c \in Lookups : now[c] \in Nat
  BY TypeFacts DEF IInv
<1>1. CASE Tick
  BY <1>0, <1>1 DEF Tick, ClockInv
<1>2. ASSUME NEW c \in Lookups, NEW k \in Keys, Start(c, k) PROVE ClockInv'
  BY <1>0, <1>2 DEF Start, ClockInv, IInv, TypeOK
<1>3. ASSUME NEW c \in Lookups, Look(c) \/ Join(c) \/ Stamp(c) \/ Store(c) \/ Land(c) PROVE ClockInv'
  BY <1>0, <1>3 DEF Look, Join, Stamp, Store, Land, ClockInv
<1>4. ASSUME NEW c \in Lookups, NEW a \in Outcomes, Exchange(c, a) PROVE ClockInv'
  BY <1>0, <1>4 DEF Exchange, ClockInv
<1>5. CASE UNCHANGED vars
  BY <1>0, <1>5 DEF vars, ClockInv
<1>. QED
  BY <1>1, <1>2, <1>3, <1>4, <1>5 DEF Next

LEMMA EntryStep == ASSUME IInv, [Next]_vars PROVE EntryInv'
<1>0. EntryInv /\ StampInv /\ TypeOK
  BY DEF IInv
<1>1. CASE Tick
  <2>1. clock' = clock + 1 /\ cache' = cache
    BY <1>1 DEF Tick
  <2>2. ASSUME NEW k \in Keys, cache[k] # None PROVE cache[k].stored <= clock + 1
    BY <1>0, <2>2, TypeFacts DEF EntryInv, Entries
  <2>. QED
    BY <1>0, <2>1, <2>2 DEF EntryInv
<1>2. ASSUME NEW c \in Lookups, Store(c) PROVE EntryInv'
  <2>. DEFINE a == flight[key[c]].value
  <2>1. clock' = clock /\ key[c] \in Keys /\ Put(key[c], a, stamp[c]) /\ stamp[c] <= clock
    BY <1>0, <1>2, TypeFacts DEF Store, StampInv
  <2>. HIDE DEF a
  <2>2. ASSUME NEW j \in Keys, cache'[j] # None PROVE cache'[j].stored <= clock
    <3>1. cache'[j] = Entry(a, stamp[c]) => cache'[j].stored = stamp[c]
      BY DEF Entry
    <3>. QED
      BY <1>0, <2>1, <2>2, <3>1, PutGives DEF EntryInv
  <2>. QED
    BY <2>1, <2>2 DEF EntryInv
<1>3. ASSUME NEW c \in Lookups,
             Look(c) \/ Join(c) \/ Stamp(c) \/ Land(c) \/ (\E k \in Keys : Start(c, k)) \/ \E a \in Outcomes : Exchange(c, a)
      PROVE  EntryInv'
  <2>1. UNCHANGED <<clock, cache>>
    BY <1>3 DEF Look, Join, Stamp, Land, Start, Exchange
  <2>. QED
    BY <1>0, <2>1 DEF EntryInv
<1>4. CASE UNCHANGED vars
  BY <1>0, <1>4 DEF vars, EntryInv
<1>. QED
  BY <1>1, <1>2, <1>3, <1>4 DEF Next

\* While a lookup is about to store an answer, no other stores one of its question.
LEMMA StampStep == ASSUME IInv, [Next]_vars PROVE StampInv'
<1>0. TypeOK /\ StampInv /\ EntryInv /\ OneQueryPerQuestion
  BY DEF IInv
<1>1. ASSUME NEW c \in Lookups, at'[c] = "stamped", at[c] = "stamped", key'[c] = key[c], stamp'[c] = stamp[c],
             clock' >= clock, clock' \in Nat, cache'[key[c]] = cache[key[c]] \/ cache'[key[c]] = None
      PROVE  stamp'[c] <= clock' /\ (cache'[key'[c]] # None => cache'[key'[c]].stored <= stamp'[c])
  BY <1>0, <1>1, TypeFacts DEF StampInv
<1>2. ASSUME NEW c \in Lookups, Stamp(c) PROVE StampInv'
  <2>1. /\ UNCHANGED <<clock, cache, key>> /\ stamp'[c] = clock /\ key[c] \in Keys
        /\ \A d \in Lookups \ {c} : at'[d] = at[d] /\ stamp'[d] = stamp[d]
    BY <1>0, <1>2, TypeFacts DEF Stamp, TypeOK
  <2>. QED
    BY <1>0, <2>1, TypeFacts DEF StampInv, EntryInv
<1>3. ASSUME NEW c \in Lookups, Store(c) PROVE StampInv'
  <2>. DEFINE a == flight[key[c]].value
  <2>1. /\ UNCHANGED <<clock, key>> /\ key[c] \in Keys /\ Put(key[c], a, stamp[c]) /\ at'[c] = "stored" /\ at[c] = "stamped"
        /\ \A d \in Lookups \ {c} : at'[d] = at[d] /\ stamp'[d] = stamp[d]
    BY <1>0, <1>3, TypeFacts DEF Store, TypeOK
  <2>. HIDE DEF a
  <2>2. ASSUME NEW d \in Lookups, at'[d] = "stamped"
        PROVE  stamp'[d] <= clock' /\ (cache'[key'[d]] # None => cache'[key'[d]].stored <= stamp'[d])
    <3>1. d # c /\ at[d] = "stamped" /\ key[d] \in Keys
      BY <1>0, <2>1, <2>2, TypeFacts
    <3>2. key[d] # key[c]
      <4>1. flight[key[c]].leader = c /\ flight[key[d]].leader = d
        BY <1>0, <2>1, <3>1, Leads DEF Leading
      <4>. QED
        BY <3>1, <4>1
    <3>3. cache'[key[d]] = cache[key[d]] \/ cache'[key[d]] = None
      BY <1>0, <2>1, <3>1, <3>2, PutGives
    <3>. QED
      BY <1>0, <1>1, <2>1, <2>2, <3>1, <3>3, TypeFacts
  <2>. QED
    BY <2>2 DEF StampInv
<1>4. ASSUME NEW c \in Lookups, NEW k \in Keys, Start(c, k) PROVE StampInv'
  <2>1. UNCHANGED <<clock, cache, stamp>> /\ at'[c] = "look" /\ \A d \in Lookups \ {c} : at'[d] = at[d] /\ key'[d] = key[d]
    BY <1>0, <1>4 DEF Start, TypeOK
  <2>. QED
    BY <1>0, <2>1 DEF StampInv
<1>5. ASSUME NEW c \in Lookups, Look(c) \/ Join(c) \/ Land(c) \/ \E a \in Outcomes : Exchange(c, a) PROVE StampInv'
  <2>1. UNCHANGED <<clock, cache, stamp, key>> /\ \A d \in Lookups : at'[d] = "stamped" => at[d] = "stamped"
    BY <1>0, <1>5 DEF Look, Join, Land, Exchange, TypeOK
  <2>. QED
    BY <1>0, <2>1 DEF StampInv
<1>6. CASE Tick
  BY <1>0, <1>6, TypeFacts DEF Tick, StampInv
<1>7. CASE UNCHANGED vars
  BY <1>0, <1>7 DEF vars, StampInv
<1>. QED
  BY <1>2, <1>3, <1>4, <1>5, <1>6, <1>7 DEF Next

LEMMA ServedStep == ASSUME IInv, [Next]_vars PROVE ServedInv'
<1>0. ServedInv /\ EntryInv /\ TypeOK
  BY DEF IInv
<1>1. ASSUME NEW c \in Lookups, NEW k \in Keys, Start(c, k) PROVE ServedInv'
  <2>1. /\ served' = [served EXCEPT ![c] = None] /\ now' = [now EXCEPT ![c] = clock]
        /\ served \in [Lookups -> ServedTypes \cup {None}] /\ now \in [Lookups -> 0..MaxTime]
    BY <1>0, <1>1 DEF Start, TypeOK, ServedTypes, Entries
  <2>2. served'[c] = None /\ \A d \in Lookups \ {c} : served'[d] = served[d] /\ now'[d] = now[d]
    BY <2>1
  <2>. QED
    BY <1>0, <2>2 DEF ServedInv
<1>2. ASSUME NEW c \in Lookups, Look(c) PROVE ServedInv'
  <2>. DEFINE e == cache[key[c]]
  <2>1. now' = now
    BY <1>2 DEF Look
  <2>2. CASE served' = served
    BY <1>0, <2>1, <2>2 DEF ServedInv
  <2>3. CASE Fresh(e, now[c]) /\ served' = [served EXCEPT ![c] = [entry |-> e, shown |-> Shown(e, now[c])]]
    <3>1. served'[c].entry = e /\ served'[c].shown = Shown(e, now[c])
      BY <1>0, <2>3 DEF TypeOK
    <3>2. \A d \in Lookups \ {c} : served'[d] = served[d]
      BY <1>0, <2>3 DEF TypeOK
    <3>3. e # None /\ key[c] \in Keys
      BY <1>0, <2>3, TypeFacts DEF Fresh
    <3>4. e.stored <= clock
      BY <1>0, <3>3 DEF EntryInv
    <3>5. e.stored <= MaxTime
      BY <1>0, <3>3, <3>4, TypeFacts, Constants DEF Entries
    <3>. QED
      BY <1>0, <2>1, <3>1, <3>2, <3>3, <3>4, <3>5 DEF ServedInv
  <2>. QED
    BY <1>0, <1>2, <2>2, <2>3, LookGives
<1>3. ASSUME NEW c \in Lookups, Join(c) \/ Stamp(c) \/ Store(c) \/ Land(c) \/ \E a \in Outcomes : Exchange(c, a) PROVE ServedInv'
  <2>1. UNCHANGED <<now, served>>
    BY <1>3 DEF Join, Stamp, Store, Land, Exchange
  <2>. QED
    BY <1>0, <2>1 DEF ServedInv
<1>4. CASE Tick \/ UNCHANGED vars
  BY <1>0, <1>4 DEF Tick, vars, ServedInv
<1>. QED
  BY <1>1, <1>2, <1>3, <1>4 DEF Next

\* Who asks question k.
Asking(k) == {c \in Lookups : key[c] = k /\ at[c] \in Leading}

OneAsks == \A k \in Keys : Asking(k) = IF flight[k] = None THEN {} ELSE {flight[k].leader}

WaitersFly == \A c \in Lookups : at[c] = "waiting" => flight[key[c]] # None

LEMMA OneQuery == ASSUME TypeOK PROVE OneQueryPerQuestion <=> OneAsks /\ WaitersFly
<1>1. \A c \in Lookups : key[c] \in Keys
  BY TypeFacts
<1>. QED
  BY <1>1 DEF OneQueryPerQuestion, OneAsks, WaitersFly, Asking

LEMMA FlightStep == ASSUME IInv, [Next]_vars PROVE OneAsks'
<1>0. TypeOK /\ \A k \in Keys : Asking(k) = IF flight[k] = None THEN {} ELSE {flight[k].leader}
  BY OneQuery DEF IInv, OneAsks
<1>q. ASSUME \A k \in Keys : Asking(k)' = IF flight'[k] = None THEN {} ELSE {flight'[k].leader}
      PROVE  OneAsks'
  BY <1>q DEF OneAsks
<1>1. ASSUME NEW c \in Lookups, NEW k \in Keys, Start(c, k) PROVE OneAsks'
  <2>1. flight' = flight /\ \A j \in Keys : Asking(j)' = Asking(j)
    BY <1>0, <1>1 DEF Start, Asking, Leading, TypeOK
  <2>. QED
    BY <1>0, <1>q, <2>1
<1>2. ASSUME NEW c \in Lookups, Look(c) PROVE OneAsks'
  <2>1. flight' = flight /\ \A j \in Keys : Asking(j)' = Asking(j)
    BY <1>0, <1>2, LookGives DEF Asking, Leading, TypeOK
  <2>. QED
    BY <1>0, <1>q, <2>1
<1>3. ASSUME NEW c \in Lookups, Join(c) PROVE OneAsks'
  <2>1. key' = key /\ key[c] \in Keys /\ at[c] = "join"
    BY <1>0, <1>3, TypeFacts DEF Join
  <2>2. CASE flight' = flight /\ at' = [at EXCEPT ![c] = "waiting"]
    <3>1. \A j \in Keys : Asking(j)' = Asking(j)
      BY <1>0, <2>1, <2>2 DEF Asking, Leading, TypeOK
    <3>. QED
      BY <1>0, <1>q, <2>2, <3>1
  <2>3. CASE /\ flight[key[c]] = None /\ at' = [at EXCEPT ![c] = "asking"]
             /\ flight' = [flight EXCEPT ![key[c]] = [leader |-> c, value |-> None]]
    <3>1. Asking(key[c])' = {c}
      <4>1. Asking(key[c]) = {}
        BY <1>0, <2>1, <2>3
      <4>. QED
        BY <1>0, <2>1, <2>3, <4>1 DEF Asking, Leading, TypeOK
    <3>2. \A j \in Keys \ {key[c]} : Asking(j)' = Asking(j) /\ flight'[j] = flight[j]
      BY <1>0, <2>1, <2>3 DEF Asking, Leading, TypeOK
    <3>3. flight'[key[c]] # None /\ flight'[key[c]].leader = c
      BY <1>0, <2>1, <2>3 DEF TypeOK, None
    <3>4. ASSUME NEW j \in Keys PROVE Asking(j)' = IF flight'[j] = None THEN {} ELSE {flight'[j].leader}
      <4>1. CASE j = key[c]
        BY <2>1, <3>1, <3>3, <4>1 DEF Asking
      <4>2. CASE j # key[c]
        <5>1. Asking(j)' = Asking(j) /\ flight'[j] = flight[j]
          BY <3>2, <4>2
        <5>. QED
          BY <1>0, <5>1
      <4>. QED
        BY <4>1, <4>2
    <3>. QED
      BY <1>q, <3>4
  <2>. QED
    BY <1>3, <2>2, <2>3 DEF Join
<1>4. ASSUME NEW c \in Lookups, NEW a \in Outcomes, Exchange(c, a) PROVE OneAsks'
  <2>1. key' = key /\ key[c] \in Keys /\ at[c] = "asking" /\ at'[c] \in {"answered", "stored"}
        /\ \A d \in Lookups \ {c} : at'[d] = at[d]
    BY <1>0, <1>4, TypeFacts DEF Exchange, TypeOK
  <2>2. \A j \in Keys : Asking(j)' = Asking(j)
    BY <1>0, <2>1 DEF Asking, Leading, TypeOK
  <2>3. flight[key[c]] \in FlightTypes /\ flight[key[c]] # None
    BY <1>0, <2>1, Leads, TypeFacts DEF IInv, Leading
  <2>4. flight'[key[c]] = [flight[key[c]] EXCEPT !.value = a]
    BY <1>0, <1>4, <2>1 DEF Exchange, TypeOK
  <2>5. flight'[key[c]] # None /\ flight'[key[c]].leader = flight[key[c]].leader
    BY <2>3, <2>4 DEF FlightTypes, None
  <2>6. \A j \in Keys \ {key[c]} : flight'[j] = flight[j]
    BY <1>0, <1>4, <2>1 DEF Exchange, TypeOK
  <2>. QED
    BY <1>0, <1>q, <2>2, <2>3, <2>5, <2>6
<1>5. ASSUME NEW c \in Lookups, Land(c) PROVE OneAsks'
  <2>1. key' = key /\ key[c] \in Keys /\ at[c] = "stored"
    BY <1>0, <1>5, TypeFacts DEF Land
  <2>2. Asking(key[c]) = {c}
    BY <1>0, <2>1, Leads DEF IInv, Leading
  <2>3. \A d \in Lookups : at'[d] = IF d \in Waiters(c) \cup {c} THEN "done" ELSE at[d]
    BY <1>5 DEF Land
  <2>4. Asking(key[c])' = {}
    BY <2>1, <2>2, <2>3 DEF Asking, Leading
  <2>5. \A j \in Keys \ {key[c]} : Asking(j)' = Asking(j)
    BY <2>1, <2>3 DEF Asking, Leading, Waiters
  <2>6. flight'[key[c]] = None /\ \A j \in Keys \ {key[c]} : flight'[j] = flight[j]
    BY <1>0, <1>5, <2>1 DEF Land, TypeOK
  <2>7. ASSUME NEW j \in Keys PROVE Asking(j)' = IF flight'[j] = None THEN {} ELSE {flight'[j].leader}
    <3>1. CASE j = key[c]
      BY <2>1, <2>4, <2>6, <3>1 DEF Asking
    <3>2. CASE j # key[c]
      <4>1. Asking(j)' = Asking(j) /\ flight'[j] = flight[j]
        BY <2>5, <2>6, <3>2
      <4>. QED
        BY <1>0, <4>1
    <3>. QED
      BY <3>1, <3>2
  <2>. QED
    BY <1>q, <2>7
<1>7. ASSUME NEW c \in Lookups, Stamp(c) \/ Store(c) PROVE OneAsks'
  <2>1. key' = key /\ flight' = flight /\ at[c] \in {"answered", "stamped"} /\ at'[c] \in {"stamped", "stored"}
        /\ \A d \in Lookups \ {c} : at'[d] = at[d]
    BY <1>0, <1>7 DEF Stamp, Store, TypeOK
  <2>2. \A j \in Keys : Asking(j)' = Asking(j)
    BY <2>1 DEF Asking, Leading
  <2>. QED
    BY <1>0, <1>q, <2>1, <2>2
<1>6. CASE Tick \/ UNCHANGED vars
  <2>1. UNCHANGED <<at, key, flight>>
    BY <1>6 DEF Tick, vars
  <2>. QED
    BY <1>0, <2>1 DEF OneAsks, Asking
<1>. QED
  BY <1>1, <1>2, <1>3, <1>4, <1>5, <1>6, <1>7 DEF Next

\* A flight is over only with its waiters.
LEMMA WaitStep == ASSUME IInv, [Next]_vars PROVE WaitersFly'
<1>0. TypeOK /\ WaitersFly
  BY OneQuery DEF IInv
<1>1. ASSUME NEW c \in Lookups, NEW k \in Keys, Start(c, k) PROVE WaitersFly'
  <2>1. flight' = flight /\ at'[c] = "look"
        /\ \A d \in Lookups \ {c} : at'[d] = at[d] /\ key'[d] = key[d]
    BY <1>0, <1>1 DEF Start, TypeOK
  <2>. QED
    BY <1>0, <2>1 DEF WaitersFly
<1>2. ASSUME NEW c \in Lookups, Look(c) PROVE WaitersFly'
  <2>1. flight' = flight /\ key' = key /\ \A d \in Lookups : at'[d] = "waiting" => at[d] = "waiting"
    BY <1>0, <1>2, LookGives DEF TypeOK
  <2>. QED
    BY <1>0, <2>1 DEF WaitersFly
<1>3. ASSUME NEW c \in Lookups, Join(c) PROVE WaitersFly'
  <2>1. key' = key /\ \A d \in Lookups : key[d] \in Keys
    BY <1>0, <1>3, TypeFacts DEF Join
  <2>2. CASE flight[key[c]] # None /\ flight' = flight /\ at' = [at EXCEPT ![c] = "waiting"]
    BY <1>0, <2>1, <2>2 DEF WaitersFly, TypeOK
  <2>3. CASE /\ at' = [at EXCEPT ![c] = "asking"]
             /\ flight' = [flight EXCEPT ![key[c]] = [leader |-> c, value |-> None]]
    <3>1. [leader |-> c, value |-> None] # None
      BY DEF None
    <3>2. \A k \in Keys : flight[k] # None => flight'[k] # None
      BY <1>0, <2>1, <2>3, <3>1 DEF TypeOK
    <3>3. \A d \in Lookups : at'[d] = "waiting" => at[d] = "waiting"
      BY <1>0, <2>3 DEF TypeOK
    <3>. QED
      BY <1>0, <2>1, <3>2, <3>3 DEF WaitersFly
  <2>. QED
    BY <1>3, <2>2, <2>3 DEF Join
<1>4. ASSUME NEW c \in Lookups, NEW a \in Outcomes, Exchange(c, a) PROVE WaitersFly'
  <2>1. key' = key /\ key[c] \in Keys /\ at[c] = "asking"
        /\ \A d \in Lookups : key[d] \in Keys /\ (at'[d] = "waiting" => at[d] = "waiting")
    BY <1>0, <1>4, TypeFacts DEF Exchange, TypeOK
  <2>2. flight[key[c]] \in FlightTypes
    BY <1>0, <2>1, Leads, TypeFacts DEF IInv, Leading
  <2>3. flight'[key[c]] = [flight[key[c]] EXCEPT !.value = a]
    BY <1>0, <1>4, <2>1 DEF Exchange, TypeOK
  <2>4. flight'[key[c]] # None
    BY <2>2, <2>3 DEF FlightTypes, None
  <2>5. \A k \in Keys \ {key[c]} : flight'[k] = flight[k]
    BY <1>0, <1>4, <2>1 DEF Exchange, TypeOK
  <2>. QED
    BY <1>0, <2>1, <2>4, <2>5 DEF WaitersFly
<1>5. ASSUME NEW c \in Lookups, Land(c) PROVE WaitersFly'
  <2>1. key' = key /\ key[c] \in Keys /\ \A d \in Lookups : key[d] \in Keys
    BY <1>0, <1>5, TypeFacts DEF Land
  <2>2. \A d \in Lookups : at'[d] = "waiting" => at[d] = "waiting" /\ key[d] # key[c]
    BY <1>5 DEF Land, Waiters
  <2>3. \A k \in Keys \ {key[c]} : flight'[k] = flight[k]
    BY <1>0, <1>5, <2>1 DEF Land, TypeOK
  <2>. QED
    BY <1>0, <2>1, <2>2, <2>3 DEF WaitersFly
<1>7. ASSUME NEW c \in Lookups, Stamp(c) \/ Store(c) PROVE WaitersFly'
  <2>1. key' = key /\ flight' = flight /\ \A d \in Lookups : at'[d] = "waiting" => at[d] = "waiting"
    BY <1>0, <1>7 DEF Stamp, Store, TypeOK
  <2>. QED
    BY <1>0, <2>1 DEF WaitersFly
<1>6. CASE Tick \/ UNCHANGED vars
  BY <1>0, <1>6 DEF Tick, vars, WaitersFly
<1>. QED
  BY <1>1, <1>2, <1>3, <1>4, <1>5, <1>6, <1>7 DEF Next

\* A lookup past its look finds an entry fresh to it only where one was stored
\* before its turn at the group: from then on the flight of its question is its own.
LEMMA NeedStep == ASSUME IInv, [Next]_vars PROVE NoNeedlessQuery'
<1>0. TypeOK /\ OneQueryPerQuestion /\ NoNeedlessQuery
  BY DEF IInv
<1>. DEFINE past == {"join", "asking", "answered", "stamped"}
<1>1. ASSUME NEW c \in Lookups, NEW k \in Keys, Start(c, k) PROVE NoNeedlessQuery'
  <2>1. cache' = cache /\ raced' = raced \ {c} /\ at'[c] = "look"
        /\ \A d \in Lookups \ {c} : at'[d] = at[d] /\ key'[d] = key[d] /\ now'[d] = now[d]
    BY <1>0, <1>1 DEF Start, TypeOK
  <2>. QED
    BY <1>0, <2>1 DEF NoNeedlessQuery
<1>2. ASSUME NEW c \in Lookups, Look(c) PROVE NoNeedlessQuery'
  <2>1. UNCHANGED <<cache, key, now, raced>> /\ (at'[c] \in past => ~Fresh(cache[key[c]], now[c]))
        /\ \A d \in Lookups \ {c} : at'[d] = at[d]
    BY <1>0, <1>2, LookGives DEF TypeOK
  <2>. QED
    BY <1>0, <2>1 DEF NoNeedlessQuery
<1>3. ASSUME NEW c \in Lookups, Join(c) \/ Stamp(c) \/ Land(c) \/ \E a \in Outcomes : Exchange(c, a) PROVE NoNeedlessQuery'
  <2>1. UNCHANGED <<cache, key, now, raced>> /\ \A d \in Lookups : at'[d] \in past => at[d] \in past
    BY <1>0, <1>3 DEF Join, Stamp, Land, Exchange, TypeOK
  <2>. QED
    BY <1>0, <2>1 DEF NoNeedlessQuery
<1>4. ASSUME NEW c \in Lookups, Store(c) PROVE NoNeedlessQuery'
  <2>. DEFINE a == flight[key[c]].value
  <2>1. /\ UNCHANGED <<now, key>> /\ key[c] \in Keys /\ Put(key[c], a, stamp[c]) /\ at[c] = "stamped" /\ at'[c] = "stored"
        /\ raced' = raced \cup {d \in Lookups : at[d] = "join" /\ key[d] = key[c]}
        /\ \A d \in Lookups \ {c} : at'[d] = at[d]
    BY <1>0, <1>4, TypeFacts DEF Store, TypeOK
  <2>. HIDE DEF a
  <2>2. ASSUME NEW d \in Lookups, at'[d] \in past, Fresh(cache'[key[d]], now[d]) PROVE d \in raced'
    <3>1. d # c /\ at[d] \in past /\ key[d] \in Keys
      BY <1>0, <2>1, <2>2, TypeFacts
    <3>2. CASE key[d] = key[c]
      <4>1. at[d] = "join"
        <5>1. ASSUME at[d] # "join" PROVE FALSE
          <6>1. at[d] \in Leading /\ at[c] \in Leading
            BY <2>1, <3>1, <5>1 DEF Leading
          <6>2. flight[key[c]].leader = c /\ flight[key[d]].leader = d
            BY <1>0, <6>1, Leads
          <6>. QED
            BY <3>1, <3>2, <6>2
        <5>. QED
          BY <5>1
      <4>. QED
        BY <2>1, <3>2, <4>1
    <3>3. CASE key[d] # key[c]
      <4>1. cache'[key[d]] = cache[key[d]] \/ cache'[key[d]] = None
        BY <1>0, <2>1, <3>1, <3>3, PutGives
      <4>2. Fresh(cache[key[d]], now[d])
        BY <2>2, <4>1 DEF Fresh
      <4>. QED
        BY <1>0, <2>1, <3>1, <4>2 DEF NoNeedlessQuery
    <3>. QED
      BY <3>2, <3>3
  <2>. QED
    BY <2>1, <2>2 DEF NoNeedlessQuery
<1>5. CASE Tick \/ UNCHANGED vars
  <2>1. UNCHANGED <<cache, at, key, now, raced>>
    BY <1>5 DEF Tick, vars
  <2>. QED
    BY <1>0, <2>1 DEF NoNeedlessQuery
<1>. QED
  BY <1>1, <1>2, <1>3, <1>4, <1>5 DEF Next

LEMMA Initially == Init => IInv
<1>. SUFFICES ASSUME Init PROVE IInv
  OBVIOUS
<1>1. TypeOK
  BY Constants DEF Init, TypeOK
<1>2. ClockInv /\ EntryInv /\ ServedInv /\ StampInv
  BY DEF Init, ClockInv, EntryInv, ServedInv, StampInv
<1>3. OneQueryPerQuestion /\ NoNeedlessQuery
  BY DEF Init, OneQueryPerQuestion, Leading, NoNeedlessQuery
<1>. QED
  BY <1>1, <1>2, <1>3 DEF IInv

LEMMA IInvAlways == Spec => []IInv
<1>1. IInv /\ [Next]_vars => IInv'
  <2>1. TypeOK /\ TypeOK' /\ OneAsks' /\ WaitersFly' => OneQueryPerQuestion'
    BY OneQuery, PTL
  <2>. QED
    BY <2>1, TypeStep, ClockStep, EntryStep, StampStep, ServedStep, FlightStep, WaitStep, NeedStep DEF IInv
<1>. QED
  BY <1>1, Initially, PTL DEF Spec

-----------------------------------------------------------------------------
\* Identical questions cost one query, and no lookup waits on a flight that is
\* over (dns.go:249).
THEOREM AlwaysOneQuery == Spec => []OneQueryPerQuestion
<1>1. IInv => OneQueryPerQuestion
  BY DEF IInv
<1>. QED
  BY <1>1, IInvAlways, PTL

\* A newer answer is never replaced by an older one: the time an answer is
\* stored under is read outside the lock (dns.go:531), yet no other lookup
\* stores one of the question in between.
THEOREM NewestAlwaysStays == Spec => NewestStays
<1>1. ASSUME IInv, [Next]_vars, NEW k \in Keys, cache[k] # None, cache'[k] # None PROVE cache'[k].stored >= cache[k].stored
  <2>0. TypeOK /\ StampInv /\ cache[k].stored \in Nat
    BY <1>1, TypeFacts DEF IInv, Entries
  <2>1. ASSUME NEW c \in Lookups, Store(c) PROVE cache'[k].stored >= cache[k].stored
    <3>. DEFINE a == flight[key[c]].value
    <3>1. /\ key[c] \in Keys /\ Put(key[c], a, stamp[c]) /\ stamp[c] \in Nat
          /\ cache[key[c]] # None => cache[key[c]].stored <= stamp[c]
      BY <2>0, <2>1, TypeFacts DEF Store, StampInv
    <3>. HIDE DEF a
    <3>2. cache'[k] = cache[k] \/ (k = key[c] /\ cache'[k] = Entry(a, stamp[c]))
      BY <1>1, <2>0, <3>1, PutGives
    <3>3. Entry(a, stamp[c]).stored = stamp[c]
      BY DEF Entry
    <3>. QED
      BY <1>1, <2>0, <3>1, <3>2, <3>3
  <2>2. ASSUME cache' = cache PROVE cache'[k].stored >= cache[k].stored
    BY <2>0, <2>2
  <2>. QED
    BY <1>1, <2>1, <2>2 DEF Next, Tick, Start, Look, Join, Exchange, Stamp, Land, vars
<1>2. IInv /\ [Next]_vars => [\A k \in Keys : cache[k] # None /\ cache'[k] # None => cache'[k].stored >= cache[k].stored]_vars
  BY <1>1
<1>. QED
  BY <1>2, IInvAlways, PTL DEF Spec, NewestStays

\* A cached record never shows a TTL that, counted from the time it is stored
\* under, would outlive the zone's own, also where it was stored after the
\* reader read the clock and the age wraps.
THEOREM TtlAlwaysCountsDown == Spec => []TtlCountsDown
<1>1. IInv => TtlCountsDown
  <2>. SUFFICES ASSUME IInv, NEW c \in Lookups, served[c] # None, served[c].entry.answer \in Records
       PROVE  LET e == served[c].entry IN
              /\ served[c].shown <= e.answer.ttl
              /\ served[c].shown > 0 => now[c] + served[c].shown <= e.stored + e.answer.ttl
    BY DEF TtlCountsDown
  <2>. DEFINE e == served[c].entry
  <2>1. e \in Entries /\ now[c] \in 0..MaxTime
    BY TypeFacts DEF IInv, ServedTypes
  <2>2. e.stored \in Nat /\ e.answer.ttl \in Nat /\ e.answer # Negative
    BY <2>1, Constants DEF Entries, Records, Negative
  <2>3. served[c].shown = TtlLeft(e.answer.ttl, now[c] - e.stored)
    BY <2>2 DEF IInv, ServedInv, Shown
  <2>4. e.stored <= MaxTime
    BY <2>2, TypeFacts, Constants DEF IInv, ServedInv
  <2>. QED
    BY <2>1, <2>2, <2>3, <2>4, TtlLeftCounts
<1>. QED
  BY <1>1, IInvAlways, PTL

\* A question whose answer the cache holds is not asked again, but by a lookup
\* that looked before the answer was stored and had its turn at the group after
\* (dns.go:523).
THEOREM NeverNeedlessQuery == Spec => []NoNeedlessQuery
<1>1. IInv => NoNeedlessQuery
  BY DEF IInv
<1>. QED
  BY <1>1, IInvAlways, PTL
=============================================================================
