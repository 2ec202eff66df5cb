-------------------------- MODULE BlockListProofs --------------------------
(***************************************************************************)
(* For any feeds, netblocks and intervals: types, the probe list, and the  *)
(* age of a corpus.  The last rests on where a feed's timers stand when    *)
(* its goroutine sleeps, checks and writes (TimerInv), and on what that    *)
(* says of the documents it wrote (AgeInv).                                *)
(***************************************************************************)
EXTENDS BlockList, TLAPS

FeedTypes ==
    [pc : {"off", "check", "fetch", "write", "sleep"},
     began : Times \cup {Never}, next : Nat \cup {Never},
     batch : SUBSET Keys, todo : SUBSET Keys]

Docs == [updated : Times, expires : 0..(MaxClock + ProbeTtl) \cup {Never}] \cup {None}

LEMMA TypeInit == Init => TypeOK
BY ListAssumption DEF Init, TypeOK, Times, Booting, None, Never, Sources, Keys

\* Falling asleep keeps the goroutines' types.
LEMMA TypeSleep ==
    ASSUME TypeOK, NEW f \in Feeds, Sleep(f)
    PROVE  sync' \in [Feeds -> FeedTypes]
<1>. /\ sync \in [Feeds -> FeedTypes] /\ clock \in Nat
     /\ sync[f].began \in Times \cup {Never} /\ sync[f].next \in Nat \cup {Never}
  BY ListAssumption DEF TypeOK, FeedTypes, Times
<1>1. clock + Interval \in Nat
  BY ListAssumption
<1>2. ASSUME NEW n \in Nat \cup {Never},
             sync' = [sync EXCEPT ![f].pc = "sleep", ![f].batch = {}, ![f].todo = {}, ![f].next = n]
      PROVE  sync' \in [Feeds -> FeedTypes]
  <2>1. [sync[f] EXCEPT !.pc = "sleep", !.batch = {}, !.todo = {}, !.next = n] \in FeedTypes
    BY DEF FeedTypes
  <2>2. sync' = [sync EXCEPT ![f] = [sync[f] EXCEPT !.pc = "sleep", !.batch = {}, !.todo = {}, !.next = n]]
    BY <1>2
  <2>. QED
    BY <2>1, <2>2
<1>3. CASE sync[f].next = Never
  BY <1>1, <1>2, <1>3 DEF Sleep
<1>4. CASE sync[f].next # Never
  BY <1>2, <1>4 DEF Sleep
<1>. QED
  BY <1>3, <1>4

\* So does a write of any part of a feed.
LEMMA TypeTouch ==
    ASSUME TypeOK, NEW f \in Feeds, NEW K, Touch(f, K)
    PROVE  doc' \in [Sources -> [Keys -> Docs]]
<1>. /\ doc \in [Sources -> [Keys -> Docs]] /\ clock \in Times /\ f \in Sources
     /\ \A k \in Keys : doc[f][k] \in Docs
  BY DEF TypeOK, Docs, Sources
<1>1. \A k \in Keys : doc[f][k].expires \in 0..(MaxClock + ProbeTtl) \cup {Never}
  BY DEF Docs, None
<1>. QED
  BY <1>1 DEF Touch, Docs

LEMMA TypeFail ==
    ASSUME TypeOK, NEW f \in Feeds, Fail(f)
    PROVE  /\ sync' \in [Feeds -> FeedTypes]
           /\ since' \in [Feeds -> {"boot", "complete", "failure"}]
           /\ misses' \in [Feeds -> 0..2]
BY TypeSleep DEF Fail, TypeOK

LEMMA TypeSync ==
    ASSUME TypeOK, NEW f \in Feeds, Sync(f)
    PROVE  TypeOK'
<1>. USE DEF At
<1>t. /\ sync \in [Feeds -> FeedTypes] /\ clock \in Times /\ clock \in Nat
      /\ sync[f] \in FeedTypes /\ feed[f] \subseteq Keys /\ \A S : sync[f].todo \ S \in SUBSET Keys
  BY ListAssumption DEF TypeOK, FeedTypes, Times
<1>1. CASE Wake(f)
  BY <1>1, <1>t, ListAssumption DEF Wake, TypeOK, history, FeedTypes, Never
<1>2. CASE Skip(f)
  BY <1>2, TypeSleep DEF Skip, TypeOK, history, FeedTypes
<1>3. CASE Proceed(f)
  BY <1>3, <1>t DEF Proceed, TypeOK, history, FeedTypes
<1>4. CASE Fetch(f)
  BY <1>4, <1>t DEF Fetch, TypeOK, history, FeedTypes
<1>5. CASE FetchFails(f)
  BY <1>5, TypeFail DEF FetchFails, Fail, TypeOK, FeedTypes
<1>6. CASE WriteChunk(f)
  <2>1. PICK K \in Chunks(f) : Touch(f, K) /\ sync' = [sync EXCEPT ![f].todo = @ \ K]
    BY <1>6 DEF WriteChunk
  <2>2. doc' \in [Sources -> [Keys -> Docs]]
    BY <2>1, TypeTouch
  <2>3. [sync[f] EXCEPT !.todo = @ \ K] \in FeedTypes
    BY <1>t DEF FeedTypes
  <2>4. sync' \in [Feeds -> FeedTypes]
    BY <2>1, <2>3, <1>t
  <2>. QED
    BY <1>6, <2>2, <2>4 DEF WriteChunk, TypeOK, history, FeedTypes, Docs
<1>7. CASE WriteFails(f)
  <2>1. PICK S : Touch(f, S)
    BY <1>7 DEF WriteFails
  <2>2. doc' \in [Sources -> [Keys -> Docs]]
    BY <2>1, TypeTouch
  <2>. QED
    BY <1>7, <2>2, TypeFail DEF WriteFails, Fail, TypeOK, FeedTypes, Docs
<1>8. CASE Complete(f)
  <2>1. sync' \in [Feeds -> FeedTypes]
    BY <1>8, TypeSleep DEF Complete
  <2>2. steady' \in [Feeds -> SUBSET Keys]
    BY <1>8, <1>t DEF Complete, TypeOK
  <2>3. /\ since' \in [Feeds -> {"boot", "complete", "failure"}]
        /\ done' \in [Feeds -> Times \cup {Never}]
        /\ misses' \in [Feeds -> 0..2]
    BY <1>8, <1>t DEF Complete, TypeOK
  <2>. QED
    BY <1>8, <2>1, <2>2, <2>3 DEF Complete, TypeOK, FeedTypes
<1>. QED
  BY <1>1, <1>2, <1>3, <1>4, <1>5, <1>6, <1>7, <1>8 DEF Sync

LEMMA TypeStep == TypeOK /\ [Next]_vars => TypeOK'
<1>. SUFFICES ASSUME TypeOK, [Next]_vars PROVE TypeOK'
  OBVIOUS
<1>1. CASE Tick
  BY <1>1, ListAssumption DEF Tick, TypeOK, Times
<1>2. CASE Stop
  BY <1>2 DEF Stop, TypeOK, Off
<1>3. CASE Boot
  BY <1>3 DEF Boot, TypeOK, Booting
<1>4. ASSUME NEW f \in Feeds, Sync(f) PROVE TypeOK'
  BY <1>4, TypeSync
<1>5. ASSUME NEW f \in Feeds, NEW L \in SUBSET Names[f], Publish(f, L) PROVE TypeOK'
  <2>1. L \subseteq Keys
    BY ListAssumption
  <2>. QED
    BY <1>5, <2>1 DEF Publish, TypeOK
<1>6. ASSUME NEW a \in Addresses, FlagProbe(a) PROVE TypeOK'
  <2>1. clock \in Nat /\ clock + ProbeTtl \in 0..(MaxClock + ProbeTtl) /\ a \in Keys /\ Probe \in Sources
    BY ListAssumption DEF TypeOK, Times, Keys, Sources
  <2>. QED
    BY <1>6, <2>1 DEF FlagProbe, TypeOK
<1>7. ASSUME NEW s \in Sources, NEW k \in Keys, Expire(s, k) PROVE TypeOK'
  BY <1>7 DEF Expire, TypeOK, history
<1>8. CASE UNCHANGED vars
  BY <1>8 DEF vars, history, TypeOK
<1>. QED
  BY <1>1, <1>2, <1>3, <1>4, <1>5, <1>6, <1>7, <1>8 DEF Next

\* The corpus, its goroutines and their history have their types in every
\* reachable state.
THEOREM ListTypeCorrect == Spec => []TypeOK
<1>. QED
  BY TypeInit, TypeStep, PTL DEF Spec

-----------------------------------------------------------------------------
(* The probe list.                                                         *)

\* The document of an address that probed within 30 days carries the date of
\* its latest probe; an older one, if it is still there, an old date.
ProbeInv == \A a \in Addresses :
    /\ probed[a] # Never /\ clock < probed[a] + ProbeTtl =>
          doc[Probe][a] = [updated |-> probed[a], expires |-> probed[a] + ProbeTtl]
    /\ doc[Probe][a] # None => probed[a] # Never /\ doc[Probe][a].expires = probed[a] + ProbeTtl
    /\ probed[a] # Never => probed[a] <= clock

LEMMA ProbeInit == Init => ProbeInv
BY ListAssumption DEF Init, ProbeInv, Keys, Sources

\* Only a probe, the expiry and the clock matter to it: a sync writes the
\* documents of its own feed.
LEMMA ProbeSync ==
    ASSUME TypeOK, NEW f \in Feeds, Sync(f)
    PROVE  /\ doc'[Probe] = doc[Probe]
           /\ UNCHANGED <<clock, probed>>
<1>1. \A K : Touch(f, K) => doc'[Probe] = doc[Probe]
  BY ListAssumption DEF Touch, TypeOK, Sources
<1>. QED
  BY <1>1 DEF Sync, Wake, Skip, Proceed, Fetch, FetchFails, WriteChunk, WriteFails, Complete, Fail, history

LEMMA ProbeStep == TypeOK /\ ProbeInv /\ [Next]_vars => ProbeInv'
<1>. SUFFICES ASSUME TypeOK, ProbeInv, [Next]_vars PROVE ProbeInv'
  OBVIOUS
<1>t. /\ clock \in Nat /\ ProbeTtl \in Nat /\ Ttl \in Nat /\ ProbeTtl <= Ttl
      /\ \A a \in Addresses : a \in Keys /\ probed[a] \in Nat \cup {Never}
      /\ Probe \in Sources
  BY ListAssumption DEF TypeOK, Times, Keys, Sources
<1>1. CASE Tick
  BY <1>1, <1>t DEF Tick, ProbeInv, Never
<1>2. ASSUME UNCHANGED <<doc, clock, probed>> PROVE ProbeInv'
  BY <1>2 DEF ProbeInv
<1>3. CASE Stop \/ Boot
  BY <1>2, <1>3 DEF Stop, Boot
<1>4. ASSUME NEW f \in Feeds, Sync(f) PROVE ProbeInv'
  BY <1>4, ProbeSync DEF ProbeInv
<1>5. ASSUME NEW f \in Feeds, NEW L \in SUBSET Names[f], Publish(f, L) PROVE ProbeInv'
  BY <1>2, <1>5 DEF Publish
<1>6. ASSUME NEW a \in Addresses, FlagProbe(a) PROVE ProbeInv'
  <2>1. /\ doc'[Probe][a] = [updated |-> clock, expires |-> clock + ProbeTtl]
        /\ probed'[a] = clock /\ clock' = clock
        /\ \A b \in Addresses : b # a => doc'[Probe][b] = doc[Probe][b] /\ probed'[b] = probed[b]
    BY <1>6, <1>t DEF FlagProbe, TypeOK
  <2>2. clock # Never
    BY <1>t DEF Never
  <2>. QED
    BY <2>1, <2>2, <1>t DEF ProbeInv
<1>7. ASSUME NEW s \in Sources, NEW k \in Keys, Expire(s, k) PROVE ProbeInv'
  <2>1. \A a \in Addresses :
           doc'[Probe][a] = doc[Probe][a] \/ (s = Probe /\ k = a /\ doc'[Probe][a] = None)
    BY <1>7, <1>t DEF Expire, TypeOK
  <2>2. ASSUME NEW a \in Addresses, s = Probe, k = a, probed[a] # Never,
               clock < probed[a] + ProbeTtl
        PROVE  FALSE
    <3>. doc[Probe][a] = [updated |-> probed[a], expires |-> probed[a] + ProbeTtl]
      BY <2>2 DEF ProbeInv
    <3>1. doc[Probe][a].updated = probed[a] /\ doc[Probe][a].expires = probed[a] + ProbeTtl
      OBVIOUS
    <3>2. probed[a] \in Nat /\ probed[a] <= clock
      BY <1>t, <2>2 DEF ProbeInv
    <3>3. doc[Probe][a].updated + Ttl <= clock \/ doc[Probe][a].expires <= clock
      BY <1>7, <2>2 DEF Expire
    <3>. QED
      BY <1>t, <2>2, <3>1, <3>2, <3>3
  <2>3. clock' = clock /\ probed' = probed
    BY <1>7 DEF Expire, history
  <2>. QED
    BY <2>1, <2>2, <2>3 DEF ProbeInv
<1>8. CASE UNCHANGED vars
  BY <1>2, <1>8 DEF vars, history
<1>. QED
  BY <1>1, <1>3, <1>4, <1>5, <1>6, <1>7, <1>8 DEF Next

LEMMA ProbesFollow == TypeOK /\ ProbeInv => ProbesListedThirtyDays
<1>. SUFFICES ASSUME TypeOK, ProbeInv PROVE ProbesListedThirtyDays
  OBVIOUS
<1>1. ASSUME NEW a \in Addresses
      PROVE  /\ doc[Probe][a].expires > clock <=> probed[a] # Never /\ clock < probed[a] + ProbeTtl
             /\ probed[a] # Never /\ clock < probed[a] + ProbeTtl => Probe \in Check(a)
  <2>1. clock \in Nat /\ ProbeTtl \in Nat /\ probed[a] \in Nat \cup {Never} /\ Probe \in Sources
    BY ListAssumption DEF TypeOK, Times, Sources
  <2>2. None.expires = Never /\ None.updated = Never
    BY DEF None
  <2>3. CASE probed[a] # Never /\ clock < probed[a] + ProbeTtl
    <3>. doc[Probe][a] = [updated |-> probed[a], expires |-> probed[a] + ProbeTtl]
      BY <2>3 DEF ProbeInv
    <3>1. doc[Probe][a].updated = probed[a] /\ doc[Probe][a].expires = probed[a] + ProbeTtl
      OBVIOUS
    <3>2. doc[Probe][a] # None
      BY <2>2, <2>3, <3>1
    <3>3. Probe \in Check(a)
      BY <2>1, <3>2 DEF Check
    <3>4. probed[a] + ProbeTtl > clock
      BY <2>1, <2>3
    <3>. QED
      BY <2>3, <3>1, <3>3, <3>4
  <2>4. CASE ~(probed[a] # Never /\ clock < probed[a] + ProbeTtl)
    <3>1. CASE doc[Probe][a] = None
      <4>1. ~(Never > clock)
        BY <2>1 DEF Never
      <4>. QED
        BY <2>2, <2>4, <3>1, <4>1
    <3>2. CASE doc[Probe][a] # None
      <4>1. probed[a] # Never /\ doc[Probe][a].expires = probed[a] + ProbeTtl
        BY <3>2 DEF ProbeInv
      <4>. QED
        BY <2>1, <2>4, <4>1
    <3>. QED
      BY <3>1, <3>2
  <2>. QED
    BY <2>3, <2>4
<1>. QED
  BY <1>1 DEF ProbesListedThirtyDays, ProbeIPs

\* For any lifetimes with probeTTL within blocklistTTL, the probe list holds
\* exactly the addresses whose latest probe is within probeTTL, whatever the
\* feeds, the expiry and restarts do.
THEOREM ProbesAlwaysListed == Spec => []ProbesListedThirtyDays
<1>1. Init => TypeOK /\ ProbeInv
  BY TypeInit, ProbeInit
<1>2. TypeOK /\ ProbeInv /\ [Next]_vars => (TypeOK /\ ProbeInv)'
  BY TypeStep, ProbeStep
<1>. QED
  BY <1>1, <1>2, ProbesFollow, PTL DEF Spec
-----------------------------------------------------------------------------
(* The age of a corpus.                                                    *)

Running(f) == sync[f].pc \in {"check", "fetch", "write"}

\* A sleeping goroutine's tick is ahead; a running one began within the hour,
\* and its next tick is an interval after it began.
Timer(f) ==
    /\ At(f, "sleep") => sync[f].next # Never /\ clock <= sync[f].next
    /\ Running(f) => sync[f].began # Never /\ sync[f].began <= clock /\ clock <= sync[f].began + 1
    /\ Running(f) /\ sync[f].next # Never => sync[f].next = sync[f].began + Interval

\* The next sync after a complete one is due an interval after it, or an hour
\* earlier, and nothing is written before; so it does not find the corpus
\* fresh.  A process that was restarted and sleeps has seen a young document.
Corpus(f) ==
    /\ since[f] = "complete" => done[f] # Never
    /\ since[f] = "complete" /\ At(f, "sleep") =>
          sync[f].next <= done[f] + Interval /\ done[f] + Interval <= sync[f].next + 1
    /\ since[f] = "complete" /\ Running(f) => sync[f].began <= done[f] + Interval
    /\ since[f] = "complete" /\ (At(f, "check") \/ At(f, "fetch")) => done[f] + Interval <= clock + 1
    /\ since[f] = "complete" /\ (At(f, "sleep") \/ At(f, "check") \/ At(f, "fetch")) =>
          \A k \in Keys : doc[f][k].updated <= done[f]
    /\ since[f] = "boot" /\ At(f, "sleep") =>
          \E k \in Keys : doc[f][k] # None /\ sync[f].next <= doc[f][k].updated + 2 * Interval - Slack
    /\ \A k \in Keys : doc[f][k].expires = Never /\ doc[f][k].updated <= clock

AgeInv == \A f \in Feeds : Timer(f) /\ Corpus(f)

\* What the arithmetic needs to know of a feed.
LEMMA Bounds ==
    ASSUME TypeOK, NEW f \in Feeds
    PROVE  /\ clock \in Nat /\ Interval \in Nat /\ Slack \in Nat /\ Ttl \in Nat
           /\ 1 <= Slack /\ Slack + 1 <= Interval /\ 4 * Interval <= Ttl
           /\ sync[f] \in FeedTypes /\ sync[f].began \in Nat \cup {Never}
           /\ sync[f].next \in Nat \cup {Never} /\ done[f] \in Nat \cup {Never}
           /\ \A k \in Keys : doc[f][k].updated \in Nat \cup {Never}
           /\ \A k \in Keys : doc[f][k] # None => doc[f][k].updated \in Nat
           /\ f \in Sources /\ f # Probe
<1>1. \A k \in Keys : doc[f][k] \in Docs
  BY DEF TypeOK, Docs, Sources
<1>. QED
  BY <1>1, ListAssumption DEF TypeOK, FeedTypes, Times, Sources, Docs, None

LEMMA AgeInit == Init => AgeInv
<1>. SUFFICES ASSUME Init, NEW f \in Feeds PROVE Timer(f) /\ Corpus(f)
  BY DEF AgeInv
<1>. QED
  BY DEF Init, Timer, Corpus, Running, At, Booting, None, Never, Sources

\* A feed that a step leaves alone keeps its invariant.
LEMMA AgeFrame ==
    ASSUME NEW g \in Feeds, Timer(g), Corpus(g),
           sync'[g] = sync[g], since'[g] = since[g], done'[g] = done[g], doc'[g] = doc[g], clock' = clock
    PROVE  (Timer(g) /\ Corpus(g))'
BY DEF Timer, Corpus, Running, At

LEMMA SyncFrame ==
    ASSUME TypeOK, NEW f \in Feeds, Sync(f), NEW g \in Feeds, g # f
    PROVE  /\ sync'[g] = sync[g] /\ since'[g] = since[g] /\ done'[g] = done[g]
           /\ doc'[g] = doc[g] /\ clock' = clock
<1>1. \A K : Touch(f, K) => doc'[g] = doc[g]
  BY DEF Touch, TypeOK, Sources
<1>2. Sleep(f) => sync'[g] = sync[g]
  BY DEF Sleep, TypeOK
<1>. QED
  BY <1>1, <1>2 DEF TypeOK, Sync, Wake, Skip, Proceed, Fetch, FetchFails, WriteChunk, WriteFails,
     Complete, Fail, history

\* What falling asleep does to a feed that ran.
LEMMA Asleep ==
    ASSUME TypeOK, NEW f \in Feeds, Timer(f), Running(f), Sleep(f), clock' = clock
    PROVE  /\ sync'[f].pc = "sleep" /\ sync'[f].next \in Nat
           /\ clock <= sync'[f].next /\ sync'[f].next <= clock + Interval
           /\ clock + Interval <= sync'[f].next + 1
           /\ Timer(f)'
<1>1. /\ sync'[f].pc = "sleep"
      /\ sync'[f].next = IF sync[f].next = Never THEN clock + Interval ELSE sync[f].next
  BY DEF Sleep, TypeOK
<1>2. CASE sync[f].next = Never
  <2>1. sync'[f].next = clock + Interval /\ clock + Interval \in Nat /\ clock + Interval # Never
    BY <1>1, <1>2, Bounds DEF Never
  <2>. QED
    BY <1>1, <2>1, Bounds DEF Timer, Running, At
<1>3. CASE sync[f].next # Never
  <2>1. /\ sync'[f].next = sync[f].began + Interval /\ sync[f].began \in Nat
        /\ sync[f].began <= clock /\ clock <= sync[f].began + 1 /\ sync'[f].next # Never
    BY <1>1, <1>3, Bounds DEF Timer
  <2>. QED
    BY <1>1, <2>1, Bounds DEF Timer, Running, At
<1>. QED
  BY <1>2, <1>3
\* A write stamps its keys with the clock and leaves the others.
LEMMA Touched ==
    ASSUME TypeOK, NEW f \in Feeds, NEW K, Touch(f, K), Corpus(f), clock' = clock
    PROVE  \A k \in Keys : doc'[f][k].expires = Never /\ doc'[f][k].updated <= clock
<1>1. \A k \in Keys : doc'[f][k] =
         IF k \in K THEN [updated |-> clock, expires |-> doc[f][k].expires] ELSE doc[f][k]
  BY DEF Touch, TypeOK, Sources
<1>2. \A k \in Keys : doc[f][k].expires = Never /\ doc[f][k].updated <= clock
  BY DEF Corpus
<1>3. SUFFICES ASSUME NEW k \in Keys
               PROVE  doc'[f][k].expires = Never /\ doc'[f][k].updated <= clock
  OBVIOUS
<1>4. CASE k \in K
  <2>1. doc'[f][k] = [updated |-> clock, expires |-> doc[f][k].expires] /\ clock \in Nat
    BY <1>1, <1>4, Bounds
  <2>2. doc'[f][k].updated = clock /\ doc'[f][k].expires = doc[f][k].expires
    BY <2>1
  <2>. QED
    BY <1>2, <2>1, <2>2
<1>5. CASE k \notin K
  <2>1. doc'[f][k] = doc[f][k]
    BY <1>1, <1>5
  <2>. QED
    BY <1>2, <2>1
<1>. QED
  BY <1>4, <1>5

\* A failed sync leaves nothing to show but its timer.
LEMMA AgeFail ==
    ASSUME TypeOK, NEW f \in Feeds, Timer(f), Running(f), Fail(f), clock' = clock,
           \A k \in Keys : doc'[f][k].expires = Never /\ doc'[f][k].updated <= clock
    PROVE  (Timer(f) /\ Corpus(f))'
<1>1. since'[f] = "failure" /\ Timer(f)'
  BY Asleep DEF Fail, TypeOK
<1>. QED
  BY <1>1 DEF Corpus

LEMMA AgeSync ==
    ASSUME TypeOK, NEW f \in Feeds, Timer(f), Corpus(f), Sync(f)
    PROVE  (Timer(f) /\ Corpus(f))'
<1>1. CASE Wake(f)
  <2>1. /\ sync[f].pc = "sleep" /\ sync[f].next = clock /\ sync'[f].pc = "check"
        /\ sync'[f].began = clock /\ sync'[f].next = clock + Interval
        /\ UNCHANGED <<clock, doc, since, done>>
    BY <1>1 DEF Wake, At, history, TypeOK
  <2>2. Timer(f)'
    BY <2>1, Bounds DEF Timer, Running, At, Never
  <2>. QED
    BY <2>1, <2>2, Bounds DEF Corpus, Running, At
<1>2. CASE Skip(f)
  <2>1. /\ Running(f) /\ At(f, "check") /\ Fresh(f) /\ Sleep(f)
        /\ UNCHANGED <<clock, doc, since, done>>
    BY <1>2 DEF Skip, At, Running, history
  <2>2. /\ sync'[f].pc = "sleep" /\ sync'[f].next \in Nat
        /\ sync'[f].next <= clock + Interval /\ Timer(f)'
    BY <2>1, Asleep
  <2>3. PICK k \in Keys : doc[f][k] # None /\ clock - doc[f][k].updated < Interval - Slack
    BY <2>1 DEF Fresh
  <2>4. doc[f][k].updated \in Nat
    BY <2>3, Bounds
  <2>5. since[f] # "complete"
    <3>1. SUFFICES ASSUME since[f] = "complete" PROVE FALSE
      OBVIOUS
    <3>2. doc[f][k].updated <= done[f] /\ done[f] + Interval <= clock + 1 /\ done[f] # Never
      BY <2>1, <3>1 DEF Corpus
    <3>. QED
      BY <2>3, <2>4, <3>2, Bounds
  <2>6. sync'[f].next <= doc[f][k].updated + 2 * Interval - Slack
    BY <2>2, <2>3, <2>4, Bounds
  <2>7. ~Running(f)' /\ ~At(f, "check")' /\ ~At(f, "fetch")'
    BY <2>2 DEF Running, At
  <2>. QED
    BY <2>1, <2>2, <2>3, <2>5, <2>6, <2>7 DEF Corpus
<1>3. CASE Proceed(f)
  BY <1>3 DEF Proceed, Timer, Corpus, Running, At, history, TypeOK
<1>4. CASE Fetch(f)
  BY <1>4 DEF Fetch, Timer, Corpus, Running, At, history, TypeOK
<1>5. CASE FetchFails(f)
  BY <1>5, AgeFail DEF FetchFails, Running, At, Corpus
<1>6. CASE WriteChunk(f)
  <2>1. PICK K \in Chunks(f) : Touch(f, K) /\ sync' = [sync EXCEPT ![f].todo = @ \ K]
    BY <1>6 DEF WriteChunk
  <2>2. /\ sync'[f].pc = "write" /\ sync'[f].began = sync[f].began /\ sync'[f].next = sync[f].next
        /\ sync[f].pc = "write" /\ UNCHANGED <<clock, since, done>>
    BY <1>6, <2>1 DEF WriteChunk, At, history, TypeOK
  <2>3. \A k \in Keys : doc'[f][k].expires = Never /\ doc'[f][k].updated <= clock
    BY <2>1, <2>2, Touched
  <2>. QED
    BY <2>2, <2>3 DEF Timer, Corpus, Running, At
<1>7. CASE WriteFails(f)
  <2>1. PICK S : Touch(f, S)
    BY <1>7 DEF WriteFails
  <2>2. Running(f) /\ Fail(f) /\ clock' = clock
    BY <1>7 DEF WriteFails, Running, At
  <2>. QED
    BY <2>1, <2>2, Touched, AgeFail
<1>8. CASE Complete(f)
  <2>1. /\ Running(f) /\ Sleep(f) /\ UNCHANGED <<clock, doc>>
        /\ since'[f] = "complete" /\ done'[f] = clock
    BY <1>8 DEF Complete, At, Running, TypeOK
  <2>2. /\ sync'[f].pc = "sleep" /\ sync'[f].next \in Nat /\ sync'[f].next <= clock + Interval
        /\ clock + Interval <= sync'[f].next + 1 /\ Timer(f)'
    BY <2>1, Asleep
  <2>3. ~Running(f)' /\ ~At(f, "check")' /\ ~At(f, "fetch")' /\ clock # Never
    BY <2>2, Bounds DEF Running, At, Never
  <2>. QED
    BY <2>1, <2>2, <2>3 DEF Corpus
<1>. QED
  BY <1>1, <1>2, <1>3, <1>4, <1>5, <1>6, <1>7, <1>8 DEF Sync

LEMMA AgeTick ==
    ASSUME TypeOK, NEW f \in Feeds, Timer(f), Corpus(f), Tick
    PROVE  (Timer(f) /\ Corpus(f))'
<1>1. /\ clock' = clock + 1 /\ UNCHANGED <<doc, sync, since, done>>
      /\ At(f, "sleep") => clock < sync[f].next
      /\ Running(f) => clock = sync[f].began
  BY DEF Tick, At, Running
<1>2. Timer(f)'
  BY <1>1, Bounds DEF Timer, Running, At
<1>3. \A k \in Keys : doc[f][k].updated <= clock + 1
  BY Bounds DEF Corpus, Never
<1>. QED
  BY <1>1, <1>2, <1>3, Bounds DEF Corpus, Running, At

LEMMA AgeExpire ==
    ASSUME TypeOK, NEW f \in Feeds, Timer(f), Corpus(f),
           NEW s \in Sources, NEW k \in Keys, Expire(s, k)
    PROVE  (Timer(f) /\ Corpus(f))'
<1>1. /\ UNCHANGED <<clock, sync, since, done>>
      /\ \A j \in Keys : doc'[f][j] = doc[f][j] \/ (s = f /\ j = k /\ doc'[f][j] = None)
  BY Bounds DEF Expire, TypeOK, history
<1>2. None.updated = Never /\ None.expires = Never
  BY DEF None
<1>3. \A j \in Keys : doc'[f][j].expires = Never /\ doc'[f][j].updated <= clock
  BY <1>1, <1>2, Bounds DEF Corpus, Never
<1>4. ASSUME NEW t \in Nat, \A j \in Keys : doc[f][j].updated <= t
      PROVE  \A j \in Keys : doc'[f][j].updated <= t
  BY <1>1, <1>2, <1>4 DEF Never
<1>5. ASSUME since[f] = "boot", At(f, "sleep")
      PROVE  \E j \in Keys : doc'[f][j] # None /\ sync[f].next <= doc'[f][j].updated + 2 * Interval - Slack
  <2>1. PICK j \in Keys : doc[f][j] # None /\ sync[f].next <= doc[f][j].updated + 2 * Interval - Slack
    BY <1>5 DEF Corpus
  <2>2. sync[f].next \in Nat /\ clock <= sync[f].next /\ doc[f][j].updated \in Nat
    BY <1>5, <2>1, Bounds DEF Timer
  <2>3. ~(doc[f][j].updated + Ttl <= clock) /\ doc[f][j].expires = Never
    BY <2>1, <2>2, Bounds DEF Corpus
  <2>4. doc'[f][j] = doc[f][j]
    BY <1>1, <2>3 DEF Expire
  <2>. QED
    BY <2>1, <2>4
<1>6. Timer(f)'
  BY <1>1 DEF Timer, Running, At
<1>7. since[f] = "complete" => done[f] \in Nat
  BY Bounds DEF Corpus
<1>. QED
  BY <1>1, <1>3, <1>4, <1>5, <1>6, <1>7 DEF Corpus, Running, At

LEMMA AgeStep == TypeOK /\ AgeInv /\ [Next]_vars => AgeInv'
<1>. SUFFICES ASSUME TypeOK, AgeInv, [Next]_vars, NEW g \in Feeds PROVE (Timer(g) /\ Corpus(g))'
  BY DEF AgeInv
<1>t. Timer(g) /\ Corpus(g)
  BY DEF AgeInv
<1>1. CASE Tick
  BY <1>1, <1>t, AgeTick
<1>2. CASE Stop
  <2>1. sync'[g].pc = "off" /\ UNCHANGED <<clock, doc, since, done>>
    BY <1>2 DEF Stop, Off
  <2>. QED
    BY <1>t, <2>1 DEF Timer, Corpus, Running, At
<1>3. CASE Boot
  <2>1. /\ sync'[g].pc = "check" /\ sync'[g].began = clock /\ sync'[g].next = Never
        /\ since'[g] = "boot" /\ UNCHANGED <<clock, doc>>
    BY <1>3 DEF Boot, Booting
  <2>2. Timer(g)'
    BY <2>1, Bounds DEF Timer, Running, At, Never
  <2>. QED
    BY <1>t, <2>1, <2>2 DEF Corpus, At
<1>4. ASSUME NEW f \in Feeds, Sync(f) PROVE (Timer(g) /\ Corpus(g))'
  <2>1. CASE f = g
    BY <1>4, <1>t, <2>1, AgeSync
  <2>2. CASE f # g
    BY <1>4, <1>t, <2>2, SyncFrame, AgeFrame
  <2>. QED
    BY <2>1, <2>2
<1>5. ASSUME NEW f \in Feeds, NEW L \in SUBSET Names[f], Publish(f, L)
      PROVE  (Timer(g) /\ Corpus(g))'
  BY <1>5, <1>t, AgeFrame DEF Publish
<1>6. ASSUME NEW a \in Addresses, FlagProbe(a) PROVE (Timer(g) /\ Corpus(g))'
  <2>1. doc'[g] = doc[g]
    BY <1>6, Bounds DEF FlagProbe, TypeOK
  <2>. QED
    BY <1>6, <1>t, <2>1, AgeFrame DEF FlagProbe
<1>7. ASSUME NEW s \in Sources, NEW k \in Keys, Expire(s, k) PROVE (Timer(g) /\ Corpus(g))'
  BY <1>7, <1>t, AgeExpire
<1>8. CASE UNCHANGED vars
  BY <1>8, <1>t, AgeFrame DEF vars, history
<1>. QED
  BY <1>1, <1>2, <1>3, <1>4, <1>5, <1>6, <1>7, <1>8 DEF Next

LEMMA AgesFollow == TypeOK /\ AgeInv => CorpusAgeBounded
<1>. SUFFICES ASSUME TypeOK, AgeInv, NEW f \in Feeds, Up
     PROVE  /\ since[f] = "complete" => clock - done[f] <= Interval + 1
            /\ since[f] = "boot" /\ At(f, "sleep") =>
                  \E k \in Keys : doc[f][k] # None /\ clock - doc[f][k].updated <= 2 * Interval - Slack
  BY DEF CorpusAgeBounded
<1>t. Timer(f) /\ Corpus(f) /\ (At(f, "sleep") \/ Running(f))
  BY DEF AgeInv, Up, TypeOK, At, Running
<1>1. ASSUME since[f] = "complete" PROVE clock - done[f] <= Interval + 1
  <2>1. done[f] \in Nat
    BY <1>1, <1>t, Bounds DEF Corpus
  <2>2. CASE At(f, "sleep")
    BY <1>1, <1>t, <2>1, <2>2, Bounds DEF Timer, Corpus
  <2>3. CASE Running(f)
    BY <1>1, <1>t, <2>1, <2>3, Bounds DEF Timer, Corpus
  <2>. QED
    BY <1>t, <2>2, <2>3
<1>2. ASSUME since[f] = "boot", At(f, "sleep")
      PROVE  \E k \in Keys : doc[f][k] # None /\ clock - doc[f][k].updated <= 2 * Interval - Slack
  <2>1. PICK k \in Keys : doc[f][k] # None /\ sync[f].next <= doc[f][k].updated + 2 * Interval - Slack
    BY <1>2, <1>t DEF Corpus
  <2>2. sync[f].next \in Nat /\ clock <= sync[f].next /\ doc[f][k].updated \in Nat
    BY <1>2, <1>t, <2>1, Bounds DEF Timer
  <2>. QED
    BY <2>1, <2>2, Bounds
<1>. QED
  BY <1>1, <1>2

\* For any interval and any slack of at least an hour: a process that stays up
\* and meets no failure syncs every interval, and one that was restarted never
\* sleeps over a corpus older than two intervals less the slack.
THEOREM CorpusAgeAlwaysBounded == Spec => []CorpusAgeBounded
<1>1. Init => TypeOK /\ AgeInv
  BY TypeInit, AgeInit
<1>2. TypeOK /\ AgeInv /\ [Next]_vars => (TypeOK /\ AgeInv)'
  BY TypeStep, AgeStep
<1>. QED
  BY <1>1, <1>2, AgesFollow, PTL DEF Spec

-----------------------------------------------------------------------------
(* What a feed lists is never lost.                                        *)

\* How long after a key was last written the next sync begins at the latest:
\* a sync that failed half way leaves documents that look fresh, and so do
\* those of the restarts that follow.
Delay(f) == IF misses[f] = 0 THEN 2 * Interval - Slack ELSE 4 * Interval - 2 * Slack

\* How far the newest document may be ahead of it, unless one is being written.
Lead(f) == IF misses[f] = 0 THEN 1 ELSE 2 * Interval - Slack + 1

\* A key that was written with its feed's last complete sync.
Current(f, k) ==
    /\ doc[f][k] # None
    /\ At(f, "sleep") => sync[f].next <= doc[f][k].updated + Delay(f)
    /\ Running(f) => sync[f].began <= doc[f][k].updated + Delay(f)
    /\ At(f, "off") => clock <= doc[f][k].updated + Delay(f)
    /\ ~At(f, "write") => \A j \in Keys : doc[f][j].updated <= doc[f][k].updated + Lead(f)

\* What a sync has written so far.
Written(f) ==
    At(f, "write") =>
        /\ steady[f] \subseteq sync[f].batch
        /\ \A k \in sync[f].batch \ sync[f].todo :
              doc[f][k] # None /\ sync[f].began <= doc[f][k].updated

Listed(f) ==
    /\ steady[f] \subseteq feed[f]
    /\ Written(f)
    /\ misses[f] < 2 => \A k \in steady[f] : Current(f, k)

ListedInv == \A f \in Feeds : Listed(f)

LEMMA Margins ==
    ASSUME TypeOK, NEW f \in Feeds, misses[f] < 2
    PROVE  /\ misses[f] \in {0, 1} /\ Delay(f) \in Nat /\ Lead(f) \in Nat
           /\ Interval + 1 <= Delay(f) /\ Delay(f) + 1 < Ttl
           /\ 1 <= Lead(f) /\ Lead(f) + 2 * Interval <= Delay(f) + Slack + 1
           /\ misses[f] = 0 => Lead(f) = 1 /\ Delay(f) = 2 * Interval - Slack
<1>1. misses[f] \in {0, 1}
  BY DEF TypeOK
<1>. QED
  BY <1>1, Bounds DEF Delay, Lead

\* The keys of a feed that has not lost two syncs.
LEMMA CurrentKeys ==
    ASSUME TypeOK, NEW f \in Feeds, Listed(f), misses[f] < 2, NEW k \in steady[f]
    PROVE  /\ k \in Keys /\ Current(f, k) /\ doc[f][k].updated \in Nat
<1>1. k \in Keys
  BY DEF TypeOK
<1>2. Current(f, k)
  BY DEF Listed
<1>. QED
  BY <1>1, <1>2, Bounds DEF Current

LEMMA ListedInit == Init => ListedInv
<1>. SUFFICES ASSUME Init, NEW f \in Feeds PROVE Listed(f)
  BY DEF ListedInv
<1>1. steady[f] = {} /\ ~At(f, "write")
  BY DEF Init, At, Booting
<1>. QED
  BY <1>1 DEF Listed, Written

\* A feed that a step leaves alone keeps its invariant.
LEMMA ListedFrame ==
    ASSUME NEW g \in Feeds, Listed(g),
           sync'[g] = sync[g], misses'[g] = misses[g], steady'[g] = steady[g], feed'[g] = feed[g],
           doc'[g] = doc[g], clock' = clock
    PROVE  Listed(g)'
<1>1. Delay(g)' = Delay(g) /\ Lead(g)' = Lead(g)
  BY DEF Delay, Lead
<1>2. Written(g)'
  BY DEF Listed, Written, At
<1>3. \A k : Current(g, k) => Current(g, k)'
  BY <1>1 DEF Current, Running, At
<1>. QED
  BY <1>2, <1>3 DEF Listed

LEMMA ListedSyncFrame ==
    ASSUME TypeOK, NEW f \in Feeds, Sync(f), NEW g \in Feeds, g # f
    PROVE  misses'[g] = misses[g] /\ steady'[g] = steady[g] /\ feed'[g] = feed[g]
BY DEF TypeOK, Sync, Wake, Skip, Proceed, Fetch, FetchFails, WriteChunk, WriteFails, Complete, Fail, history

\* The misses of a feed decide both margins.
LEMMA SameMargins ==
    ASSUME NEW f \in Feeds, misses'[f] = misses[f]
    PROVE  Delay(f)' = Delay(f) /\ Lead(f)' = Lead(f)
BY DEF Delay, Lead

LEMMA ListedWake ==
    ASSUME TypeOK, NEW f \in Feeds, Timer(f), Listed(f), Wake(f)
    PROVE  Listed(f)'
<1>1. /\ sync[f].pc = "sleep" /\ sync[f].next = clock /\ sync'[f].pc = "check" /\ sync'[f].began = clock
      /\ UNCHANGED <<doc, feed, misses, steady>>
  BY DEF Wake, At, history, TypeOK
<1>2. ASSUME misses[f] < 2, NEW k \in steady[f] PROVE Current(f, k)'
  <2>1. Current(f, k)
    BY <1>2, CurrentKeys
  <2>. QED
    BY <1>1, <2>1, SameMargins DEF Current, Running, At
<1>. QED
  BY <1>1, <1>2 DEF Listed, Written, At

\* A sync that skips has seen a document that is younger than the guard.
LEMMA ListedSkip ==
    ASSUME TypeOK, NEW f \in Feeds, Timer(f), Listed(f), Skip(f)
    PROVE  Listed(f)'
<1>1. /\ Running(f) /\ At(f, "check") /\ Fresh(f) /\ Sleep(f)
      /\ UNCHANGED <<clock, doc, feed, misses, steady>>
  BY DEF Skip, At, Running, history
<1>2. sync'[f].pc = "sleep" /\ sync'[f].next \in Nat /\ sync'[f].next <= clock + Interval
  BY <1>1, Asleep
<1>3. PICK j \in Keys : doc[f][j] # None /\ clock - doc[f][j].updated < Interval - Slack
  BY <1>1 DEF Fresh
<1>4. ASSUME misses[f] < 2, NEW k \in steady[f] PROVE Current(f, k)'
  <2>1. Current(f, k) /\ doc[f][k].updated \in Nat /\ doc[f][j].updated \in Nat
    BY <1>3, <1>4, CurrentKeys, Bounds
  <2>2. \A l \in Keys : doc[f][l].updated <= doc[f][k].updated + Lead(f)
    BY <1>1, <2>1 DEF Current, At
  <2>3. sync'[f].next <= doc[f][k].updated + Delay(f)
    BY <1>2, <1>3, <1>4, <2>1, <2>2, Margins, Bounds
  <2>. QED
    BY <1>1, <1>2, <2>1, <2>2, <2>3, SameMargins DEF Current, Running, At
<1>. QED
  BY <1>1, <1>2, <1>4 DEF Listed, Written, At

LEMMA ListedProceed ==
    ASSUME TypeOK, NEW f \in Feeds, Listed(f), Proceed(f) \/ Fetch(f)
    PROVE  Listed(f)'
<1>1. /\ sync'[f].began = sync[f].began /\ Running(f)
      /\ UNCHANGED <<clock, doc, feed, misses, steady>>
      /\ \/ At(f, "check") /\ sync'[f].pc = "fetch"
         \/ At(f, "fetch") /\ sync'[f].pc = "write" /\ sync'[f].batch = feed[f] /\ sync'[f].todo = feed[f]
  BY DEF Proceed, Fetch, At, Running, history, TypeOK
<1>2. Written(f)'
  BY <1>1 DEF Listed, Written, At
<1>3. ASSUME misses[f] < 2, NEW k \in steady[f] PROVE Current(f, k)'
  <2>1. Current(f, k)
    BY <1>3, CurrentKeys
  <2>. QED
    BY <1>1, <2>1, SameMargins DEF Current, Running, At
<1>. QED
  BY <1>1, <1>2, <1>3 DEF Listed

\* Docs(f)' only grow younger in a write, and none is ahead of the clock.
Fresher(f) == \A k \in Keys :
    /\ doc'[f][k].updated <= clock
    /\ doc[f][k] # None => doc'[f][k] # None /\ doc[f][k].updated <= doc'[f][k].updated

LEMMA TouchIsFresher ==
    ASSUME TypeOK, NEW f \in Feeds, Corpus(f), NEW K, Touch(f, K), clock' = clock
    PROVE  /\ Fresher(f)
           /\ \A k \in Keys : k \in K => doc'[f][k] # None /\ doc'[f][k].updated = clock
           /\ \A k \in Keys : k \notin K => doc'[f][k] = doc[f][k]
<1>1. \A k \in Keys : doc'[f][k] =
         IF k \in K THEN [updated |-> clock, expires |-> doc[f][k].expires] ELSE doc[f][k]
  BY Bounds DEF Touch, TypeOK
<1>2. clock \in Nat /\ None.updated = Never /\ clock # Never
  BY Bounds DEF None, Never
<1>3. ASSUME NEW k \in Keys, k \in K
      PROVE  /\ doc'[f][k].updated = clock /\ doc'[f][k] # None
             /\ doc[f][k] # None => doc[f][k].updated <= clock
  <2>1. doc'[f][k] = [updated |-> clock, expires |-> doc[f][k].expires]
    BY <1>1, <1>3
  <2>2. doc'[f][k].updated = clock
    BY <2>1
  <2>3. doc'[f][k] # None
    BY <1>2, <2>2
  <2>4. doc[f][k].updated <= clock
    BY DEF Corpus
  <2>. QED
    BY <2>2, <2>3, <2>4
<1>4. ASSUME NEW k \in Keys, k \notin K
      PROVE  doc'[f][k] = doc[f][k] /\ doc[f][k].updated <= clock
  BY <1>1, <1>4 DEF Corpus
<1>5. Fresher(f)
  <2>. SUFFICES ASSUME NEW k \in Keys
       PROVE  /\ doc'[f][k].updated <= clock
              /\ doc[f][k] # None => doc'[f][k] # None /\ doc[f][k].updated <= doc'[f][k].updated
    BY DEF Fresher
  <2>1. CASE k \in K
    BY <1>2, <1>3, <2>1
  <2>2. CASE k \notin K
    <3>1. doc'[f][k] = doc[f][k] /\ doc[f][k].updated <= clock
      BY <1>4, <2>2
    <3>2. doc[f][k] # None => doc[f][k].updated \in Nat
      BY Bounds
    <3>. QED
      BY <3>1, <3>2
  <2>. QED
    BY <2>1, <2>2
<1>. QED
  BY <1>3, <1>4, <1>5

LEMMA DatesAreInts ==
    ASSUME TypeOK', NEW f \in Feeds, NEW k \in Keys
    PROVE  doc'[f][k].updated \in Int
<1>1. doc'[f][k] \in Docs
  BY Bounds DEF TypeOK, Docs, Sources
<1>. QED
  BY <1>1, ListAssumption DEF Docs, None, Never, Times

\* The first failure since a complete sync: its keys are older than a sync
\* that began in time, and no document is newer than its end.
LEMMA ListedFail ==
    ASSUME TypeOK, TypeOK', NEW f \in Feeds, Timer(f), Listed(f), Running(f), Fail(f), Fresher(f),
           clock' = clock, feed' = feed
    PROVE  Listed(f)'
<1>1. /\ misses'[f] = (IF misses[f] < 2 THEN misses[f] + 1 ELSE 2) /\ steady' = steady /\ Sleep(f)
      /\ misses[f] \in 0..2
  BY DEF Fail, TypeOK
<1>2. sync'[f].pc = "sleep" /\ sync'[f].next \in Nat /\ sync'[f].next <= clock + Interval
  BY <1>1, Asleep
<1>3. ASSUME misses'[f] < 2, NEW k \in steady[f] PROVE Current(f, k)'
  <2>1. misses[f] = 0 /\ misses'[f] = 1
    BY <1>1, <1>3
  <2>2. k \in Keys /\ Current(f, k) /\ doc[f][k].updated \in Nat
    BY <2>1, CurrentKeys
  <2>3. sync[f].began \in Nat /\ clock <= sync[f].began + 1 /\ sync[f].began <= doc[f][k].updated + Delay(f)
    BY <2>2, Bounds DEF Timer, Current
  <2>4. doc'[f][k] # None /\ doc[f][k].updated <= doc'[f][k].updated /\ doc'[f][k].updated <= clock
    BY <2>2 DEF Fresher, Current
  <2>5. doc'[f][k].updated \in Int /\ \A j \in Keys : doc'[f][j].updated \in Int
    BY <2>2, DatesAreInts
  <2>6. Delay(f) = 2 * Interval - Slack /\ Delay(f)' = 4 * Interval - 2 * Slack
        /\ Lead(f)' = 2 * Interval - Slack + 1
    BY <2>1, Margins DEF Delay, Lead
  <2>7. sync'[f].next <= doc'[f][k].updated + Delay(f)'
    BY <1>2, <2>2, <2>3, <2>4, <2>5, <2>6, Bounds
  <2>8. \A j \in Keys : doc'[f][j].updated <= doc'[f][k].updated + Lead(f)'
    BY <2>2, <2>3, <2>4, <2>5, <2>6, Bounds DEF Fresher
  <2>. QED
    BY <1>2, <2>4, <2>7, <2>8 DEF Current, Running, At
<1>. QED
  BY <1>1, <1>2, <1>3 DEF Listed, Written, At

LEMMA ListedWriteChunk ==
    ASSUME TypeOK, TypeOK', NEW f \in Feeds, Timer(f), Corpus(f), Listed(f), WriteChunk(f)
    PROVE  Listed(f)'
<1>1. PICK K \in Chunks(f) : Touch(f, K) /\ sync' = [sync EXCEPT ![f].todo = @ \ K]
  BY DEF WriteChunk
<1>2. /\ At(f, "write") /\ sync'[f].pc = "write" /\ sync'[f].began = sync[f].began
      /\ sync'[f].batch = sync[f].batch /\ sync'[f].todo = sync[f].todo \ K
      /\ UNCHANGED <<clock, feed, misses, steady>>
  BY <1>1 DEF WriteChunk, At, history, TypeOK
<1>3. /\ Fresher(f)
      /\ \A k \in Keys : k \in K => doc'[f][k] # None /\ doc'[f][k].updated = clock
      /\ \A k \in Keys : k \notin K => doc'[f][k] = doc[f][k]
  BY <1>1, <1>2, TouchIsFresher
<1>4. Written(f)'
  <2>1. ASSUME NEW k \in sync'[f].batch \ sync'[f].todo
        PROVE  doc'[f][k] # None /\ sync'[f].began <= doc'[f][k].updated
    <3>1. k \in Keys
      BY <1>2 DEF TypeOK
    <3>2. CASE k \in K
      BY <1>2, <1>3, <3>1, <3>2 DEF Timer, Running, At
    <3>3. CASE k \notin K
      BY <1>2, <1>3, <3>1, <3>3 DEF Listed, Written
    <3>. QED
      BY <3>2, <3>3
  <2>2. steady'[f] \subseteq sync'[f].batch
    BY <1>2 DEF Listed, Written
  <2>. QED
    BY <2>1, <2>2 DEF Written
<1>5. ASSUME misses[f] < 2, NEW k \in steady[f] PROVE Current(f, k)'
  <2>1. k \in Keys /\ Current(f, k) /\ doc[f][k].updated \in Nat
    BY <1>5, CurrentKeys
  <2>2. doc'[f][k] # None /\ doc[f][k].updated <= doc'[f][k].updated /\ doc'[f][k].updated \in Int
    BY <1>3, <2>1, DatesAreInts DEF Fresher, Current
  <2>3. sync[f].began \in Nat /\ sync[f].began <= doc[f][k].updated + Delay(f)
    BY <1>2, <2>1, Bounds DEF Timer, Current, Running, At
  <2>4. sync'[f].began <= doc'[f][k].updated + Delay(f)
    BY <1>2, <1>5, <2>1, <2>2, <2>3, Margins
  <2>. QED
    BY <1>2, <2>2, <2>4, SameMargins DEF Current, Running, At
<1>. QED
  BY <1>2, <1>4, <1>5 DEF Listed

\* A complete sync has written all it fetched since it began.
LEMMA ListedComplete ==
    ASSUME TypeOK, NEW f \in Feeds, Timer(f), Corpus(f), Listed(f), Complete(f)
    PROVE  Listed(f)'
<1>1. /\ Running(f) /\ At(f, "write") /\ Sleep(f) /\ sync[f].todo = {} /\ UNCHANGED <<clock, doc, feed>>
      /\ misses'[f] = (IF misses[f] < 2 THEN 0 ELSE 2)
      /\ steady'[f] = steady[f] \cup (sync[f].batch \cap feed[f])
  BY DEF Complete, At, Running, TypeOK
<1>2. sync'[f].pc = "sleep" /\ sync'[f].next \in Nat /\ sync'[f].next <= clock + Interval
  BY <1>1, Asleep
<1>n. /\ sync[f].next # Never => sync'[f].next = sync[f].began + Interval
      /\ sync[f].next = Never => sync'[f].next = clock + Interval
  BY <1>1 DEF Sleep, Timer, TypeOK
<1>3. ASSUME misses'[f] < 2, NEW k \in steady'[f] PROVE Current(f, k)'
  <2>1. k \in sync[f].batch /\ k \in Keys
    BY <1>1 DEF Listed, Written, TypeOK
  <2>2. doc[f][k] # None /\ sync[f].began <= doc[f][k].updated
    BY <1>1, <2>1 DEF Listed, Written
  <2>3. sync[f].began \in Nat /\ clock <= sync[f].began + 1 /\ doc[f][k].updated \in Nat
    BY <1>1, <2>1, <2>2, Bounds DEF Timer
  <2>4. Delay(f)' = 2 * Interval - Slack /\ Lead(f)' = 1
    BY <1>1, <1>3 DEF Delay, Lead
  <2>5. sync'[f].next <= doc[f][k].updated + Delay(f)'
    BY <1>2, <2>2, <2>3, <2>4, Bounds
  <2>6. \A j \in Keys : doc[f][j].updated <= doc[f][k].updated + Lead(f)'
    <3>. SUFFICES ASSUME NEW j \in Keys PROVE doc[f][j].updated <= doc[f][k].updated + 1
      BY <2>4
    <3>1. doc[f][j].updated <= clock /\ doc[f][j].updated \in Int
      BY Bounds DEF Corpus, Never
    <3>. QED
      BY <2>2, <2>3, <3>1, Bounds
  <2>. QED
    BY <1>1, <1>2, <2>2, <2>5, <2>6 DEF Current, Running, At
<1>4. steady'[f] \subseteq feed'[f]
  BY <1>1 DEF Listed
<1>. QED
  BY <1>1, <1>2, <1>3, <1>4 DEF Listed, Written, At

LEMMA ListedSync ==
    ASSUME TypeOK, TypeOK', NEW f \in Feeds, Timer(f), Corpus(f), Listed(f), Sync(f)
    PROVE  Listed(f)'
<1>1. CASE FetchFails(f)
  <2>1. Running(f) /\ Fail(f) /\ UNCHANGED <<clock, doc, feed>>
    BY <1>1 DEF FetchFails, Running, At
  <2>2. \A k \in Keys : doc[f][k].updated <= clock /\ doc[f][k].updated \in Int
    BY Bounds DEF Corpus, Never
  <2>3. Fresher(f)
    BY <2>1, <2>2 DEF Fresher
  <2>. QED
    BY <2>1, <2>3, ListedFail
<1>2. CASE WriteFails(f)
  <2>1. PICK S : Touch(f, S)
    BY <1>2 DEF WriteFails
  <2>2. Running(f) /\ Fail(f) /\ UNCHANGED <<clock, feed>>
    BY <1>2 DEF WriteFails, Running, At
  <2>. QED
    BY <2>1, <2>2, TouchIsFresher, ListedFail
<1>. QED
  BY <1>1, <1>2, ListedWake, ListedSkip, ListedProceed, ListedWriteChunk, ListedComplete DEF Sync

LEMMA ListedTick ==
    ASSUME TypeOK, NEW f \in Feeds, Listed(f), Tick
    PROVE  Listed(f)'
<1>1. /\ UNCHANGED <<doc, feed, sync, steady>>
      /\ At(f, "off") => misses'[f] = 2
      /\ misses'[f] = misses[f] \/ misses'[f] = 2
  BY DEF Tick, Up, At
<1>2. ASSUME misses'[f] < 2, NEW k \in steady[f] PROVE Current(f, k)'
  <2>1. misses'[f] = misses[f] /\ ~At(f, "off")
    BY <1>1, <1>2
  <2>2. Current(f, k)
    BY <1>2, <2>1 DEF Listed
  <2>. QED
    BY <1>1, <2>1, <2>2, SameMargins DEF Current, Running, At
<1>. QED
  BY <1>1, <1>2 DEF Listed, Written, At

\* A sync that is cut short by a stop is a failure; between syncs it is none.
LEMMA ListedStop ==
    ASSUME TypeOK, NEW f \in Feeds, Timer(f), Corpus(f), Listed(f), Stop
    PROVE  Listed(f)'
<1>1. /\ sync'[f].pc = "off" /\ UNCHANGED <<clock, doc, feed, steady>>
      /\ misses'[f] = (IF ~At(f, "sleep") /\ misses[f] < 2 THEN misses[f] + 1 ELSE misses[f])
      /\ At(f, "sleep") \/ Running(f)
  BY DEF Stop, Off, Up, At, Running, TypeOK
<1>2. ASSUME misses'[f] < 2, NEW k \in steady[f] PROVE Current(f, k)'
  <2>0. misses[f] < 2 /\ misses[f] \in Nat
    BY <1>1, <1>2 DEF TypeOK
  <2>1. k \in Keys /\ Current(f, k) /\ doc[f][k].updated \in Nat
    BY <2>0, CurrentKeys
  <2>2. \A j \in Keys : doc[f][j].updated <= clock /\ doc[f][j].updated \in Int
    BY Bounds DEF Corpus, Never
  <2>3. CASE At(f, "sleep")
    <3>1. misses'[f] = misses[f] /\ clock <= sync[f].next /\ sync[f].next <= doc[f][k].updated + Delay(f)
          /\ sync[f].next \in Nat
      BY <1>1, <2>1, <2>3, Bounds DEF Timer, Current
    <3>2. clock <= doc[f][k].updated + Delay(f)
      BY <2>0, <2>1, <3>1, Margins, Bounds
    <3>. QED
      BY <1>1, <2>1, <2>3, <3>1, <3>2, SameMargins DEF Current, Running, At
  <2>4. CASE Running(f)
    <3>1. misses[f] = 0 /\ misses'[f] = 1
      BY <1>1, <1>2, <2>0, <2>4 DEF At, Running
    <3>2. sync[f].began \in Nat /\ clock <= sync[f].began + 1 /\ sync[f].began <= doc[f][k].updated + Delay(f)
      BY <2>1, <2>4, Bounds DEF Timer, Current
    <3>3. Delay(f) = 2 * Interval - Slack /\ Delay(f)' = 4 * Interval - 2 * Slack
          /\ Lead(f)' = 2 * Interval - Slack + 1
      BY <3>1, Margins DEF Delay, Lead
    <3>4. clock <= doc[f][k].updated + Delay(f)'
      BY <2>1, <3>2, <3>3, Bounds
    <3>5. \A j \in Keys : doc[f][j].updated <= doc[f][k].updated + Lead(f)'
      BY <2>1, <2>2, <3>2, <3>3, Bounds
    <3>. QED
      BY <1>1, <2>1, <3>4, <3>5 DEF Current, Running, At
  <2>. QED
    BY <1>1, <2>3, <2>4
<1>. QED
  BY <1>1, <1>2 DEF Listed, Written, At

LEMMA ListedBoot ==
    ASSUME TypeOK, NEW f \in Feeds, Listed(f), Boot, At(f, "off")
    PROVE  Listed(f)'
<1>1. /\ sync'[f].pc = "check" /\ sync'[f].began = clock
      /\ UNCHANGED <<clock, doc, feed, misses, steady>>
  BY DEF Boot, Booting
<1>2. ASSUME misses[f] < 2, NEW k \in steady[f] PROVE Current(f, k)'
  <2>1. Current(f, k)
    BY <1>2, CurrentKeys
  <2>. QED
    BY <1>1, <2>1, SameMargins DEF Current, Running, At
<1>. QED
  BY <1>1, <1>2 DEF Listed, Written, At

\* A key that is current, or was just written, is too young to expire.
LEMMA ListedExpire ==
    ASSUME TypeOK, NEW f \in Feeds, Timer(f), Corpus(f), Listed(f),
           NEW s \in Sources, NEW k \in Keys, Expire(s, k)
    PROVE  Listed(f)'
<1>1. /\ UNCHANGED <<clock, feed, sync, misses, steady>>
      /\ \A j \in Keys : doc'[f][j] = doc[f][j] \/ (s = f /\ j = k /\ doc'[f][j] = None)
  BY Bounds DEF Expire, TypeOK, history
<1>2. None.updated = Never /\ doc[f][k].expires = Never /\ Never = -1
  BY DEF Corpus, None, Never
<1>3. ASSUME NEW j \in Keys, doc[f][j] # None, clock < doc[f][j].updated + Ttl
      PROVE  doc'[f][j] = doc[f][j]
  <2>1. doc[f][j].updated \in Nat /\ clock \in Nat /\ Ttl \in Nat
    BY <1>3, Bounds
  <2>2. CASE s = f /\ j = k
    BY <1>2, <1>3, <2>1, <2>2 DEF Expire
  <2>. QED
    BY <1>1, <2>2
<1>4. ASSUME misses[f] < 2, NEW j \in steady[f] PROVE Current(f, j)'
  <2>1. j \in Keys /\ Current(f, j) /\ doc[f][j].updated \in Nat /\ doc[f][j] # None
    BY <1>4, CurrentKeys DEF Current
  <2>2. clock <= doc[f][j].updated + Delay(f) + 1
    <3>1. At(f, "sleep") \/ Running(f) \/ At(f, "off")
      BY DEF TypeOK, At, Running
    <3>2. CASE At(f, "sleep")
      BY <1>4, <2>1, <3>2, Margins, Bounds DEF Timer, Current
    <3>3. CASE Running(f)
      BY <1>4, <2>1, <3>3, Margins, Bounds DEF Timer, Current
    <3>4. CASE At(f, "off")
      BY <1>4, <2>1, <3>4, Margins, Bounds DEF Current
    <3>. QED
      BY <3>1, <3>2, <3>3, <3>4
  <2>3. doc'[f][j] = doc[f][j]
    BY <1>3, <1>4, <2>1, <2>2, Margins, Bounds
  <2>4. ~At(f, "write") => \A l \in Keys : doc'[f][l].updated <= doc'[f][j].updated + Lead(f)
    BY <1>1, <1>2, <1>4, <2>1, <2>3, Margins DEF Current
  <2>. QED
    BY <1>1, <2>1, <2>3, <2>4, SameMargins DEF Current, Running, At
<1>5. Written(f)'
  <2>1. ASSUME At(f, "write"), NEW j \in sync[f].batch \ sync[f].todo
        PROVE  doc'[f][j] # None /\ sync[f].began <= doc'[f][j].updated
    <3>1. j \in Keys /\ doc[f][j] # None /\ sync[f].began <= doc[f][j].updated
      BY <2>1 DEF TypeOK, Listed, Written
    <3>2. sync[f].began \in Nat /\ clock <= sync[f].began + 1 /\ doc[f][j].updated \in Nat
      BY <2>1, <3>1, Bounds DEF Timer, Running, At
    <3>3. doc'[f][j] = doc[f][j]
      BY <1>3, <3>1, <3>2, Bounds
    <3>. QED
      BY <3>1, <3>3
  <2>. QED
    BY <1>1, <2>1 DEF Listed, Written, At
<1>. QED
  BY <1>1, <1>4, <1>5 DEF Listed

LEMMA ListedPublish ==
    ASSUME TypeOK, NEW f \in Feeds, Listed(f), NEW g \in Feeds, NEW L \in SUBSET Names[g], Publish(g, L)
    PROVE  Listed(f)'
<1>1. UNCHANGED <<clock, doc, sync, misses>>
  BY DEF Publish
<1>2. steady'[f] \subseteq steady[f] /\ steady'[f] \subseteq feed'[f]
  <2>1. CASE f = g
    BY <2>1 DEF Publish, TypeOK
  <2>2. CASE f # g
    BY <2>2 DEF Publish, TypeOK, Listed
  <2>. QED
    BY <2>1, <2>2
<1>3. ASSUME misses[f] < 2, NEW k \in steady'[f] PROVE Current(f, k)'
  <2>1. Current(f, k)
    BY <1>2, <1>3 DEF Listed
  <2>. QED
    BY <1>1, <2>1, SameMargins DEF Current, Running, At
<1>. QED
  BY <1>1, <1>2, <1>3 DEF Listed, Written, At

\* The goroutines run together or not at all.
Together == Up \/ \A f \in Feeds : At(f, "off")

LEMMA TogetherStep ==
    ASSUME TypeOK, Together, [Next]_vars
    PROVE  Together'
<1>1. ASSUME UNCHANGED sync PROVE Together'
  BY <1>1 DEF Together, Up, At
<1>2. CASE Tick \/ UNCHANGED vars
  BY <1>1, <1>2 DEF Tick, vars
<1>3. CASE Stop \/ Boot
  BY <1>3 DEF Stop, Boot, Together, Up, At, Off, Booting
<1>4. ASSUME NEW f \in Feeds, Sync(f) PROVE Together'
  <2>1. ~At(f, "off")
    BY <1>4 DEF Sync, Wake, Skip, Proceed, Fetch, FetchFails, WriteChunk, WriteFails, Complete, At
  <2>2. Up
    BY <2>1 DEF Together
  <2>3. Sleep(f) => sync'[f].pc = "sleep"
    BY DEF Sleep, TypeOK
  <2>4. sync'[f].pc # "off"
    BY <1>4, <2>3 DEF Sync, Wake, Skip, Proceed, Fetch, FetchFails, WriteChunk, WriteFails, Complete,
       Fail, At, TypeOK
  <2>5. \A g \in Feeds : g # f => sync'[g] = sync[g]
    BY <1>4, SyncFrame
  <2>. QED
    BY <2>2, <2>4, <2>5 DEF Together, Up
<1>5. ASSUME NEW f \in Feeds, NEW L \in SUBSET Names[f], Publish(f, L) PROVE Together'
  BY <1>1, <1>5 DEF Publish
<1>6. ASSUME NEW a \in Addresses, FlagProbe(a) PROVE Together'
  BY <1>1, <1>6 DEF FlagProbe
<1>7. ASSUME NEW s \in Sources, NEW k \in Keys, Expire(s, k) PROVE Together'
  BY <1>1, <1>7 DEF Expire
<1>. QED
  BY <1>2, <1>3, <1>4, <1>5, <1>6, <1>7 DEF Next

LEMMA ListedStep ==
    ASSUME TypeOK, TypeOK', AgeInv, Together, ListedInv, [Next]_vars
    PROVE  ListedInv'
<1>. SUFFICES ASSUME NEW g \in Feeds PROVE Listed(g)'
  BY DEF ListedInv
<1>t. Timer(g) /\ Corpus(g) /\ Listed(g)
  BY DEF AgeInv, ListedInv
<1>1. CASE Tick
  BY <1>1, <1>t, ListedTick
<1>2. CASE Stop
  BY <1>2, <1>t, ListedStop
<1>3. CASE Boot
  <2>1. At(g, "off")
    BY <1>3 DEF Boot, Together
  <2>. QED
    BY <1>3, <1>t, <2>1, ListedBoot
<1>4. ASSUME NEW f \in Feeds, Sync(f) PROVE Listed(g)'
  <2>1. CASE f = g
    BY <1>4, <1>t, <2>1, ListedSync
  <2>2. CASE f # g
    BY <1>4, <1>t, <2>2, SyncFrame, ListedSyncFrame, ListedFrame
  <2>. QED
    BY <2>1, <2>2
<1>5. ASSUME NEW f \in Feeds, NEW L \in SUBSET Names[f], Publish(f, L) PROVE Listed(g)'
  BY <1>5, <1>t, ListedPublish
<1>6. ASSUME NEW a \in Addresses, FlagProbe(a) PROVE Listed(g)'
  <2>1. doc'[g] = doc[g]
    BY <1>6, Bounds DEF FlagProbe, TypeOK
  <2>. QED
    BY <1>6, <1>t, <2>1, ListedFrame DEF FlagProbe
<1>7. ASSUME NEW s \in Sources, NEW k \in Keys, Expire(s, k) PROVE Listed(g)'
  BY <1>7, <1>t, ListedExpire
<1>8. CASE UNCHANGED vars
  BY <1>8, <1>t, ListedFrame DEF vars, history
<1>. QED
  BY <1>1, <1>2, <1>3, <1>4, <1>5, <1>6, <1>7, <1>8 DEF Next

LEMMA ListedFollows == TypeOK /\ ListedInv => NothingListedExpires
<1>. SUFFICES ASSUME TypeOK, ListedInv, NEW f \in Feeds, misses[f] < 2, NEW k \in steady[f],
                     NEW a \in Addresses, a = k \/ (k \in Blocks /\ a \in Covers[k])
     PROVE  f \in Check(a)
  BY DEF NothingListedExpires
<1>1. doc[f][k] # None /\ f \in Sources
  BY CurrentKeys, Bounds DEF ListedInv, Current
<1>. QED
  BY <1>1 DEF Check

\* For any feeds, intervals, slack and lifetimes with four intervals within
\* blocklistTTL: what a complete sync wrote and its feed still lists is found by
\* Check, through restarts, one sync that failed half way, and the skips of those
\* after it that its fresh documents cause.
THEOREM NothingListedEverExpires == Spec => []NothingListedExpires
<1>1. Init => TypeOK /\ AgeInv /\ Together /\ ListedInv
  <2>1. Init => Together
    BY DEF Init, Together, Up, Booting
  <2>. QED
    BY <2>1, TypeInit, AgeInit, ListedInit
<1>2. TypeOK /\ AgeInv /\ Together /\ ListedInv /\ [Next]_vars => (TypeOK /\ AgeInv /\ Together /\ ListedInv)'
  BY TypeStep, AgeStep, TogetherStep, ListedStep
<1>. QED
  BY <1>1, <1>2, ListedFollows, PTL DEF Spec
=============================================================================
