----------------------------- MODULE LinkStore -----------------------------
(***************************************************************************)
(* The short-link store of tools/linktools: the links collection, the      *)
(* bounded resolve cache in front of it, and the resolves, creates and     *)
(* revokes that run against both at once.  A resolve that misses the cache *)
(* takes the cache's generation, queries the database and stores what it   *)
(* read only if the generation has not moved; a write invalidates its code *)
(* after the database has acknowledged it.  The driver may lose a reply    *)
(* whose write is applied, now or later; the process may crash anywhere.   *)
(*                                                                         *)
(* may and reads are history variables: they guard nothing and record what *)
(* LinkRegister allows a resolve to see.                                   *)
(***************************************************************************)
EXTENDS Integers, FiniteSets

CONSTANTS Slugs,      \* codes an operator asks for by name
          Generated,  \* codes newCode can draw; validateSlug keeps the two apart
          Targets, Readers, Writers,
          NoRow, Never, NoCode,
          NoEntry,    \* a code the cache holds nothing for
          Ttls,       \* link lifetimes a create can ask for
          CacheTtl,   \* resolveCacheTTL and resolveNegativeTTL (60 s both)
          CacheMax,   \* resolveCacheMax
          MaxAttempts,\* maxCodeAttempts
          Retention,  \* linkRetention
          MaxClock,   \* bound: the clock stops here
          MaxGen      \* bound: no write begins once the cache was invalidated so often

Codes == Slugs \cup Generated
Expiries == {t + d : t \in 0..MaxClock, d \in Ttls} \cup {Never}
Row  == [target : Targets, exp : Expiries, revoked : BOOLEAN]
View == Row \cup {NoRow}

ASSUME StoreAssumption ==
    /\ Slugs \cap Generated = {} /\ IsFiniteSet(Codes)
    /\ Ttls \subseteq Nat \ {0} /\ CacheTtl \in Nat /\ Retention \in Nat
    /\ CacheMax \in Nat \ {0} /\ MaxAttempts \in Nat \ {0}
    /\ MaxClock \in Nat /\ MaxGen \in Nat
    /\ Never \notin Int /\ NoCode \notin Codes /\ NoRow \notin Row
    /\ Targets \cap {"gone", "error", "none"} = {}

Entry == [link : View, expires : 0..(MaxClock + CacheTtl)]

ASSUME EntryAssumption == NoEntry \notin Entry

VARIABLES
    db,       \* db[c]: the document of code c in the links collection
    unique,   \* the unique index on code exists on the server
    indexErr, \* LinkStore.indexErr is set: this process could not ensure the index
    cache,    \* resolveCache.entries
    gen,      \* resolveCache.gen
    reader,   \* one Resolve per reader
    writer,   \* one Create or Revoke per writer
    clock,
    may, reads \* history

vars == <<db, unique, indexErr, cache, gen, reader, writer, clock, may, reads>>

IdleReader(c, o) == [pc |-> "idle", code |-> c, gen |-> 0, view |-> NoRow, out |-> o]
Idle == [pc |-> "idle", op |-> "none", code |-> NoCode, row |-> NoRow, tries |-> 0]

Expired(v, now) == v.exp # Never /\ v.exp <= now

\* Resolve after ByCode: missing, revoked and expired share one answer.
Outcome(v, now) ==
    IF v = NoRow \/ v.revoked \/ Expired(v, now) THEN "gone" ELSE v.target

Init ==
    /\ db = [c \in Codes |-> NoRow]
    /\ unique \in BOOLEAN
    /\ indexErr \in BOOLEAN
    /\ indexErr \/ unique
    /\ cache = [c \in Codes |-> NoEntry]
    /\ gen = 0
    /\ reader = [r \in Readers |-> IdleReader(NoCode, "none")]
    /\ writer = [w \in Writers |-> Idle]
    /\ clock = 0
    /\ may = [c \in Codes |-> {NoRow}]
    /\ reads = [r \in Readers |-> {}]

Tick == /\ clock < MaxClock
        /\ clock' = clock + 1
        /\ UNCHANGED <<db, unique, indexErr, cache, gen, reader, writer, may, reads>>

-----------------------------------------------------------------------------
(* Resolve: cache.get, generation, FindOne, putIfFresh, then the checks.   *)

Hit(c) == cache[c] # NoEntry /\ clock <= cache[c].expires

Get(r, c) ==
    /\ reader[r].pc = "idle"
    /\ reader' = [reader EXCEPT ![r] =
          [pc |-> IF Hit(c) THEN "judge" ELSE "generation", code |-> c, gen |-> 0,
           view |-> IF Hit(c) THEN cache[c].link ELSE NoRow, out |-> "none"]]
    /\ reads' = [reads EXCEPT ![r] = may[c]]
    /\ UNCHANGED <<db, unique, indexErr, cache, gen, writer, clock, may>>

Generation(r) ==
    /\ reader[r].pc = "generation"
    /\ reader' = [reader EXCEPT ![r].pc = "find", ![r].gen = gen]
    /\ UNCHANGED <<db, unique, indexErr, cache, gen, writer, clock, may, reads>>

FindOne(r) ==
    /\ reader[r].pc = "find"
    /\ reader' = [reader EXCEPT ![r].pc = "put", ![r].view = db[reader[r].code]]
    /\ UNCHANGED <<db, unique, indexErr, cache, gen, writer, clock, may, reads>>

\* A transport failure is returned and never cached.
FindOneFails(r) ==
    /\ reader[r].pc = "find"
    /\ reader' = [reader EXCEPT ![r] = IdleReader(@.code, "error")]
    /\ reads' = [reads EXCEPT ![r] = {}]
    /\ UNCHANGED <<db, unique, indexErr, cache, gen, writer, clock, may>>

Cached(k) == {c \in Codes : k[c] # NoEntry}

\* Mutant: a full cache drops only what has expired.
WithoutExpired == IF Cardinality(Cached(cache)) < CacheMax THEN cache
                  ELSE [c \in Codes |-> IF Hit(c) THEN cache[c] ELSE NoEntry]

\* A full cache drops what has expired, and everything if that frees nothing.
WithRoom ==
    LET live == [c \in Codes |-> IF Hit(c) THEN cache[c] ELSE NoEntry]
    IN  IF Cardinality(Cached(cache)) < CacheMax THEN cache
        ELSE IF Cardinality(Cached(live)) < CacheMax THEN live
        ELSE [c \in Codes |-> NoEntry]

\* Mutant: store what was read, whatever was invalidated meanwhile.
PutAnyway(r) ==
    /\ reader[r].pc = "put"
    /\ cache' = [WithRoom EXCEPT ![reader[r].code] = [link |-> reader[r].view, expires |-> clock + CacheTtl]]
    /\ reader' = [reader EXCEPT ![r].pc = "judge", ![r].gen = 0]
    /\ UNCHANGED <<db, unique, indexErr, gen, writer, clock, may, reads>>

PutIfFresh(r) ==
    /\ reader[r].pc = "put"
    /\ IF reader[r].gen = gen
       THEN cache' = [WithRoom EXCEPT ![reader[r].code] =
                         [link |-> reader[r].view, expires |-> clock + CacheTtl]]
       ELSE cache' = cache
    /\ reader' = [reader EXCEPT ![r].pc = "judge", ![r].gen = 0]
    /\ UNCHANGED <<db, unique, indexErr, gen, writer, clock, may, reads>>

Judge(r) ==
    /\ reader[r].pc = "judge"
    /\ reader' = [reader EXCEPT ![r] = IdleReader(@.code, Outcome(@.view, clock))]
    /\ reads' = [reads EXCEPT ![r] = {}]
    /\ UNCHANGED <<db, unique, indexErr, cache, gen, writer, clock, may>>

-----------------------------------------------------------------------------
(* Create and Revoke: one write to the database, then invalidate.  A       *)
(* writer that "failed" has told its caller so; one that is "lost" answered *)
(* nobody: its process crashed with the write on its way.                  *)

Running(w) == writer[w].pc \in {"write", "invalidate"}

\* Custom slug: one attempt.  Generated code: a fresh draw for each attempt.
BeginCreate(w) ==
    /\ writer[w].pc = "idle" /\ gen < MaxGen
    /\ \E op \in {"slug", "generated"}, c \in Codes, t \in Targets, d \in Ttls \cup {Never} :
          /\ c \in (IF op = "slug" THEN Slugs ELSE Generated)
          /\ writer' = [writer EXCEPT ![w] =
                [pc |-> "write", op |-> op, code |-> c, tries |-> 1,
                 row |-> [target |-> t, revoked |-> FALSE,
                          exp |-> IF d = Never THEN Never ELSE clock + d]]]
    /\ UNCHANGED <<db, unique, indexErr, cache, gen, reader, clock, may, reads>>

BeginRevoke(w) ==
    /\ writer[w].pc = "idle" /\ gen < MaxGen
    /\ \E c \in Codes : writer' = [writer EXCEPT ![w] =
          [pc |-> "write", op |-> "revoke", code |-> c, row |-> NoRow, tries |-> 0]]
    /\ UNCHANGED <<db, unique, indexErr, cache, gen, reader, clock, may, reads>>

\* The driver gave up on the write, or its process crashed: it may still be applied.
Pending(w) == writer[w].pc \in {"failed", "lost"}

\* The write w sends is one the server carries out: the code is free for an
\* insert, or no unique index defends it; there is a document to revoke.
Applies(w) ==
    IF writer[w].op = "revoke" THEN db[writer[w].code] # NoRow
    ELSE db[writer[w].code] = NoRow \/ ~unique

Written(w) ==
    IF writer[w].op = "revoke" THEN [db[writer[w].code] EXCEPT !.revoked = TRUE]
    ELSE writer[w].row

\* A document changes; a resolve of that code under way may see either value.
Store(c, v) ==
    /\ db' = [db EXCEPT ![c] = v]
    /\ may' = [may EXCEPT ![c] = @ \cup {v}]
    /\ reads' = [r \in Readers |->
                    IF reader[r].code = c /\ reader[r].pc # "idle" THEN reads[r] \cup {v} ELSE reads[r]]

\* Insert fails closed while the unique index is missing.
Refused(w) ==
    /\ writer[w].pc = "write" /\ writer[w].op # "revoke" /\ indexErr
    /\ writer' = [writer EXCEPT ![w] = Idle]
    /\ UNCHANGED <<db, unique, indexErr, cache, gen, reader, clock, may, reads>>

\* Mutant: Insert does not look at indexErr.
SendsAlways(w) == writer[w].pc = "write"

Sends(w) == writer[w].pc = "write" /\ (writer[w].op = "revoke" \/ ~indexErr)

Write(w) ==
    /\ Sends(w) /\ Applies(w)
    /\ Store(writer[w].code, Written(w))
    /\ writer' = [writer EXCEPT ![w].pc = "invalidate"]
    /\ UNCHANGED <<unique, indexErr, cache, gen, reader, clock>>

\* Revoke matched nothing.
RevokeMissing(w) ==
    /\ Sends(w) /\ writer[w].op = "revoke" /\ ~Applies(w)
    /\ writer' = [writer EXCEPT ![w] = Idle]
    /\ UNCHANGED <<db, unique, indexErr, cache, gen, reader, clock, may, reads>>

\* ErrCodeTaken: a slug gives up, a generated code is drawn again up to MaxAttempts times.
Duplicate(w) ==
    /\ Sends(w) /\ writer[w].op # "revoke" /\ ~Applies(w)
    /\ \/ /\ writer[w].op = "slug"
          /\ writer' = [writer EXCEPT ![w] = Idle]
       \/ /\ writer[w].op = "generated" /\ writer[w].tries >= MaxAttempts
          /\ writer' = [writer EXCEPT ![w] = Idle]
       \/ /\ writer[w].op = "generated" /\ writer[w].tries < MaxAttempts
          /\ \E c \in Generated :
                writer' = [writer EXCEPT ![w].code = c, ![w].tries = @ + 1]
    /\ UNCHANGED <<db, unique, indexErr, cache, gen, reader, clock, may, reads>>

\* The driver reports an error, and the caller is told so.  The write may never reach the server, or it
\* has been or will be applied: either way no invalidate follows.
WriteFails(w) ==
    /\ Sends(w)
    /\ writer' = [writer EXCEPT ![w].pc = "failed"]
    /\ UNCHANGED <<db, unique, indexErr, cache, gen, reader, clock, may, reads>>

LateWrite(w) ==
    /\ Pending(w) /\ Applies(w)
    /\ Store(writer[w].code, Written(w))
    /\ writer' = [writer EXCEPT ![w] = Idle]
    /\ UNCHANGED <<unique, indexErr, cache, gen, reader, clock>>

NeverWritten(w) ==
    /\ Pending(w)
    /\ writer' = [writer EXCEPT ![w] = Idle]
    /\ UNCHANGED <<db, unique, indexErr, cache, gen, reader, clock, may, reads>>

\* Mutant: the entry is dropped but readers in flight are not warned.
InvalidateEntryOnly(w) ==
    /\ writer[w].pc = "invalidate"
    /\ cache' = [cache EXCEPT ![writer[w].code] = NoEntry]
    /\ writer' = [writer EXCEPT ![w] = Idle]
    /\ may' = [may EXCEPT ![writer[w].code] = {db[writer[w].code]}]
    /\ UNCHANGED <<db, unique, indexErr, gen, reader, clock, reads>>

Invalidate(w) ==
    /\ writer[w].pc = "invalidate"
    /\ gen' = gen + 1
    /\ cache' = [cache EXCEPT ![writer[w].code] = NoEntry]
    /\ writer' = [writer EXCEPT ![w] = Idle]
    /\ may' = [may EXCEPT ![writer[w].code] = {db[writer[w].code]}]
    /\ UNCHANGED <<db, unique, indexErr, reader, clock, reads>>

-----------------------------------------------------------------------------
(* Mongo's TTL index, and the process restarting.                          *)

Sweep(c) ==
    /\ db[c] # NoRow /\ db[c].exp # Never /\ db[c].exp + Retention <= clock
    /\ Store(c, NoRow)
    /\ UNCHANGED <<unique, indexErr, cache, gen, reader, writer, clock>>

\* NewLinkStore ensures the index at boot; a failure leaves the server either
\* way.  A write that was sent may still be applied.
Crash ==
    /\ unique' \in BOOLEAN /\ indexErr' \in BOOLEAN
    /\ (unique \/ ~indexErr') => unique'
    /\ cache' = [c \in Codes |-> NoEntry]
    /\ gen' = 0
    /\ reader' = [r \in Readers |-> IF reader[r].pc = "idle" THEN reader[r]
                                    ELSE IdleReader(reader[r].code, "error")]
    /\ writer' = [w \in Writers |->
          IF Sends(w) THEN [writer[w] EXCEPT !.pc = "lost"]
          ELSE IF Running(w) THEN Idle ELSE writer[w]]
    /\ may' = [c \in Codes |-> {db[c]}]
    /\ reads' = [r \in Readers |-> {}]
    /\ UNCHANGED <<db, clock>>

Resolve(r) ==
    \/ \E c \in Codes : Get(r, c)
    \/ Generation(r) \/ FindOne(r) \/ FindOneFails(r) \/ PutIfFresh(r) \/ Judge(r)

Change(w) ==
    \/ BeginCreate(w) \/ BeginRevoke(w) \/ Refused(w) \/ Write(w) \/ RevokeMissing(w)
    \/ Duplicate(w) \/ WriteFails(w) \/ LateWrite(w) \/ NeverWritten(w) \/ Invalidate(w)

Next ==
    \/ Tick
    \/ Crash
    \/ \E c \in Codes : Sweep(c)
    \/ \E r \in Readers : Resolve(r)
    \/ \E w \in Writers : Change(w)

Spec == Init /\ [][Next]_vars
=============================================================================
