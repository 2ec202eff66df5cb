# site-of-tools in TLA+

A verification development kept beside the Go program *site-of-tools*: one
process that serves a personal site, a set of public tools (links, DNS, IP,
mail, ciphers, bot check) over HTTP hosts, and the same tools as MCP endpoints.
The modules translate the code under `src/`; TLC checks them on small
instances, TLAPS proves the most important results for every value of the
constants.  `PROJECT.json` names, for every definition, the lines it stands for.

## 1. Inventory

The process keeps little state of its own, and most of what can go wrong is in
the places where it does: caches, queues, caps, syncs, and its own shutdown.

| Part | State | Operations | What is hard | What makes it correct |
|---|---|---|---|---|
| Short links (`linktools/store.go`, `resolvecache.go`, `short.go`) | `links` collection, resolve cache with a generation | create, resolve, revoke, TTL sweep, boot | a resolve in flight while a link is made or revoked; lost replies; crash between write and invalidate; missing unique index | a resolve that starts after an acknowledged change never sees what was before it; a code never changes hands |
| Hit batcher (`resolvecache.go`) | queue, pending batch | record, tick, flush, close | the last batch; a send while the queue closes | a redirect is counted at most once, forgotten only when dropped or when a write fails |
| Request log (`platform/requestlog.go`) | buffered channel, closed flag under a RWMutex, writer goroutine | record, insert, flag a probe, close | requests that outlive the graceful stop; a database that hangs | recording never delays or panics; a drained close left nothing behind |
| Process (`main.go`, `platform/mongo.go`) | signal context, client, deferred calls | listen, signal, the teardown | every wait is bounded, so each stage can begin with the one before unfinished | drains run before the client closes; the process ends |
| Caps (`platform/ratelimit.go`) and the handlers over them | per-client weights, semaphore | acquire, refuse, release | weights above a share, above the budget | one client cannot take it all; no call is refused for ever; no slot leaks |
| MCP middleware (`mcptools/middleware.go`) | one call's context, slot, status | limit, acquire, deadline, hang-up, panic, record | three ways to end racing each other | every slot goes back; the status tells the truth; every call ends |
| DNS lookup (`dnstools/dns.go`, `cache.go`) | answer cache, singleflight group | look, join, exchange, store, land | the clock is read before the cache, the cache before the group | one query per question; TTLs count down; a panic frees the waiters |
| DNS trace (`dnstools/trace.go`) | one walk: zone, servers, the parent's word, keys, chain, budget, silent servers | ask for keys, ask the name, follow a referral, ask for the DS, look up addresses, judge | lame, silent and shared servers, stripped signatures, budget and clock | a verdict is the truth or none; the walk descends and keeps to its budget |
| DNS report (`dnstools/dns.go`) | per-request fan-out over record types | ask each type, summarise | types that fail, are blocked or panic beside types that answer | what was not answered is never a verdict; a name is called missing only if it is |
| DNS consistency (`spread.go`), ECS, domain report | per-request fan-outs | climb to the zone, ask its servers and public resolvers, summarise | lost lookups on the way up, rotation against rollout | an undelegated zone is one; nothing private is asked |
| Redirect tracer (`linktools/trace.go`) | per-request hop list, the URLs seen, the time left | check, send, dial, follow, stop | loops, deadlines, pages that send on by header, markup or script | every URL once, a destination only where the chain ends, the loop always ends |
| URL cleaning (`clean.go`, `rules.go`) | none | unwrap, match rules, rebuild | wrappers in wrappers, rules overruled by others | deletes trackers and nothing else; twice is once |
| Header and cache reports (`headers*.go`) | none | read a paste, audit | families of directives that overrule each other | the edge keeps no longer than the origin let it |
| Blocklist and feed syncs (`iptools/blocklist.go`, `ipsum.go`, `spamhaus.go`) | `ip_blocklist` documents, 60-day and 30-day dates | sync, flag a probe, report | partial writes that read as fresh; two writers of one document | an address is listed while a feed names it, or within 30 days of a probe |
| Mail (`mailtools`) | domain lists | SPF, DMARC, DKIM, MTA-STS, BIMI, aggregate reports, ARC, blacklists | limits reached half way, inheritance | a pass is earned; the nearest policy applies; totals add up |
| Bot check (`botcheck`) | signals of a visit, a corpus of counts | score | one lie seen by several rules; old collectors | once seen is once counted; silence is no evidence |
| Ciphers (`ciphertools`) | none | tokens, proofs, keys, one-time codes, and more | which key, which algorithm, which moment | "valid" means signed by a key given; a key shown is the key pasted |
| MCP endpoints (`mcptools/handler.go`, `sanitize.go`) | none | gate, serve, clean the result | the order of the gates | only the key's holder reaches the owner's tools |
| Routing, rendering, blog, catalogue | none after boot | read | | |

How the parts meet: every request passes the logging middleware, which records
it in the request log when the handler is done; the redirect handler resolves a
code through the store and records a hit; the request log's writer hands probes
to the blocklist, which the feed syncs write too; handlers and MCP tools share
the caps and the DNS service; `main.run` owns all of them and takes them down.

## 2. Modules

State machines:

| Module | Models | State and actions |
|---|---|---|
| `LinkRegister` | what the link store promises (abstract) | one regular register per code, with expiry and retention |
| `LinkStore` | the store, its cache, Mongo as the code uses it | `Get, Generation, FindOne, PutIfFresh, Judge` are the steps of one resolve; `BeginCreate/BeginRevoke, Write, Duplicate, WriteFails, LateWrite, Invalidate` those of one write; `Sweep`, `Crash`, `Tick` |
| `LinkStoreProperties` | its properties, inductive invariants, refinement mapping | |
| `DrainQueue` | the queue protocol `RequestLog` and `hitBatcher` share | `RLock, CheckClosed, Send`; `Lock, SetClosed, CloseChannel, Drained, GiveUp`; the worker's `Receive, Leave` |
| `RequestLog` | the writer over that queue | `Take, Insert, FlagProbe, Exit` |
| `HitBatcher` | the batching worker over that queue | `Gather, Tick, Exit` |
| `Shutdown` | `main.run` from listening to exit; extends `RequestLog` and has a `HitBatcher` by INSTANCE, over one client | `Listen, BindFails, Signal, Served, SyncsWaited, Stop, CloseLog, CloseHits, Disconnect, ExitProcess`, the requests, the workers, the syncs |
| `Cap` | `platform.Cap` | `Acquire, Release` |
| `HandlerCap` | the HTTP handlers and `ciphertools.Limits.Run` over one Cap | `Start, Refuse, Finish, Answered` |
| `Caps` | one Cap behind both doors, as `main.run` wires it: `HandlerCap` and `McpCall` over the same counters | the actions of both |
| `McpCall` | the middleware around one MCP message, over a Cap | `Receive, Allow, Limit, TakeSlot, Busy, Deadline, HangUp, CancelGone, Return, Judge, GiveBack, Record` |
| `DnsLookup` | `Service.lookup`: cache and single flight | `Start, Look, Join, Exchange, Stamp, Store, Land, Tick`: the time an answer is stored under is read after the exchange and before the cache's lock, each a step |
| `BlockList` | the `ip_blocklist` collection, the feed syncs and the probe flags that write it | `Wake, Skip, Proceed, Fetch, FetchFails, WriteChunk, WriteFails, Complete` of each sync; `FlagProbe`; `Expire`, `Publish`; `Stop`, `Boot`, `Tick` |
| `DnsTrace` | one `Service.Trace`, from the root to the verdict, against nameservers that may be lame, silent or lossy | a query is `Silent, Useless, Answered` or `OutOfBudget` per server; what the walk makes of its reply is `Keys`, `Ask`, `DS`; then `SideLookup, SideOutOfBudget, Descend`; `TooDeep, EnterZone` at each turn of the loop; `Verdict`; `Expire` is its deadline |
| `RedirectTrace` | one `Tracer.Trace`, hop by hop, against servers and resolvers that answer anything | `Reject, Begin`; at each turn `TooMany, Refuse, Send`; then `DialRefused, Fail, TimeUp, Follow, Lose, Arrive` |

Pure code, as operators.  Each module ends with what its reports promise; an
input is a record of what the code tells apart, never text.

| Module | Models |
|---|---|
| `CleanLink` | `Service.Clean`: wrappers, encodings, tracking rules with their hosts and denials, signed links, sorting |
| `HeaderReport` | lifetimes in a browser and at an edge, security findings, how pasted headers become one answer |
| `BotScore` | every check of the bot score with the half of a visit it needs, the good bots, the soft cluster, the corpus |
| `McpGate` | which endpoints there are, the gates in `serve`, the rate keys, and what a result may hold |
| `MailAuth` | SPF with its limits, DMARC with its inheritance, DKIM, MTA-STS, BIMI, the gateway, the score |
| `MailReport` | aggregate reports, ARC chains, logo fixes, DNS blacklists, domain lists, the routes' prices |
| `CipherToken` | JWTs, DPoP proofs, PKCE, HMAC, with symbolic cryptography |
| `CipherKeys` | reading keys of every form and showing them again |
| `OneTimeCode` | HOTP, TOTP and `otpauth://` URIs |
| `AnswerSet` | one fan-out of a DNS lookup and the report made of it |
| `DnsSpread` | the consistency check of a zone's servers and the public resolvers |
| `Reports` | the reports as one machine, `Reporting`: what a header report, a bot score, the MCP gate, a token, a key or a one-time code tool may be asked (`Request`), and what holds of every answer |
| `MailAsks`, `CipherAsks`, `DnsAsks` | what `MCReports` asks of the others |

`*Proofs` modules hold the theorems.  `MC*` modules are the small instances.
Definitions that begin with "Mutant" in their comment are wrong on purpose: they
are the plausible bugs the properties are there to catch, and no specification
uses them.

Where a Go critical section has no observable inside, it is one step (both
methods of `Cap`, `putIfFresh`, `invalidate`).  Where the code lets go of a lock
or reads something it will use later (the generation, the clock, a query, the
closed flag), the gap is a step boundary.

## 3. Runs

| Run | Instance | Shows |
|---|---|---|
| `link_store` | one code, two resolves, one writer, clock 0..2, at most two writes begin per boot | `Coherent`; the store implements `LinkRegister` through expiry, sweep, lost replies, crashes |
| `link_store_codes` | a slug and a generated code, two writers, no expiry, a cache of one | no code is given to two links although two inserts race and the index may be missing, and the cache stays within its bound |
| `link_store_reply` | (violation) | an operator told "Nothing was changed." by a process that goes on sees the link change |
| `shutdown` | two requests, one a probe, queues of one, one sync | drains precede the close of the client; syncs stop on a signal; no panic; each entry and each hit in one place, written once; the process exits and no request waits for a queue, though the database hangs |
| `shutdown_bind` | (violation) | after a bind failure a sync still writes as the client closes |
| `caps` | one Cap behind both its doors: three clients, two HTTP requests and one MCP message over a budget of eight and a share of two, costs 0, 7 and 9 (nothing, nearly all of it, more than there is) | shares and accounting over both doors, no refusal but beside another call, no client alone keeps another out, statuses, every MCP call ends |
| `dns_lookup` | two lookups made over and over, two questions, a cache of one, clock 0..3 | one query per question, none that the cache could have spared, no answer replaced by an older one, TTLs, every lookup returns |
| `block_list` | a feed of two netblocks in chunks of one, two addresses of which one can be flagged; a day of two hours, a slack of one, 60 days of eight hours, 30 days of two | the daily cadence, nothing listed expires, a probe is listed for its time |
| `dns_trace` | three zones, four servers of which one needs a lookup, 20 hostings with lame and shared servers, 18 ways of signing, five answers; a budget of 10, a depth of 4 | a verdict of secure, bogus or insecure is the truth; a walk that got every answer says it; the budget holds; the walk descends |
| `dns_trace_shared` | the same zones, the root's server serving the zone below it too | (violation) a healthy name is called bogus |
| `redirect_trace` | two hosts and a denied one, three hops, a chain's time of two hops and a half | a destination only where nothing that is searched for goes on, nothing left unsaid, no URL twice, every trace ends |
| `reports` | some 460 000 requests, each answered in one step | what each report promises, of every request of a small world |

Why the bounds are enough.  The races of the store need one reader between its
query and its put while one writer completes; two readers add the case in which
one of them refills the cache meanwhile.  `MaxGen` bounds the writes between two
boots and `MaxClock` the clock: an entry lives one tick, a link one tick, its
retention one more, so a clock of two reaches expiry, the sweep, and a code taken
again.  The queue protocol has at most one sender and one closer inside the lock
at a time; two items over one slot give one that waits and one that is dropped or
late, and the proofs are for any number.
A budget of eight and a share of two is the smallest in which a call can be
within, at and above a share and a client can stack two; three calls of three
clients are enough for one that is alone, one beside a lone call over its share,
and one beside two others, and the proofs are for any number.  `DnsLookup`'s clock
passes the life of a negative answer and of a short TTL raised to the minimum, so that
entries run out; its `Width` of 64 stands for 2^32 and is above
every TTL and age, so only a negative age wraps.

Three zones give `DnsTrace` a first, a middle and a last link; a server that
holds the last two gives the hidden cut, one that holds only a zone above gives
the upward referral, and one without an address the side lookups.  A
signed path takes eight queries and a side lookup two, so a budget of 10 (the
code's is 48) is just enough for a walk that loses nothing, and one that retries
runs out of it in a query for the last zone's keys, in its last question, or
between the two charges of a side lookup.
Two of the hostings of `dns_trace` are not `Plain`: in one the root's server
serves the zone below it too, in the other a server delegated both lower zones
serves only the last.  `VerdictIsTruth` claims there what the code keeps to there,
that "secure" is the truth; what else can be said when a referral skips a zone is
`dns_trace_shared` and the third finding.  The depth of 4 exceeds the zones on the path, as the code's 12 exceeds
the labels a name may have.

`BlockList` never compares a time with anything but the clock, so `block_list`
has TLC tell states apart by ages (`VIEW Ages`), each up to the age from which no
action and no property sees a difference: a document's up to `Ttl`, a complete
sync's up to the bound of `CorpusAgeBounded` and one more, a probe's up to
`ProbeTtl`.  The search so ends by itself, with a clock far from `MaxClock`, and
covers histories of any length.  The lifetime of four intervals is the shortest
the module's assumption allows (the code's is sixty); the proofs are for every
value.

Time in `BlockList` counts hours.  Its `Tick` waits for a timer that is due and
for a sync that began in an earlier hour: Go's ticker is prompt, and a sync's
context ends it after five minutes.  A process that is down lets any time pass.

`caps` has both doors open in one behaviour because `main.run` gives the tools'
HTTP handlers and their MCP endpoint one Cap: a share is of both.  The queue's
protocol is checked inside `shutdown`, with the process that closes it, and
proved for itself.

`redirect_trace` needs three hops for a loop that skips one, a denied host for
the guard, and an odd chain's time so that the chain's clock and a hop's can each
be the first to run out.

`reports` draws its requests from sets that cross what an operator tells apart:
links with wrappers in wrappers up to six layers deep, two pairs and every option;
cache directives of every family in pairs; browsers that tell up to two lies;
SPF records that include each other past the limit, each read to the end, and cut short by
the deadline after none, one or two of them; results of nested objects and lists with hidden
characters in keys and values, two of them written alike; logos off centre; tokens signed by each key
over each algorithm and shown to each other; keys whose halves belong together
or not; a fan-out of three types of which each fails in its own way; zones whose
servers rotate, lag, refuse or are private.  Each state is one request and its
answer is the value of an operator: there is nothing to interleave.  `MCReports`
extends `Reports`, and its `Ask` has the guard `Request(ask')`: what TLC asks of
the headers, the score, the gate and the tokens is what the theorems speak of (no
request of these sets is outside it).  The
operators that a property names more than once take the report as an argument,
so that it is computed once.

`CHECK_DEADLOCK FALSE` stands in the configurations in which the system really
stops: a queue that is closed, a process that has exited, a trace that is done,
a request that is answered.

## 4. Fairness

- `Shutdown`: `run()`'s own steps, and a record call under way, which only has
  to release a read lock.  A sync is fair only if it obeys its context (`obeys`
  is chosen at the start).  Handlers, workers and the database have no fairness.
  That `Client.Disconnect` returns is assumed of the driver.
- `McpCall`: the middleware's steps, the deadline, and a tool that returns once
  its context is over.  Every tool passes its context to what it waits for
  (resolver, HTTP client, database); one that does not would break
  `EveryCallEnds` and nothing else.
- `DnsLookup`: the steps of a lookup, and an exchange that ends, which the
  `miekg/dns` client's timeout gives.
- `RedirectTrace`: the walk's own steps and its timers.  That a server answers is
  not assumed; a hop's timeout ends the wait.

## 5. Proofs

Assumptions are the named `ASSUME`s of the modules (the constants' types, that
slugs and generated codes are disjoint, that finite sets are finite), no more.
`Shutdown`'s is that `main` is among the callers of `Close`; there may be others.
Those of `Reports` say that `None` is not one of the values it stands beside
(`NoneIsNoValue`, `NoneIsNoReading`, `NoneIsNoAlgorithm`, `NoneIsNoKey`,
`NoneIsNoSettings`), that limits, presets and periods are numbers
(`LimitsAreNumbers`, `PresetsAreSeconds`, `KeyLimitsAreNumbers`,
`PeriodsAreNumbers`), that a crawler's networks are networks
(`CrawlersHaveNetworks`), and that what is in lower case stays as it is
(`LowerIsSettled`).

- `TypeCorrect`, `CoherentAlways`, `CacheStaysBounded`,
  `StoreImplementsRegister` (`LinkStoreProofs`).  `Coherent` says that the cache
  holds nothing the last acknowledged write replaced, *and* that no resolve is
  about to put such a value there.  It is not inductive alone: `CoherentInv` adds
  that the document is among the values its resolves may see (`Current`), and
  that no reader holds a generation ahead of the cache's (`Generations`,
  `IdleGenerations`): otherwise an invalidate could bring the generation up to a
  stale reader's.  The refinement also needs `Seen` (the view a resolve will be
  judged on is one it may be answered from) and `IndexHonest` (an insert that may
  still be applied meets the unique index); `RefinementInv` is their conjunction.
- `RequestLogNeverPanics` (`DrainQueueProofs`, `ShutdownProofs`).  The
  invariant is `LockDiscipline`: readers and a writer exclude each other, an
  admitted sender has seen the flag unset, only the Close that set the flag
  closes the channel.
- `HitsAlwaysKept`, `AlwaysDrainsBeforeClose` (`ShutdownProofs`), of the whole
  process.  `ProcessStep` shows each of its steps to be one of the request log or
  of the hit batcher, or to leave both alone, so the log's invariant carries over;
  `HitInv` is its counterpart for the batcher, over the same lemmas of the queue
  (`HQ`, an instance of `DrainQueueProofs` in the batcher's variables); `Stages`
  says that `run()` is past a stage only with that stage behind.
- `ProcessImplementsParts` (`ShutdownProofs`): hence a behaviour of the process,
  seen through the log's variables or the batcher's, is one of that part's own
  (safety only: each part's fairness is the process's to state).
- `PagesAskedOnce`, `DestinationIsReached` (`ReportProofs`).  `Walk` says
  that what was asked is in `seen`, and that the URL in hand is there exactly
  while it is being asked; `SendingOnIsNoted` that each way a page sends a browser
  on leaves a note.
- `EntryInOnePlace`, `DrainedLeavesNothing`: with `WriterInv`, what the writer
  knows, and the channel without repeats.
- `SyncsAlwaysStopOnSignal` (`ShutdownProofs`).  `SyncInv` says that a
  signal ends the syncs' context, and that after one `run()` is past its wait only
  with every sync that obeys gone.
- `SlotsAlwaysAccounted`, `SharesAlwaysKept`, `NoneRefusedForGood`,
  `OneClientNeverFillsIt`, `StatusAlwaysHonest` (`CapsProofs`).  The Cap's counters
  are sums, over the requests and messages in flight, of what each took, per
  client and in all: `Accounts` says so at both doors, and each action of either
  keeps it (`WebAccounts`, `McpAccounts`).  What a sum over a finite set does when a
  member comes, goes or changes is shown once, by induction on the size of the
  set; the refusals are then arithmetic over those sums.  `NoneRefusedForGood` and
  `OneClientNeverFillsIt` are of steps, from the same invariant.  The last has the
  hypothesis `Capacity > 1`: at a Cap of a single slot one client does fill it, and
  every Cap of the program has at least four.  `StatusInv` says of each
  stage of a message what may have happened to its context and its result by then.
- `AlwaysOneQuery`, `NewestAlwaysStays`, `TtlAlwaysCountsDown`,
  `NeverNeedlessQuery` (`DnsLookupProofs`).  The invariant says that a
  lookup's reading of the clock is behind the clock (`ClockInv`), that an entry is
  no newer than the clock (`EntryInv`), that what a lookup is about to store is no
  older than what it replaces, though others ran since it was stamped (`StampInv`:
  it leads its question's flight, so nobody else stored that answer), and what a
  lookup was shown of an entry (`ServedInv`).  `NoNeedlessQuery` is inductive
  because `raced` names the lookups that stood between cache and group when their
  answer was stored.  `NewestAlwaysStays` is of steps.  `Width` (the counter's, 2^32) exceeds every TTL
  and the clock, so that only a negative age wraps.
- `NothingListedEverExpires` (`BlockListProofs`).  `Current` says of an
  address that was in the last complete sync how long after its document was last
  written the next sync begins at the latest (`Delay`), and how far another
  document of the feed may be ahead of it (`Lead`), for a sync that failed half way
  leaves documents that look fresh.  Both margins
  grow with a sync that fails or is cut off by a restart and still fit into a lifetime
  of four intervals; after a second one in a row nothing is promised.
- `CorpusAgeAlwaysBounded`, `ProbesAlwaysListed` (`BlockListProofs`).  The first
  needs to know when each sync runs (`Timer`: a sleeping sync is never overdue, a
  running one began within the hour and its ticker is an interval ahead) and how
  old its corpus is then (`Corpus`: after a complete sync nothing is younger than
  that sync, whose next tick is an interval later or up to an hour less, which is
  what the slack is for; a restarted sync that sleeps has seen a young document).
  The second says that a probe's document exists until its date and has the date
  of the latest probe.
- `TraceKeepsToItsBudget`, `TraceDescends` (`DnsTraceProofs`).  `Budget` ties the
  queries that left to those charged.  `Place` says where a walk stands: while it
  asks a zone every hop is above that zone, while it goes down every hop is at or
  above the zone it leaves and the child is below it; after a hidden cut it never
  goes down again.  `Shaped` (a walk is a record of its fields) lets a lemma say
  once for each helper which fields it keeps.
- `VerdictAlwaysTrue`, `HealthyWalkAlwaysRight` (`DnsTraceProofs`), for any number
  of zones and servers and whatever they serve.  `VerdictIsTruth` speaks of the
  walk's end and is far from inductive: `Sense` says what the walk knows wherever
  it stands.  Each link of its chain is true of the world (`LinkTrue`: "secure"
  only of a signed zone below secure ones; "bogus" of the first zone that is broken,
  "insecure" from an unsigned or broken zone down, "indeterminate" only after a
  loss), the parent's word in hand is (`Word`), a reply in hand is its speaker's
  and lacks signatures only if they were lost (`Speaks`), and the servers still to
  ask are among the zone's own (`Of`).  Every helper of the walk keeps `Sense`, each
  by a lemma of its own; `StatusTrue` and `FetchTrue`, the two that matter, show
  that `validateZone` and `fetchDS` make true links of true replies.  At the end
  the first link that is not secure decides, as it does in `Truth`
  (`TruthOfFirst`).  For a world that is not `Plain` the same invariant carries
  only the "secure" half, which is all the code keeps there.
- `NothingIsLeftUnsaid` (`ReportProofs`).  `Saying` says
  which notes the hops so far have left, and that a trace in flight has met no
  error yet.
- `OnlyTheHolderEnters`, `HeadersAlwaysFair`, `ScoreAlwaysFair`,
  `VerdictsAlwaysSound`, `KeysAlwaysWhole` (`ReportProofs`), of `Reporting`, for every request.  A
  report is one step, so the invariant is `Asked`, that what was answered was a
  request; what carries the weight is a lemma for each operator.
  * The gate: an endpoint past the owner's is reached only with the key, by any of
    the ways it is read (`GateIsKept`); a result's
    values are reached by paths, so that keys, objects and lists of any depth are
    cleaned alike (`CleanType`, `NodesAreClean`), and of two values under keys that
    are written the same the map keeps one, whose lists leave whole (`PathsPart`,
    `SurvivorsLeave`, `ResultIsKept`).
  * Headers: an edge's own header overrules when it gives a lifetime; where no
    header is meant for edges, private and no-store leave them none (`EdgeIsHonest`); each security note has
    a cause in the head (`NotesOfAPage`, `NotesOfAResponse`, `NotesOfACookie`);
    a paste is its last answer, by induction along its lines (`ReadingIs`).
  * The score: a collector's silence raises nothing (`OldPayloadIsKept`), and a
    fact seen by several rules is weighed once, since what remains after the
    soft cluster and the duplicates are dropped is a set with at most one member
    a fact (`OncePerFact`, `WeightsAdd`).
  * Tokens: "valid" names a key that was pasted, that fits the algorithm and
    signed the bytes shown (`ValidBy`, `VerdictIsKept`); what was signed decodes
    and verifies under the key it was signed with, except where `SignedVerifies`
    says the code does not (`OneKeyVerifies`, `SignedIsKept`); a DPoP proof is
    accepted for the request, token and moment it was made for and for no other
    (`ProofAccepted`, `AddressesAgree`, `ProofIsKept`); a PKCE challenge and a MAC
    hold for their own (`PkceIsKept`, `MacIsKept`).
  * Keys: what is read of a JWK, a block or a line is a key whose halves belong
    together (`MembersFit`, `HalvesFit`, `JwkReads`, `PemReads`, `SshReads`); what
    `PublicJWK` and `PrivateJWK` write spells that key (`PublicSpells`,
    `PrivateSpells`), and labels neither hide it nor change its thumbprint
    (`TitledSpells`), so that it reads back (`ReadsPublic`, `ReadsPrivate`,
    `KeyShown`).  Two keys are excepted: one with an exponent that a JWK may not
    have is shown in a JWK that reads as no key, never as another one (`ReadsNone`,
    `WroteIs`), and one of more than two primes has no private JWK.  `PlacesInOrder` counts the places a filter keeps.
  * One-time codes: the codes around a moment are of its period and the next to it
    (`PeriodOf`, `CodesShown`, `CodeIsKept`); a label is cut where it was joined,
    for what is escaped has no colon (`EscapedBack`, `TrimmedIs`, `LabelOfOne`,
    `LabelOfBoth`, `UriIsKept`).

  The folds of the community modules are recursive functions, which `CHOOSE`
  picks: `FoldSolved` and `SumSolved` show once that there is one to pick, from the
  well-foundedness of the naturals.

Only model-checked: the liveness properties (`NothingHangs`, `EveryCallEnds`,
`EveryLookupReturns`, `TraceEnds`), which are out of this prover's reach, and the
promises of the other reports: `CleanHolds`, `MailHolds` and `AnswersHold`.  The
operators of the first two recurse through their data (a wrapper in a wrapper, an
SPF record that includes another), and what they say of it is an induction over it;
those of `AnswersHold` do not, and its proof is still to be written.  The provers
cannot instantiate the library's induction theorems, which take an operator; where
a proof here needs an induction (the sums of `CapsProofs`, `Within` in
`DnsTraceProofs`) it takes the least counterexample of a set of numbers, from the
well-foundedness of the naturals, and the recursion is a function.  The type
invariants are parts of the inductive invariants where there are proofs.

## 6. Findings

- **A failed write may have changed the link** (`link_store_reply`).  A driver
  error of an insert or update is answered "Nothing was changed."  A timeout or a
  lost reply does not mean that: in the run the caller is told so, no process
  crashes, and the server applies the write afterwards.
- **A bind failure closes the client under the syncs** (`shutdown_bind`).  The
  comment at `main.go:88` says the syncs must stop before `mdb.Close`; on that
  path they are waited for before their context is cancelled, so the bounded wait
  runs out while they write.
- **A referral that skips a zone reads as bogus** (`dns_trace_shared`).  The docs
  allow "bogus" only on evidence against the zone.  When a server serves a zone
  and the one below it, its referral to a third zone skips the middle one; the DS
  record it then hands out is signed by the middle zone, and `fetchDS` checks it
  under the keys of the upper one.  `run` looks for such a hidden cut in
  authoritative answers (`traceAnswerZone`) and not before a referral's DS.

Seen while modelling, within what the code promises or beyond what a run here
checks:

- Links: "Output equals Input byte for byte when nothing was removed"
  (`clean.go:38`) does not hold with sorting or unwrapping; `matchRegistrable`
  looks at a host's first match only.  A cleaned link can be cleaned again to another
  one where the first pass moved what a wrapper reads (`Untouched`):
  `https://href.li/?fbclid=1&https://example.org/` loses its tracker and only then is a
  wrapped link, for href.li's target is its whole query.
- Redirects: `metaRefresh` stops at `<body>`, and `jsRedirect` knows a list of forms
  (a bare `location = ...` is not one), so a page that sends a browser on by another is
  named as the destination; and a mention of a listed form, in a handler nobody
  clicked, counts as a redirect, as `trace.go:614` intends.
- MCP results: two keys of an object that are written alike once cleaned become one,
  and which value stays is the order of Go's map.
- Headers: with `Surrogate-Control` and no edge control, `private` or `no-store`
  beside `s-maxage` gives the edge the `s-maxage`; `isolation` reads the opener
  policy by its prefix.
- Mail: an SPF verdict does not look at `Truncated`: a chain that the deadline cut short
  may pass, marked as truncated (one cut at 15 includes is over the limit of ten), and an
  include that was not reached in time counts as void (`SPFPassIsSound` says both); a lookup that failed reads as a record that is absent; the climb
  for a DMARC policy is four names; the bitmask blacklists do not ask for an
  answer in 127/8; the fix of a logo may push it over 32 KB.
- Tokens and keys: "decoded and verified back with the same key" (`jwt.go:528`)
  fails for a key set with two fitting keys and a kid of neither, for a JWK of
  another algorithm, and for a header with `crit`; an `oct` JWK without `k` is an
  empty secret; an RSA JWK without `n` is read and cannot be shown, nor can an EC
  key of P-224; a block's RSA key with an exponent of one, two or beyond 2^31 - 1 is shown as a JWK
  that `keyFromJWK` refuses; a quoted
  `"Bearer x"` keeps its prefix; with no issuer an account with ":" does not read
  back (`totp.go:237`).
- DNS: the singleflight leader's context decides for the waiters too; a lookup
  that missed the cache just before a flight stored its answer asks again; an entry stored a
  second or more after the reader took its time has a negative age, whose
  conversion to `uint32` makes the shown TTL zero.  An alias of a missing name is
  "no such name" when one type is asked.  The probe of an alias target is read without
  the care taken of the types: a filter's NXDOMAIN lists a live target as dangling
  (`dns.go:399`, against `dns.go:355`), and a lost probe hides one that is gone.  The serials of all providers count as a
  rotation.  A server delegated a zone and the zone below it, but serving only the lower,
  answers the DS question with that zone's own "no data", and the walk calls a
  signed name insecure: an absent DS is the server's word, nothing proves it.  A lookup of servers lost below a found zone leaves the walk with the
  parent's, which are then lame.  `maxZoneWalk` is 8 and a name may have 10
  labels.  "Every nameserver sits in the same network" is said too when the
  networks of the others are not known.
- Feeds: one that stops giving an address a count leaves the old count in its
  document, as `blocklistUpdate` sets only what is not zero.

## 7. What is abstracted, and what is left out

Codes, targets, addresses and names are model values; wording and logging are
left out.  Mongo, the resolver, the rate limiter's buckets, the tools behind the
MCP middleware, servers and nameservers are external and may do anything the code
has to expect of them.  The history variables `may` and `reads` of `LinkStore`
guard nothing, nor do `since`, `done`, `misses`, `steady` and `probed` of
`BlockList`, `raced` of `DnsLookup`, `sent` and `unheard` of `DnsTrace`, `got` and `unread` of
`RedirectTrace`.

`BlockList` leaves out the parsing of the feeds, a bulk write or a probe's upsert
that is applied after its reply was lost, the duplicates a missing unique index
would allow (each would still be found and still expire), and `Upsert` by other
services; that an index is missing is the case in which `Expire` is never taken.
`Shutdown` keeps its own coarser sync, a writer that may or may not obey.
`DnsTrace` reads what records say off the world (how each zone is signed), so
digests, algorithms, validity periods and the cap on keys are data; a reply is who
speaks and whether signatures came along, and a path may strip all of them but
forges nothing.  The rotation of servers is the order of `Delegates`, a retry over
TCP is part of its query, an address no referral carries is `Glueless`; the notes
are left out.  In `RedirectTrace` a body is whether it was read and how it sends a
browser on.

In the report modules cryptography is symbolic (a signature is the record of what
went into it), numbers are how long they are and whose, tables (rules, wrappers,
weights, blacklists) are given by the instance or cut to one row of each kind,
and parsing has happened: what a parser refuses is a value of its own where the
code goes on.  An RSA exponent is any number but
zero, and `MaxExponent` stands for the 2^31 - 1 of `keyFromJWK` (TLC's integers end
there, so `reports` has a smaller one, with exponents on both sides of it and of
three); `ManyPrimes` are the moduli of more than two primes.  A JSON object is a
function from the paths of its values to their texts, and an empty object or list in it
is left out.  The decoders that look for a link in the text of a whole URL
(`urldefense`) are taken as wrappers that read a parameter or the path.  `DnsAsks` asks for
distinct types.

Not modelled, and why:

- Wiring before the process listens; the console; validation of slugs, targets
  and notes: checks of one value, with no state.
- Passwords, certificates, identification and encodings of `ciphertools`: a
  function of one input each, most of it the standard library's; what is shared,
  the memory cost, is in `HandlerCap`.
- Inspection, diff, curl and extraction of links: text in, text out.
- The client-subnet check and the domain report: a join of what third parties say.
- IP lookup and statistics: reads of local databases.
- Routing, rendering, static files, site, blog, catalogue: read-only after boot.
- The mail lists' stores: only the decision to replace a list is modelled.

## 8. Plan

What would add most next: `DnsLookup` with the contexts of its callers, so that a
leader who hangs up is a step; the mail lists' replacement under readers as a
state machine; the probe statistics' cache; certificates and password hashes as
reports.  Proofs wanted: what the remaining reports promise for every input, first
`AnswersHold`, which needs its lists written as functions, then mail and cleaning,
which need an order on their nested data.
