----------------------------- MODULE Shutdown -----------------------------
(***************************************************************************)
(* main.run: requests feed the hit batcher and the request log, the feed   *)
(* syncs write the blocklist, and the deferred calls take them down in the *)
(* reverse of the order they were set up.  Every wait is bounded, so each  *)
(* stage can be reached with the one before unfinished.  Composes          *)
(* RequestLog and HitBatcher over one Mongo client.                        *)
(***************************************************************************)
EXTENDS RequestLog

CONSTANT Syncs

\* run() closes the two queues.  The queues allow for other callers of Close; in
\* the process there are none: no action below is one of theirs.
ASSUME ShutdownAssumption == "main" \in Closers

VARIABLES
    main,    \* what run() is doing
    ctx,     \* the signal context: "live", "cancelled"
    client,  \* the Mongo client: "open", "closed"
    signalled, \* the shutdown began with a signal, not with a bind failure
    obeys,   \* the syncs return soon after their context is cancelled
    sync,    \* each feed sync: "waiting" for its ticker, "writing", "stopped"
    hsender, hcloser, hch, hclosed, hshut, hpanicked, hdone, pending, flushed, counted

\* Items are requests; the request log has the variables of its module.
Hits == INSTANCE HitBatcher WITH
    CloserWaits <- TRUE,
    sender <- hsender, closer <- hcloser, ch <- hch, closed <- hclosed, shut <- hshut,
    panicked <- hpanicked, done <- hdone

logVars == <<queue, writerVars>>
hitVars == <<hsender, hcloser, hch, hclosed, hshut, hpanicked, hdone, pending, flushed, counted>>
own == <<main, ctx, client, signalled, obeys, sync>>
processVars == <<own, logVars, hitVars>>

ProcessInit ==
    /\ main = "starting" /\ ctx = "live" /\ client = "open"
    /\ signalled = FALSE /\ obeys \in BOOLEAN
    /\ sync = [s \in Syncs |-> "waiting"]
    /\ Init /\ Hits!Init

Running == main # "exited"

Go(from, to) == main = from /\ main' = to

-----------------------------------------------------------------------------
(* Requests: the redirect handler records a hit, the logger records it.    *)

\* A request starts while the server listens and may outlive its graceful stop.
Arrive(r) ==
    /\ main = "serving" /\ Hits!Call(r)
    /\ UNCHANGED <<own, pending, flushed, counted, logVars>>

RecordHit(r) ==
    /\ Hits!Sending(r)
    /\ UNCHANGED <<own, pending, flushed, counted, logVars>>

\* The handler is done; the logging middleware records the request.
Answer(r) ==
    /\ hsender[r] \in {"in", "out"} /\ Call(r)
    /\ UNCHANGED <<own, writerVars, hitVars>>

Record(r) ==
    /\ Sending(r)
    /\ UNCHANGED <<own, writerVars, hitVars>>

\* With the client closed an operation fails at once.
WriterStep ==
    /\ Writer
    /\ client = "closed" => UNCHANGED <<stored, flagged>>
    /\ UNCHANGED <<own, hitVars>>

BatcherStep ==
    /\ Hits!Batcher
    /\ client = "closed" => UNCHANGED counted
    /\ UNCHANGED <<own, logVars>>

SyncStep(s) ==
    /\ \/ sync[s] = "waiting" /\ ctx = "live" /\ sync' = [sync EXCEPT ![s] = "writing"]
       \/ sync[s] = "writing" /\ sync' = [sync EXCEPT ![s] = "waiting"]
       \/ sync[s] = "waiting" /\ ctx = "cancelled" /\ sync' = [sync EXCEPT ![s] = "stopped"]
    /\ UNCHANGED <<main, ctx, client, signalled, obeys, logVars, hitVars>>

-----------------------------------------------------------------------------
(* run(): listen, then the deferred calls, last in first out.              *)

Listen ==
    /\ Go("starting", "serving")
    /\ UNCHANGED <<ctx, client, signalled, obeys, sync, logVars, hitVars>>

\* sc.Start returns an error; nobody has cancelled ctx.
BindFails ==
    /\ Go("starting", "wait syncs")
    /\ UNCHANGED <<ctx, client, signalled, obeys, sync, logVars, hitVars>>

Signal ==
    /\ Go("serving", "graceful")
    /\ ctx' = "cancelled" /\ signalled' = TRUE
    /\ UNCHANGED <<client, obeys, sync, logVars, hitVars>>

\* The requests in flight are answered, or GracefulTimeout passes.
Served ==
    /\ Go("graceful", "wait syncs")
    /\ UNCHANGED <<ctx, client, signalled, obeys, sync, logVars, hitVars>>

AllStopped == \A s \in Syncs : sync[s] = "stopped"

\* Mutant: the wait for the syncs is forgotten.
SyncsNotWaited ==
    /\ Go("wait syncs", "stop")
    /\ UNCHANGED <<ctx, client, signalled, obeys, sync, logVars, hitVars>>

\* waitBounded: the syncs are done, or five seconds pass.  A sync that obeys
\* its context needs less once it is cancelled.
SyncsWaited ==
    /\ Go("wait syncs", "stop")
    /\ AllStopped \/ ctx = "live" \/ ~obeys
    /\ UNCHANGED <<ctx, client, signalled, obeys, sync, logVars, hitVars>>

Stop ==
    /\ Go("stop", "close log")
    /\ ctx' = "cancelled"
    /\ UNCHANGED <<client, signalled, obeys, sync, logVars, hitVars>>

LogClosed == closer["main"] \in {"drained", "gave up"}
HitsClosed == hcloser["main"] \in {"drained", "gave up"}

CloseLog ==
    /\ main = "close log"
    /\ \/ /\ BeginClose("main") \/ Closing("main")
          /\ UNCHANGED <<main, writerVars>>
       \/ LogClosed /\ main' = "close hits" /\ UNCHANGED logVars
    /\ UNCHANGED <<ctx, client, signalled, obeys, sync, hitVars>>

\* Mutant: the client closes before the hits are drained.
CloseHitsAfterClient ==
    /\ main = "close hits" /\ main' = "disconnect"
    /\ UNCHANGED <<ctx, client, signalled, obeys, sync, hitVars, logVars>>

CloseHits ==
    /\ main = "close hits"
    /\ \/ /\ Hits!BeginClose("main") \/ Hits!Closing("main")
          /\ UNCHANGED <<main, pending, flushed, counted>>
       \/ HitsClosed /\ main' = "disconnect" /\ UNCHANGED hitVars
    /\ UNCHANGED <<ctx, client, signalled, obeys, sync, logVars>>

Disconnect ==
    /\ Go("disconnect", "exit")
    /\ client' = "closed"
    /\ UNCHANGED <<ctx, signalled, obeys, sync, logVars, hitVars>>

ExitProcess ==
    /\ Go("exit", "exited")
    /\ UNCHANGED <<ctx, client, signalled, obeys, sync, logVars, hitVars>>

Teardown == Served \/ SyncsWaited \/ Stop \/ CloseLog \/ CloseHits \/ Disconnect \/ ExitProcess

ProcessNext ==
    /\ Running
    /\ \/ Listen \/ BindFails \/ Signal \/ Teardown
       \/ WriterStep \/ BatcherStep
       \/ \E r \in Items : Arrive(r) \/ RecordHit(r) \/ Answer(r) \/ Record(r)
       \/ \E s \in Syncs : SyncStep(s)

\* run() goes on, a record call under way gets to release the lock, and a sync
\* that obeys its context stops.  The database may hang and a handler never end.
Fairness ==
    /\ WF_processVars(Running /\ Teardown)
    /\ \A r \in Items : WF_processVars(Running /\ RecordHit(r)) /\ WF_processVars(Running /\ Record(r))
    /\ \A s \in Syncs : WF_processVars(Running /\ obeys /\ ctx = "cancelled" /\ SyncStep(s))

ProcessSpec == ProcessInit /\ [][ProcessNext]_processVars /\ Fairness

ProcessTypeOK ==
    /\ main \in {"starting", "serving", "graceful", "wait syncs", "stop", "close log",
                 "close hits", "disconnect", "exit", "exited"}
    /\ ctx \in {"live", "cancelled"} /\ client \in {"open", "closed"}
    /\ signalled \in BOOLEAN /\ obeys \in BOOLEAN
    /\ sync \in [Syncs -> {"waiting", "writing", "stopped"}]
    /\ TypeOK /\ Hits!TypeOK

\* "LIFO: reqlog and the hit batcher (below) drain before the client closes"
\* (main.go:54): unless a drain ran out of time, every entry and every hit that
\* was taken has been sent to the database before the client closes, requests
\* still running at the end of the graceful wait included.
DrainsBeforeClose ==
    client = "closed" =>
        /\ closer["main"] # "gave up" => \A r \in Items : sender[r] = "in" => tried[r] = 1
        /\ hcloser["main"] # "gave up" => \A r \in Items : hsender[r] = "in" => flushed[r] = 1

\* After a signal, syncs that obey their context no longer write when the
\* client closes.
SyncsStopOnSignal ==
    signalled /\ obeys /\ client = "closed" => AllStopped

Recording(r) == hsender[r] \notin {"new", "in", "out"} \/ sender[r] \notin {"new", "in", "out"}

\* Once the process begins to stop it exits, though the database hangs, a sync
\* ignores its context and a request never ends (main.go:81, 100, 219); and
\* while it runs no request waits for a queue, full or closing, whatever the
\* database does (requestlog.go:63, resolvecache.go:112).
NothingHangs ==
    /\ main \in {"graceful", "wait syncs"} ~> main = "exited"
    /\ \A r \in Items : Recording(r) ~> ~Recording(r) \/ ~Running

\* The hits too, inside the process that takes them down: each is waiting,
\* gathered or written once, though requests outlive the graceful wait, and no
\* request panics because it records one (resolvecache.go:122, 142).
HitsKept == Hits!NoPanic /\ Hits!HitInOnePlace

\* "The syncs need this to stop before mdb.Close: freshness is max(updated_at),
\* so a half-written corpus looks fresh" (main.go:88).  Checked of syncs that
\* return as soon as their context is cancelled.
SyncsStopBeforeClose ==
    obeys /\ client = "closed" => \A s \in Syncs : sync[s] # "writing"
===========================================================================
