---------------------------- MODULE HitBatcher ----------------------------
(***************************************************************************)
(* linktools.hitBatcher: redirects record hits, one goroutine gathers them *)
(* and writes one unordered bulk update at every tick and once more when   *)
(* the queue is closed.  An update the server did not apply is not retried.*)
(* Items are hits, each its own, so that a hit counted twice shows.        *)
(***************************************************************************)
EXTENDS DrainQueue

VARIABLES pending, \* hits gathered since the last flush
          flushed, \* flushed[i]: how often hit i was part of a bulk write
          counted  \* hits the server added to a link's counter

batchVars == <<pending, flushed, counted>>
vars == <<queue, batchVars>>

Init ==
    /\ QueueInit
    /\ pending = {} /\ counted = {}
    /\ flushed = [i \in Items |-> 0]

Gather(i) ==
    /\ Receive(i)
    /\ pending' = pending \cup {i}
    /\ UNCHANGED <<flushed, counted>>

\* Unordered: any of the updates may have been applied when the call returns.
\* A flush of nothing sends nothing.
BulkWrite ==
    /\ flushed' = [i \in Items |-> IF i \in pending THEN flushed[i] + 1 ELSE flushed[i]]
    /\ \E applied \in SUBSET pending : counted' = counted \cup applied

\* Mutant: what was pending stays pending after a flush.
TickKeeps ==
    /\ ~done /\ pending # {} /\ \A i \in pending : flushed[i] < 2
    /\ BulkWrite
    /\ UNCHANGED <<queue, pending>>

Tick ==
    /\ ~done /\ pending # {}
    /\ BulkWrite
    /\ pending' = {}
    /\ UNCHANGED queue

\* The closed channel is empty: flush and leave.
Exit ==
    /\ Finished
    /\ BulkWrite
    /\ pending' = {}
    /\ Leave

Batcher == (\E i \in Items : Gather(i)) \/ Tick \/ Exit

Next == (QueueStep /\ UNCHANGED batchVars) \/ Batcher

Spec == Init /\ [][Next]_vars

TypeOK ==
    /\ QueueTypeOK
    /\ pending \subseteq Items /\ counted \subseteq Items
    /\ flushed \in [Items -> Nat]

\* A hit is waiting, gathered or written, once: batching never counts one
\* redirect twice, and never one that was dropped.
HitInOnePlace ==
    /\ NoRepeats
    /\ \A i \in Items :
        /\ flushed[i] \in {0, 1}
        /\ (Waiting(i) \/ i \in pending) => flushed[i] = 0
        /\ ~(Waiting(i) /\ i \in pending)
        /\ sender[i] = "in" <=> Waiting(i) \/ i \in pending \/ flushed[i] = 1
    /\ \A i \in counted : flushed[i] = 1

===========================================================================
