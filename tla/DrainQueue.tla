---------------------------- MODULE DrainQueue ----------------------------
(***************************************************************************)
(* The bounded queue that RequestLog (platform) and hitBatcher (linktools) *)
(* put between a request and the database, with the protocol both follow   *)
(* at shutdown.  A sender takes the read lock, looks at closed, and sends  *)
(* or drops; Close sets closed and closes the channel under the write      *)
(* lock, then waits, for a bounded time, for the worker to be done.  Go    *)
(* panics on a send to a closed channel, full or not, and on a second      *)
(* close.  The lock is sync.RWMutex: a writer that waits keeps new readers *)
(* out.  The worker belongs to the modules that extend this one.           *)
(***************************************************************************)
EXTENDS Integers, Sequences, FiniteSets

CONSTANTS Items,       \* what is sent, each by a goroutine of its own
          Closers,     \* callers of Close
          Capacity,    \* requestLogBuffer, hitQueueSize
          CloserWaits  \* a second Close waits too (hitBatcher's sync.Once), or returns at once

ASSUME QueueAssumption ==
    Capacity \in Nat \ {0} /\ CloserWaits \in BOOLEAN /\ Items \cap Closers = {}

VARIABLES sender,   \* where each sender is
          closer,   \* where each caller of Close is
          ch,       \* the channel's buffer
          closed,   \* the flag under the lock
          shut,     \* the channel is closed
          panicked, \* a goroutine sent on, or closed, a closed channel
          done      \* the worker closed its done channel

queue == <<sender, closer, ch, closed, shut, panicked, done>>

QueueInit ==
    /\ sender = [i \in Items |-> "new"]
    /\ closer = [c \in Closers |-> "new"]
    /\ ch = <<>>
    /\ closed = FALSE /\ shut = FALSE /\ panicked = FALSE /\ done = FALSE

\* Who holds the lock, and who holds new readers out.
ReadLocked(i)  == sender[i] \in {"locked", "open"}
WriteLocked(c) == closer[c] \in {"locked", "flagged"}

Call(i) ==
    /\ sender[i] = "new"
    /\ sender' = [sender EXCEPT ![i] = "call"]
    /\ UNCHANGED <<closer, ch, closed, shut, panicked, done>>

RLock(i) ==
    /\ sender[i] = "call"
    /\ \A c \in Closers : ~WriteLocked(c) /\ closer[c] # "lock"
    /\ sender' = [sender EXCEPT ![i] = "locked"]
    /\ UNCHANGED <<closer, ch, closed, shut, panicked, done>>

CheckClosed(i) ==
    /\ sender[i] = "locked"
    /\ sender' = [sender EXCEPT ![i] = IF closed THEN "out" ELSE "open"]
    /\ UNCHANGED <<closer, ch, closed, shut, panicked, done>>

\* select { case ch <- item: default: }, then the deferred RUnlock.
Send(i) ==
    /\ sender[i] = "open"
    /\ \/ /\ shut
          /\ panicked' = TRUE
          /\ sender' = [sender EXCEPT ![i] = "out"]
          /\ ch' = ch
       \/ /\ ~shut /\ Len(ch) < Capacity
          /\ sender' = [sender EXCEPT ![i] = "in"]
          /\ ch' = Append(ch, i)
          /\ UNCHANGED panicked
       \/ /\ ~shut /\ Len(ch) >= Capacity
          /\ sender' = [sender EXCEPT ![i] = "out"]
          /\ UNCHANGED <<ch, panicked>>
    /\ UNCHANGED <<closer, closed, shut, done>>

BeginClose(c) ==
    /\ closer[c] = "new"
    /\ closer' = [closer EXCEPT ![c] = "lock"]
    /\ UNCHANGED <<sender, ch, closed, shut, panicked, done>>

\* Mutant: Close does not take the lock.
LockNot(c) ==
    /\ closer[c] = "lock"
    /\ closer' = [closer EXCEPT ![c] = "locked"]
    /\ UNCHANGED <<sender, ch, closed, shut, panicked, done>>

Lock(c) ==
    /\ closer[c] = "lock"
    /\ \A i \in Items : ~ReadLocked(i)
    /\ \A d \in Closers : ~WriteLocked(d)
    /\ closer' = [closer EXCEPT ![c] = "locked"]
    /\ UNCHANGED <<sender, ch, closed, shut, panicked, done>>

\* The first Close sets the flag; a later one finds it set and unlocks.
SetClosed(c) ==
    /\ closer[c] = "locked"
    /\ closed' = TRUE
    /\ closer' = [closer EXCEPT ![c] =
          IF ~closed THEN "flagged" ELSE IF CloserWaits THEN "waiting" ELSE "returned"]
    /\ UNCHANGED <<sender, ch, shut, panicked, done>>

CloseChannel(c) ==
    /\ closer[c] = "flagged"
    /\ shut' = TRUE
    /\ panicked' = (panicked \/ shut)
    /\ closer' = [closer EXCEPT ![c] = "waiting"]
    /\ UNCHANGED <<sender, ch, closed, done>>

Drained(c) ==
    /\ closer[c] = "waiting" /\ done
    /\ closer' = [closer EXCEPT ![c] = "drained"]
    /\ UNCHANGED <<sender, ch, closed, shut, panicked, done>>

\* Mutant: Close waits for the worker, however long that takes.
GiveUpNever(c) ==
    /\ closer[c] = "waiting" /\ done
    /\ closer' = [closer EXCEPT ![c] = "gave up"]
    /\ UNCHANGED <<sender, ch, closed, shut, panicked, done>>

\* The bound on the wait passed first.
GiveUp(c) ==
    /\ closer[c] = "waiting"
    /\ closer' = [closer EXCEPT ![c] = "gave up"]
    /\ UNCHANGED <<sender, ch, closed, shut, panicked, done>>

\* The worker's side: take the next item, or leave once the channel is closed and empty.
Receive(i) ==
    /\ ~done /\ ch # <<>> /\ i = Head(ch)
    /\ ch' = Tail(ch)
    /\ UNCHANGED <<sender, closer, closed, shut, panicked, done>>

Finished == shut /\ ch = <<>>

Leave ==
    /\ ~done /\ done' = TRUE
    /\ UNCHANGED <<sender, closer, ch, closed, shut, panicked>>

Sending(i) == RLock(i) \/ CheckClosed(i) \/ Send(i)
Closing(c) == Lock(c) \/ SetClosed(c) \/ CloseChannel(c) \/ Drained(c) \/ GiveUp(c)

QueueStep ==
    \/ \E i \in Items : Call(i) \/ Sending(i)
    \/ \E c \in Closers : BeginClose(c) \/ Closing(c)

QueueTypeOK ==
    /\ sender \in [Items -> {"new", "call", "locked", "open", "in", "out"}]
    /\ closer \in [Closers -> {"new", "lock", "locked", "flagged", "waiting",
                               "returned", "drained", "gave up"}]
    /\ ch \in Seq(Items)
    /\ closed \in BOOLEAN /\ shut \in BOOLEAN /\ panicked \in BOOLEAN /\ done \in BOOLEAN

\* Why no send meets a closed channel: readers and the writer exclude each
\* other, the flag is set before the channel closes, and one Close sets it.
LockDiscipline ==
    /\ \A i \in Items : ReadLocked(i) => \A c \in Closers : ~WriteLocked(c)
    /\ \A c, d \in Closers : WriteLocked(c) /\ WriteLocked(d) => c = d
    /\ \A i \in Items : sender[i] = "open" => ~closed
    /\ \A c \in Closers : closer[c] = "flagged" => closed /\ ~shut
    /\ shut => closed
    /\ ~panicked

\* Item i is in the channel; no item is there twice.
Waiting(i) == \E n \in 1..Len(ch) : ch[n] = i
NoRepeats == \A m, n \in 1..Len(ch) : ch[m] = ch[n] => m = n

\* No request panics because it records while the process closes the queue,
\* however the senders and the callers of Close interleave (requestlog.go:39).
NoPanic == ~panicked

===========================================================================
