---------------------------- MODULE RequestLog ----------------------------
(***************************************************************************)
(* platform.RequestLog: requests record entries, one writer goroutine      *)
(* inserts them one at a time and hands the probes to the blocklist within *)
(* the same five seconds, and Close drains what is queued.                 *)
(***************************************************************************)
EXTENDS DrainQueue

CONSTANTS Probes,  \* the entries IsProbe marked
          NoItem

ASSUME LogAssumption == Probes \subseteq Items /\ NoItem \notin Items

VARIABLES at,      \* what the writer is doing: "receive", "insert", "probe", "expired"
          current, \* the entry it holds
          tried,   \* tried[i]: how often entry i was inserted
          stored,  \* entries in request_logs
          flagged  \* probes on the blocklist

writerVars == <<at, current, tried, stored, flagged>>
vars == <<queue, writerVars>>

Init ==
    /\ QueueInit
    /\ at = "receive" /\ current = NoItem
    /\ tried = [i \in Items |-> 0]
    /\ stored = {} /\ flagged = {}

Take(i) ==
    /\ at = "receive"
    /\ Receive(i)
    /\ at' = "insert" /\ current' = i
    /\ UNCHANGED <<tried, stored, flagged>>

\* Mutant: a failed insert is tried again.
InsertAgain ==
    /\ at = "insert"
    /\ tried' = [tried EXCEPT ![current] = @ + 1] /\ tried[current] < 2
    /\ stored' \in {stored, stored \cup {current}}
    /\ at' \in {"insert", "receive"}
    /\ current' = IF at' = "insert" THEN current ELSE NoItem
    /\ UNCHANGED <<queue, flagged>>

\* InsertOne answers or its context runs out; stored or not, either way, since
\* the error is discarded.  A probe keeps what is left of the context.
Insert ==
    /\ at = "insert"
    /\ tried' = [tried EXCEPT ![current] = @ + 1]
    /\ stored' \in {stored, stored \cup {current}}
    /\ IF current \in Probes
       THEN at' \in {"probe", "expired"} /\ UNCHANGED current
       ELSE at' = "receive" /\ current' = NoItem
    /\ UNCHANGED <<queue, flagged>>

\* onProbe: with the context expired nothing can be written.
FlagProbe ==
    /\ at \in {"probe", "expired"}
    /\ flagged' \in (IF at = "probe" THEN {flagged, flagged \cup {current}} ELSE {flagged})
    /\ at' = "receive" /\ current' = NoItem
    /\ UNCHANGED <<queue, tried, stored>>

Exit ==
    /\ at = "receive" /\ Finished
    /\ Leave
    /\ UNCHANGED writerVars

Writer == (\E i \in Items : Take(i)) \/ Insert \/ FlagProbe \/ Exit

Next == (QueueStep /\ UNCHANGED writerVars) \/ Writer

Spec == Init /\ [][Next]_vars

TypeOK ==
    /\ QueueTypeOK
    /\ at \in {"receive", "insert", "probe", "expired"}
    /\ current \in Items \cup {NoItem}
    /\ tried \in [Items -> Nat]
    /\ stored \subseteq Items /\ flagged \subseteq Probes

\* What the writer knows: it holds an entry exactly while it works on one, it
\* probes only probes, and it is done only once the channel is closed and empty.
WriterInv ==
    /\ at = "receive" <=> current = NoItem
    /\ at \in {"probe", "expired"} => current \in Probes
    /\ done => Finished /\ at = "receive"
    /\ \A c \in Closers : closer[c] = "drained" => done

Holds(i) == current = i /\ at = "insert"

\* Every entry the queue took is in exactly one place: waiting in the channel,
\* in the writer's hands, or inserted once.  No other was ever inserted.
InOnePlace ==
    /\ NoRepeats
    /\ \A i \in Items :
        /\ tried[i] \in {0, 1}
        /\ (Waiting(i) \/ Holds(i)) => tried[i] = 0
        /\ ~(Waiting(i) /\ Holds(i))
        /\ sender[i] = "in" <=> Waiting(i) \/ Holds(i) \/ tried[i] = 1

\* When Close says the queue is drained, every entry that was taken has been
\* sent to the database (requestlog.go:92).
DrainedMeansTried ==
    (\E c \in Closers : closer[c] = "drained") =>
        \A i \in Items : sender[i] = "in" => tried[i] = 1
===========================================================================
