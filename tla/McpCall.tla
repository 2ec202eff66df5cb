------------------------------ MODULE McpCall ------------------------------
(***************************************************************************)
(* mcptools' middleware around one MCP message: rate limit, slot of the    *)
(* tool's Cap, the tool under a deadline and under the client's            *)
(* connection, the answer, the record.  A protocol message (initialize,    *)
(* tools/list) has neither limiter nor Cap.  Deferred calls run last first:*)
(* the slot goes back before the record is written, also when the tool     *)
(* panics.  The tool, the SDK and the rate limiter's buckets are external: *)
(* any outcome.  What the message carries is left out.                     *)
(***************************************************************************)
EXTENDS Cap

CONSTANTS Calls, Specs  \* messages in progress; Specs \subseteq {"tool", "protocol"}

ASSUME CallsAssumption == IsFiniteSet(Calls) /\ Specs \subseteq {"tool", "protocol"}

VARIABLES at,      \* where the middleware is with the call
          client,  \* whose it is
          spec,    \* "tool" or "protocol"
          ctx,     \* context.WithTimeout: "live", "deadline" or "cancelled", the first cause stays
          gone,    \* the client hung up
          result,  \* what next returned, or "panic"
          got      \* the status to record; 0 before there is a call

info == <<client, spec>>
vars == <<cap, at, info, ctx, gone, result, got>>

Init ==
    /\ CapInit
    /\ at = [c \in Calls |-> "idle"]
    /\ client \in {[c \in Calls |-> k] : k \in Clients}
    /\ spec \in {[c \in Calls |-> s] : s \in Specs}
    /\ ctx = [c \in Calls |-> "live"]
    /\ gone = [c \in Calls |-> FALSE]
    /\ result = [c \in Calls |-> "none"]
    /\ got = [c \in Calls |-> 0]

Move(c, here, there) == at[c] = here /\ at' = [at EXCEPT ![c] = there]
Status(c, s) == got' = [got EXCEPT ![c] = s]

Receive(c, k, s) ==
    /\ Move(c, "idle", "limiting")
    /\ client' = [client EXCEPT ![c] = k]
    /\ spec' = [spec EXCEPT ![c] = s]
    /\ ctx' = [ctx EXCEPT ![c] = "live"]
    /\ gone' = [gone EXCEPT ![c] = FALSE]
    /\ result' = [result EXCEPT ![c] = "none"]
    /\ Status(c, 200)
    /\ UNCHANGED cap

Allow(c) ==
    /\ Move(c, "limiting", "acquiring")
    /\ UNCHANGED <<cap, info, ctx, gone, result, got>>

\* 429: the limiter's buckets are not modelled.
Limit(c) ==
    /\ spec[c] = "tool"
    /\ Move(c, "limiting", "recording")
    /\ Status(c, 429)
    /\ UNCHANGED <<cap, info, ctx, gone, result>>

\* A nil Cap admits everything.
TakeSlot(c) ==
    /\ Move(c, "acquiring", "running")
    /\ IF spec[c] = "tool" THEN Acquire(client[c], 1) ELSE UNCHANGED cap
    /\ UNCHANGED <<info, ctx, gone, result, got>>

\* 503: the Release is deferred only after this return.
Busy(c) ==
    /\ spec[c] = "tool" /\ ~Admits(client[c], 1)
    /\ Move(c, "acquiring", "recording")
    /\ Status(c, 503)
    /\ UNCHANGED <<cap, info, ctx, gone, result>>

InProgress(c) == at[c] \notin {"idle", "recording"}

\* Mutant: the tool runs without a deadline.
DeadlineNever(c) == FALSE /\ UNCHANGED vars

Deadline(c) ==
    /\ InProgress(c) /\ ctx[c] = "live"
    /\ ctx' = [ctx EXCEPT ![c] = "deadline"]
    /\ UNCHANGED <<cap, at, info, gone, result, got>>

HangUp(c) ==
    /\ InProgress(c) /\ ~gone[c]
    /\ gone' = [gone EXCEPT ![c] = TRUE]
    /\ UNCHANGED <<cap, at, info, ctx, result, got>>

\* context.AfterFunc, in a goroutine of its own.
CancelGone(c) ==
    /\ InProgress(c) /\ gone[c] /\ ctx[c] = "live"
    /\ ctx' = [ctx EXCEPT ![c] = "cancelled"]
    /\ UNCHANGED <<cap, at, info, gone, result, got>>

\* next comes back: a protocol error, a result, one with isError, one that
\* cannot be encoded (sanitize), or a panic that unwinds into the defers.
Return(c, r) ==
    /\ at[c] = "running"
    /\ spec[c] = "tool" \/ r \in {"ok", "err", "panic"}
    /\ result' = [result EXCEPT ![c] = r]
    /\ Move(c, "running", "returned")
    /\ UNCHANGED <<cap, info, ctx, gone, got>>

\* Mutant: any error of a call whose context is over counts as a timeout.
VerdictTimeout(r, over) ==
    CASE r = "panic" -> 500
      [] r = "err" -> 400
      [] r = "isError" -> IF over # "live" THEN 504 ELSE 422
      [] r = "unusable" -> 500
      [] OTHER -> 200

\* The status of what the tool returned; ctx is read after it returned.
Verdict(r, over) ==
    CASE r = "panic" -> 500
      [] r = "err" -> 400
      [] r = "isError" -> IF over = "deadline" THEN 504 ELSE IF over = "cancelled" THEN 499 ELSE 422
      [] r = "unusable" -> 500
      [] OTHER -> 200

Judge(c) ==
    /\ Move(c, "returned", "releasing")
    /\ Status(c, Verdict(result[c], ctx[c]))
    /\ UNCHANGED <<cap, info, ctx, gone, result>>

\* Mutant: the slot of a call that panicked is not given back.
GiveBackUnlessPanic(c) ==
    /\ Move(c, "releasing", "recording")
    /\ IF spec[c] = "tool" /\ result[c] # "panic" THEN Release(client[c], 1) ELSE UNCHANGED cap
    /\ UNCHANGED <<info, ctx, gone, result, got>>

GiveBack(c) ==
    /\ Move(c, "releasing", "recording")
    /\ IF spec[c] = "tool" THEN Release(client[c], 1) ELSE UNCHANGED cap
    /\ UNCHANGED <<info, ctx, gone, result, got>>

\* calls.record, then the answer.
Record(c) ==
    /\ Move(c, "recording", "idle")
    /\ UNCHANGED <<cap, info, ctx, gone, result, got>>

Results == {"ok", "err", "isError", "unusable", "panic"}

Serve(c) ==
    \/ Allow(c) \/ Limit(c) \/ TakeSlot(c) \/ Busy(c)
    \/ Judge(c) \/ GiveBack(c) \/ Record(c)

Next == \E c \in Calls :
    \/ \E k \in Clients, s \in Specs : Receive(c, k, s)
    \/ Serve(c)
    \/ Deadline(c) \/ HangUp(c) \/ CancelGone(c)
    \/ \E r \in Results : Return(c, r)

\* The deadline passes, the scheduler runs the middleware, and a tool comes
\* back once its context is over: it passes ctx to all it waits for.
Fairness == \A c \in Calls :
    /\ WF_vars(Serve(c))
    /\ WF_vars(Deadline(c))
    /\ WF_vars(ctx[c] # "live" /\ \E r \in Results : Return(c, r))

Spec == Init /\ [][Next]_vars /\ Fairness

-----------------------------------------------------------------------------
Slots == {c \in Calls : spec[c] = "tool" /\ at[c] \in {"running", "returned", "releasing"}}
SlotsOf(k) == {c \in Slots : client[c] = k}

CallsTyped ==
    /\ at \in [Calls -> {"idle", "limiting", "acquiring", "running", "returned",
                         "releasing", "recording"}]
    /\ client \in [Calls -> Clients]
    /\ spec \in [Calls -> Specs]
    /\ ctx \in [Calls -> {"live", "deadline", "cancelled"}]
    /\ gone \in [Calls -> BOOLEAN]
    /\ result \in [Calls -> Results \cup {"none"}]
    /\ got \in [Calls -> {0, 200, 400, 422, 429, 499, 500, 503, 504}]

\* The log tells a timeout from a client that left: 499 only where the client
\* hung up before the deadline, 504 only where the deadline came first.
StatusHonest == \A c \in Calls :
    /\ got[c] = 499 => gone[c] /\ ctx[c] = "cancelled"
    /\ got[c] = 504 => ctx[c] = "deadline"
    /\ got[c] = 500 <=> at[c] \in {"releasing", "recording", "idle"} /\ result[c] \in {"panic", "unusable"}

\* A message is answered and recorded whatever its tool waits for.
EveryCallEnds == \A c \in Calls : at[c] = "limiting" ~> at[c] = "idle"
=============================================================================
