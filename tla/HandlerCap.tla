----------------------------- MODULE HandlerCap -----------------------------
(***************************************************************************)
(* The HTTP handlers over one Cap: dnstools.serve and its like hold a slot *)
(* of weight 1 while they answer, ciphertools.Limits.Run holds the weight  *)
(* of what the operation will allocate, kept within the budget so that no  *)
(* input is refused for good.  The deferred Release runs however the work  *)
(* ends, so its end is one step.                                           *)
(***************************************************************************)
EXTENDS Cap, FiniteSetsExt

CONSTANTS Calls,  \* requests in progress at once
          Floor,  \* the least weight, within the budget: 1 MiB for cipher, 1 where calls count
          Costs   \* MemoryCost of the inputs there are, naturals

VARIABLE call  \* call[c]: idle, in flight, or refused as busy

Idle == [at |-> "idle"]

Larger(a, b) == IF a > b THEN a ELSE b
Smaller(a, b) == IF a < b THEN a ELSE b

\* Mutant: the weight is the cost, however large.
WeightUnclamped(cost) == Larger(cost, Floor)

HeavyWeight(cost) == Smaller(Larger(cost, Floor), Capacity)

Init == CapInit /\ call = [c \in Calls |-> Idle]

Start(c, k, cost) ==
    LET w == HeavyWeight(cost) IN
    /\ call[c] = Idle
    /\ Acquire(k, w)
    /\ call' = [call EXCEPT ![c] = [at |-> "running", client |-> k, weight |-> w]]

\* ErrBusy, or a 503.
Refuse(c, k, cost) ==
    LET w == HeavyWeight(cost) IN
    /\ call[c] = Idle
    /\ ~Admits(k, w)
    /\ call' = [call EXCEPT ![c] = [at |-> "refused", client |-> k, weight |-> w]]
    /\ UNCHANGED cap

Finish(c) ==
    /\ call[c].at = "running"
    /\ Release(call[c].client, call[c].weight)
    /\ call' = [call EXCEPT ![c] = Idle]

Answered(c) ==
    /\ call[c].at = "refused"
    /\ call' = [call EXCEPT ![c] = Idle]
    /\ UNCHANGED cap

Next == \E c \in Calls :
    \/ \E k \in Clients, cost \in Costs : Start(c, k, cost) \/ Refuse(c, k, cost)
    \/ Finish(c) \/ Answered(c)

-----------------------------------------------------------------------------
Running == {c \in Calls : call[c].at = "running"}
RunningOf(k) == {c \in Running : call[c].client = k}

WeightOf(calls, C) == MapThenSumSet(LAMBDA c : calls[c].weight, C)
Weight(C) == WeightOf(call, C)
=============================================================================
