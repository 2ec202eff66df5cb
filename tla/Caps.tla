-------------------------------- MODULE Caps --------------------------------
(***************************************************************************)
(* One Cap behind two doors.  main.go builds each tool's Limits once and   *)
(* hands them to its web handlers and to mcptools: a request of the API    *)
(* and an MCP message of one client spend one budget and one share.        *)
(***************************************************************************)
EXTENDS McpCall

CONSTANTS Requests,  \* requests at the web door
          Floor, Costs

ASSUME CapsAssumption ==
    /\ IsFiniteSet(Requests)
    /\ Floor \in 1..Capacity /\ Costs \subseteq Nat

VARIABLE request

capsVars == <<vars, request>>

Web == INSTANCE HandlerCap WITH Calls <- Requests, call <- request

CapsInit == Init /\ Web!Init

CapsNext ==
    \/ Next /\ UNCHANGED request
    \/ Web!Next /\ UNCHANGED <<at, info, ctx, gone, result, got>>

\* Fair to the middleware only: nothing is asked of the web door's requests.
CapsSpec == CapsInit /\ [][CapsNext]_capsVars /\ Fairness

-----------------------------------------------------------------------------
Running == Web!Running
RunningOf(k) == Web!RunningOf(k)

\* What a client has in flight at both doors: how much, and how many calls.
HeldBy(k) == Web!Weight(RunningOf(k)) + Cardinality(SlotsOf(k))
CallsOf(k) == Cardinality(RunningOf(k)) + Cardinality(SlotsOf(k))
Holders == {request[r].client : r \in Running} \cup {client[c] : c \in Slots}

\* The Cap holds what is in flight at both doors and nothing else, in all and per
\* client, whatever ended the calls before: panic, timeout, hang-up or refusal.  A
\* slot that leaked would make the tool busy for good, one given back twice would
\* overcommit it.
SlotsAccounted ==
    /\ \A k \in Clients : held[k] = HeldBy(k)
    /\ inUse = Web!Weight(Running) + Cardinality(Slots)
    /\ inUse <= Capacity

\* Only a lone call exceeds a share (ratelimit.go:96): a client cannot collect more
\* than a quarter by stacking calls of both doors in any order.
SharesKept == \A k \in Clients : held[k] > Share => CallsOf(k) = 1

\* A 503 at either door.
WebRefuses(r) == request[r] = Web!Idle /\ request'[r].at = "refused"
McpRefuses(c) == at[c] = "acquiring" /\ at'[c] = "recording"

\* No call is refused forever (ratelimit.go:96, handler.go:95): whatever its
\* input, a call is refused only while another is in flight.
RefusedOnlyBesideAnother == [][
    (\E r \in Requests : WebRefuses(r)) \/ (\E c \in Calls : McpRefuses(c))
        => Running # {} \/ Slots # {}]_capsVars

\* Of a call that asks for no more than a share.
SmallRefused(k) ==
    \/ \E r \in Requests : WebRefuses(r) /\ request'[r].client = k /\ request'[r].weight <= Share
    \/ \E c \in Calls : McpRefuses(c) /\ client[c] = k

\* One client stuck on a slow upstream cannot make everyone busy (ratelimit.go:83):
\* a call within a share, of a client that holds nothing, is refused only
\* beside the calls of two other clients, or beside one call over its share.
NotBusyByOneClient == [][\A k \in Clients :
    held[k] = 0 /\ SmallRefused(k) =>
        \/ Cardinality(Holders) > 1
        \/ Web!Weight(Running) > Share /\ Cardinality(Running) = 1 /\ Slots = {}]_capsVars
=============================================================================
