-------------------------------- MODULE Cap --------------------------------
(***************************************************************************)
(* platform.Cap: a bound on the work in flight that refuses and never      *)
(* queues.  A weighted semaphore counts what is in use; held is what each  *)
(* client holds of it.  Both change under Cap.mu, so an acquisition is one *)
(* step, and so is a release.  A key missing from the Go map is a zero     *)
(* here.  The modules that extend this one say who acquires and releases.  *)
(***************************************************************************)
EXTENDS Integers, FiniteSets

CONSTANTS Clients,  \* what RateLimitKey makes of an address
          Capacity  \* NewCap's n

ASSUME CapAssumption == Capacity \in Nat \ {0}

VARIABLES held,  \* held[k]: the weight client k has in flight
          inUse  \* the semaphore's count

cap == <<held, inUse>>

CapInit == held = [k \in Clients |-> 0] /\ inUse = 0

Share == IF Capacity \div 4 > 1 THEN Capacity \div 4 ELSE 1

\* Mutant: only the budget counts.
AdmitsPooled(k, w) == inUse + w <= Capacity

\* Mutant: what the client holds is compared with its share, not what it would.
AdmitsAtShare(k, w) ==
    /\ held[k] <= Share
    /\ inUse + w <= Capacity

\* A client that holds nothing may exceed its share.
Admits(k, w) ==
    /\ held[k] > 0 => held[k] + w <= Share
    /\ inUse + w <= Capacity

Acquire(k, w) ==
    /\ Admits(k, w)
    /\ held' = [held EXCEPT ![k] = @ + w]
    /\ inUse' = inUse + w

Release(k, w) ==
    /\ held' = [held EXCEPT ![k] = IF @ > w THEN @ - w ELSE 0]
    /\ inUse' = inUse - w
=============================================================================
