---------------------------- MODULE MCBlockList ----------------------------
(* One feed of two netblocks, written one at a time, so that a write can    *)
(* stop half way; two addresses, one of which may be flagged.  A day is two *)
(* hours, a document lives for eight.  Actions and properties compare times *)
(* only with the clock, so TLC tells states apart by ages, each up to where *)
(* it makes no difference any more: the clock may run on, and the search    *)
(* ends long before MaxClock.                                               *)
EXTENDS BlockList, TLC

CONSTANTS a1, a2, n1, n2

MCCovers == (n1 :> {a1}) @@ (n2 :> {a2})
MCNames == [f \in Feeds |-> Blocks]

Age(t, most) == IF t = Never THEN Never ELSE IF clock - t < most THEN clock - t ELSE most
Left(t) == IF t = Never THEN Never ELSE IF t > clock THEN t - clock ELSE 0

Ages ==
    <<[s \in Sources |-> [k \in Keys |->
          <<Age(doc[s][k].updated, Ttl), doc[s][k].expires # Never, Left(doc[s][k].expires)>>]],
      feed, [f \in Feeds |-> [sync[f] EXCEPT !.next = Left(@),
          !.began = IF At(f, "sleep") THEN Never ELSE Age(@, 1)]],
      since, [f \in Feeds |-> IF since[f] = "complete" THEN Age(done[f], Interval + 2) ELSE Never], misses, steady,
      [x \in Addresses |-> Age(probed[x], ProbeTtl)]>>
=============================================================================
