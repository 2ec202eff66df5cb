----------------------------- MODULE ReportProofs -----------------------------
(***************************************************************************)
(* The tools that answer a request and keep nothing.                       *)
(*                                                                         *)
(* A redirect trace asks for no page twice and its destination is one, for *)
(* every set of hosts, every cap on the hops and every limit on the time.  *)
(*                                                                         *)
(* A report is one step: whatever may be asked, its answer is right.  So   *)
(* each theorem about reports rests on a lemma about the operators that    *)
(* give the answer, for every request of its kind, and that lemma on what  *)
(* their sums, folds and choices give.                                     *)
(***************************************************************************)
EXTENDS RedirectTrace, Reports, FiniteSetTheorems, WellFoundedInduction, TLAPS

-----------------------------------------------------------------------------
(* The redirect trace.                                                     *)

Findings == {"refresh", "meta", "script", "limited", "away", "refused", "tls", "dns", "hop timeout",
             "time", "failed"}
Heard == Statuses \cup {"none"}
Hopped == [url : Urls, status : Heard, notes : SUBSET Findings]

Typed ==
    /\ hops \in Seq(Hopped)
    /\ pc \in {"loop", "wait"} => cur \in Urls
    /\ pc # "done" => final = Unset

\* While the walk goes on, what was asked is in seen, and the URL in hand is on it
\* exactly when it is being asked.
Walk ==
    /\ pc = "start" => hops = <<>> /\ seen = {}
    /\ pc \in {"loop", "wait"} => \A i \in 1..Len(hops) : hops[i].url \in seen /\ hops[i].url # cur
    /\ pc = "loop" => cur \notin seen
    /\ pc = "wait" => cur \in seen /\ Allowed(cur)

WalkInv == Typed /\ Walk /\ NoPageTwice

-----------------------------------------------------------------------------
\* A hop joins those before it if its URL is none of theirs, and if it was
\* answered only where it was allowed.
LEMMA AppendedHop ==
    ASSUME Typed, NoPageTwice, cur \in Urls,
           \A i \in 1..Len(hops) : hops[i].url # cur,
           NEW status \in Heard, NEW ns \in SUBSET Findings,
           status # "none" => Allowed(cur),
           hops' = Append(hops, Hop(status, ns))
    PROVE  hops' \in Seq(Hopped) /\ NoPageTwice' /\ hops'[Len(hops')].url = cur
           /\ Len(hops') = Len(hops) + 1
           /\ \A i \in 1..Len(hops) : hops'[i] = hops[i]
<1> DEFINE h == Hop(status, ns)
<1>1. h \in Hopped /\ h.url = cur /\ h.status = status
  BY DEF Hop, Hopped
<1>2. hops \in Seq(Hopped)
  BY DEF Typed
<1> HIDE DEF h
<1>3. hops' = Append(hops, h)
  BY DEF h
<1>4. /\ hops' \in Seq(Hopped) /\ Len(hops') = Len(hops) + 1 /\ hops'[Len(hops')] = h
      /\ \A i \in 1..Len(hops) : hops'[i] = hops[i]
  BY <1>1, <1>2, <1>3
<1>5. \A i, j \in 1..Len(hops') : hops'[i].url = hops'[j].url => i = j
  <2> TAKE i \in 1..Len(hops'), j \in 1..Len(hops')
  <2> HAVE hops'[i].url = hops'[j].url
  <2>1. Len(hops) \in Nat
    BY <1>2
  <2>2. i \in 1..Len(hops) \/ i = Len(hops')
    BY <1>4, <2>1
  <2>3. j \in 1..Len(hops) \/ j = Len(hops')
    BY <1>4, <2>1
  <2>4. \A k, l \in 1..Len(hops) : hops[k].url = hops[l].url => k = l
    BY DEF NoPageTwice
  <2>5. QED
    BY <1>1, <1>4, <2>2, <2>3, <2>4
<1>6. \A i \in 1..Len(hops') : hops'[i].status # "none" => Allowed(hops'[i].url)
  <2> TAKE i \in 1..Len(hops')
  <2>1. Len(hops) \in Nat
    BY <1>2
  <2>2. i \in 1..Len(hops) \/ i = Len(hops')
    BY <1>4, <2>1
  <2>3. CASE i \in 1..Len(hops)
    BY <2>3, <1>4 DEF NoPageTwice
  <2>4. CASE i = Len(hops')
    BY <2>4, <1>1, <1>4
  <2>5. QED
    BY <2>2, <2>3, <2>4
<1>7. NoPageTwice'
  BY <1>5, <1>6 DEF NoPageTwice, Allowed, HTTP
<1>8. QED
  BY <1>1, <1>4, <1>7

\* A step that leaves the hops alone leaves what is said of them.
LEMMA SameHops ==
    ASSUME NoPageTwice, hops' = hops
    PROVE  NoPageTwice'
BY DEF NoPageTwice, Allowed, HTTP

\* A walk that ends with one more hop keeps the invariant.
LEMMA LastHop ==
    ASSUME WalkInv, pc \in {"loop", "wait"},
           NEW status \in Heard, NEW ns \in SUBSET Findings, NEW found, NEW end,
           status # "none" => Allowed(cur),
           Stop(Append(hops, Hop(status, ns)), found, end)
    PROVE  WalkInv' /\ hops'[Len(hops')].url = cur
<1>1. /\ Typed /\ NoPageTwice /\ cur \in Urls
      /\ \A i \in 1..Len(hops) : hops[i].url # cur
  BY DEF WalkInv, Typed, Walk
<1>2. hops' = Append(hops, Hop(status, ns)) /\ pc' = "done"
  BY DEF Stop
<1>3. hops' \in Seq(Hopped) /\ NoPageTwice' /\ hops'[Len(hops')].url = cur
  BY <1>1, <1>2, AppendedHop
<1>4. QED
  BY <1>2, <1>3 DEF WalkInv, Typed, Walk

LEMMA WalkInit == Init => WalkInv
BY DEF Init, WalkInv, Typed, Walk, NoPageTwice

LEMMA WalkStep == WalkInv /\ [Next]_vars => WalkInv'
<1> SUFFICES ASSUME WalkInv, [Next]_vars PROVE WalkInv'
  OBVIOUS
<1>1. CASE Reject
  <2>1. hops' = hops /\ pc' = "rejected" /\ pc = "start" /\ final' = final
    BY <1>1 DEF Reject
  <2>2. QED
    BY <2>1, SameHops DEF WalkInv, Typed, Walk
<1>2. CASE Begin
  <2>1. /\ hops' = hops /\ pc' = "loop" /\ pc = "start" /\ final' = final /\ seen' = seen
        /\ hops = <<>> /\ seen = {}
    BY <1>2 DEF Begin, WalkInv, Walk
  <2>2. PICK p \in Pasted : Starts(p) /\ cur' = Start(p)
    BY <1>2 DEF Begin
  <2>3. cur' \in Urls
    <3>1. p.url \in Urls
      BY DEF Pasted
    <3>2. [p.url EXCEPT !.scheme = "https"] \in Urls
      BY <3>1 DEF Urls, Schemes
    <3>3. QED
      BY <2>2, <3>1, <3>2 DEF Start
  <2>4. NoPageTwice'
    BY <2>1, SameHops DEF WalkInv
  <2>5. QED
    BY <2>1, <2>3, <2>4 DEF WalkInv, Typed, Walk
<1>3. CASE TooMany
  <2>1. hops' = hops /\ pc' = "done"
    BY <1>3 DEF TooMany, Stop
  <2>2. QED
    BY <2>1, SameHops DEF WalkInv, Typed, Walk
<1>4. CASE Refuse
  <2>1. pc = "loop" /\ Stop(Append(hops, Hop("none", {"refused"})), notes, Unset)
    BY <1>4 DEF Refuse
  <2>2. {"refused"} \in SUBSET Findings /\ "none" \in Heard
    BY DEF Findings, Heard
  <2>3. QED
    BY <2>1, <2>2, LastHop
<1>5. CASE Send
  <2>1. /\ hops' = hops /\ pc' = "wait" /\ pc = "loop" /\ final' = final /\ cur' = cur
        /\ seen' = seen \cup {cur} /\ Allowed(cur)
    BY <1>5 DEF Send
  <2>2. Allowed(cur)'
    BY <2>1 DEF Allowed, HTTP
  <2>3. QED
    BY <2>1, <2>2, SameHops DEF WalkInv, Typed, Walk
<1>6. CASE DialRefused
  <2>1. pc = "wait" /\ Stop(Append(hops, Hop("none", {"refused"})), notes, Unset)
    BY <1>6 DEF DialRefused
  <2>2. {"refused"} \in SUBSET Findings /\ "none" \in Heard
    BY DEF Findings, Heard
  <2>3. QED
    BY <2>1, <2>2, LastHop
<1>7. CASE Fail
  <2>1. PICK why \in {"tls", "dns", "failed"} :
            pc = "wait" /\ Stop(Append(hops, Hop("none", {why})), notes, Unset)
    BY <1>7 DEF Fail
  <2>2. {why} \in SUBSET Findings
    BY DEF Findings
  <2>3. "none" \in Heard
    BY DEF Heard
  <2>4. QED
    BY <2>1, <2>2, <2>3, LastHop
<1>8. CASE TimeUp
  <2>1. PICK why \in {"time", "hop timeout"} :
            pc = "wait" /\ Stop(Append(hops, Hop("none", {why})), notes, Unset)
    BY <1>8 DEF TimeUp
  <2>2. {why} \in SUBSET Findings
    BY DEF Findings
  <2>3. "none" \in Heard
    BY DEF Heard
  <2>4. QED
    BY <2>1, <2>2, <2>3, LastHop
<1>9. CASE Follow
  <2>1. PICK a \in Answers : /\ pc = "wait" /\ Unseen(a.loc.url) /\ a.loc # Unset
                             /\ Unresolved(a.loc) = ""
                             /\ hops' = Append(hops, Hop(a.status, {}))
                             /\ cur' = a.loc.url /\ pc' = "loop" /\ seen' = seen /\ final' = final
    BY <1>9 DEF Follow, Hear
  <2>2. /\ Typed /\ Walk /\ NoPageTwice /\ cur \in Urls /\ cur \in seen /\ Allowed(cur)
        /\ \A i \in 1..Len(hops) : hops[i].url # cur /\ hops[i].url \in seen
    BY <2>1 DEF WalkInv, Typed, Walk
  <2>3. a.status \in Heard
    BY DEF Answers, Statuses, Heard
  <2>4. /\ hops' \in Seq(Hopped) /\ NoPageTwice' /\ hops'[Len(hops')].url = cur
        /\ Len(hops') = Len(hops) + 1 /\ \A i \in 1..Len(hops) : hops'[i] = hops[i]
    <3>1. {} \in SUBSET Findings
      OBVIOUS
    <3>2. QED
      BY <2>1, <2>2, <2>3, <3>1, AppendedHop
  <2>5. a.loc.url \in Urls
    <3>1. a.loc \in Locations
      BY <2>1 DEF Answers
    <3>2. a.loc.kind = "url"
      <4>1. a.loc.kind # "url" => Unresolved(a.loc) # ""
        <5>1. a.loc.kind \in {"url", "long", "bad"}
          BY <3>1 DEF Locations
        <5>2. QED
          BY <5>1 DEF Unresolved
      <4>2. QED
        BY <2>1, <4>1
    <3>3. QED
      BY <3>1, <3>2 DEF Locations
  <2>6. a.loc.url \notin seen
    BY <2>1 DEF Unseen
  <2>7. \A i \in 1..Len(hops') : hops'[i].url \in seen
    <3>1. Len(hops) \in Nat
      BY <2>2 DEF Typed
    <3>2. \A i \in 1..Len(hops') : i \in 1..Len(hops) \/ i = Len(hops')
      BY <2>4, <3>1
    <3>3. QED
      BY <2>2, <2>4, <3>2
  <2>8. Typed'
    BY <2>1, <2>2, <2>4, <2>5 DEF Typed
  <2>9. Walk'
    BY <2>1, <2>6, <2>7 DEF Walk
  <2>10. QED
    BY <2>4, <2>8, <2>9 DEF WalkInv
<1>10. CASE Lose
  <2>1. PICK a \in Answers :
            /\ pc = "wait"
            /\ \E found : Stop(Append(hops, Hop(a.status, {})), found, Unset)
    BY <1>10 DEF Lose, Hear
  <2>2. a.status \in Heard /\ {} \in SUBSET Findings
    BY DEF Answers, Statuses, Heard, Findings
  <2>3. Allowed(cur)
    BY <2>1 DEF WalkInv, Walk
  <2>4. QED
    BY <2>1, <2>2, <2>3, LastHop
<1>11. CASE Arrive
  <2>1. PICK a \in Answers, cut \in BOOLEAN :
            /\ pc = "wait"
            /\ \E end : Stop(Append(hops, Hop(a.status, Explain(a, cut))), notes, end)
    BY <1>11 DEF Arrive, Hear
  <2>2. a.status \in Heard /\ Explain(a, cut) \in SUBSET Findings
    BY DEF Answers, Statuses, Heard, Findings, Explain
  <2>3. Allowed(cur)
    BY <2>1 DEF WalkInv, Walk
  <2>4. QED
    BY <2>1, <2>2, <2>3, LastHop
<1>12. CASE UNCHANGED vars
  BY <1>12, SameHops DEF vars, WalkInv, Typed, Walk, Allowed, HTTP
<1>13. QED
  BY <1>1, <1>2, <1>3, <1>4, <1>5, <1>6, <1>7, <1>8, <1>9, <1>10, <1>11, <1>12 DEF Next

\* No URL is asked twice and none is heard that the checks refuse, for every set of
\* hosts and every cap (trace.go:235, trace.go:209).
THEOREM PagesAskedOnce == Spec => []NoPageTwice
<1>1. WalkInv => NoPageTwice
  BY DEF WalkInv
<1>2. QED
  BY <1>1, WalkInit, WalkStep, PTL DEF Spec

-----------------------------------------------------------------------------
\* While a walk goes on, every answer sent it on and no note says that a page does
\* what cannot be followed.
EndInv ==
    /\ FinalIsTheEnd
    /\ pc # "done" => (got = Unset \/ got.loc # Unset) /\ notes \subseteq {"no scheme", "credentials", "downgrade"}

\* A page with a Refresh header, or with what its body is searched for where that was
\* read, has a note that says so.
LEMMA SendingOnIsNoted ==
    ASSUME NEW a \in Answers, NEW cut \in BOOLEAN, ~ContinuesElsewhere(Explain(a, cut))
    PROVE  /\ a.via \notin {"refresh", "reload"}
           /\ ~cut /\ a.html => a.via \notin {"meta", "script", "mention"}
<1>1. a.via \notin {"refresh", "reload"}
  <2>1. a.via \in {"refresh", "reload"} => "refresh" \in Explain(a, cut)
    BY DEF Explain, RefreshHeader
  <2> QED BY <2>1 DEF ContinuesElsewhere
<1>2. ASSUME ~cut, a.html PROVE a.via \notin {"meta", "script", "mention"}
  <2>1. a.via = "meta" => "meta" \in Explain(a, cut)
    BY <1>2 DEF Explain, MetaRefresh, WantsBody
  <2>2. a.via \in {"script", "mention"} => "script" \in Explain(a, cut)
    BY <1>2 DEF Explain, JsRedirect, WantsBody
  <2> QED BY <2>1, <2>2 DEF ContinuesElsewhere
<1> QED BY <1>1, <1>2

LEMMA EndInit == Init => EndInv
BY DEF Init, EndInv, FinalIsTheEnd

LEMMA EndStep == WalkInv /\ EndInv /\ [Next]_vars => EndInv'
<1> SUFFICES ASSUME WalkInv, EndInv, [Next]_vars PROVE EndInv'
  OBVIOUS
<1>1. /\ pc # "done" => final = Unset
      /\ pc # "done" => (got = Unset \/ got.loc # Unset) /\ notes \subseteq {"no scheme", "credentials", "downgrade"}
  BY DEF WalkInv, Typed, EndInv
<1>2. CASE Reject \/ Begin \/ Send \/ Follow
  <2>1. pc # "done" /\ pc' # "done" /\ final' = final
    BY <1>2 DEF Reject, Begin, Send, Follow, Hear
  <2>2. got' = Unset \/ got'.loc # Unset
    BY <1>1, <1>2, <2>1 DEF Reject, Begin, Send, Follow, Hear
  <2>3. notes' \subseteq {"no scheme", "credentials", "downgrade"}
    <3>1. CASE Begin
      BY <3>1 DEF Begin, StartNotes
    <3>2. CASE Reject \/ Send
      BY <1>1, <2>1, <3>2 DEF Reject, Send
    <3>3. CASE Follow
      <4>1. PICK loc : notes' = notes \cup {n \in {"downgrade"} : cur.scheme = "https" /\ loc.url.scheme = "http"}
        BY <3>3 DEF Follow
      <4> QED BY <1>1, <2>1, <4>1
    <3> QED BY <1>2, <3>1, <3>2, <3>3
  <2> QED BY <1>1, <2>1, <2>2, <2>3 DEF EndInv, FinalIsTheEnd
<1>3. CASE TooMany \/ Refuse \/ DialRefused \/ Fail \/ TimeUp \/ Lose
  <2>1. final' = Unset /\ pc' = "done" /\ pc # "done"
    BY <1>3 DEF TooMany, Refuse, DialRefused, Fail, TimeUp, Lose, Stop, Hear
  <2>2. got' = Unset \/ got'.loc # Unset
    BY <1>1, <1>3, <2>1 DEF TooMany, Refuse, DialRefused, Fail, TimeUp, Lose, Hear
  <2> QED BY <2>1, <2>2 DEF EndInv, FinalIsTheEnd
<1>4. CASE Arrive
  <2>1. PICK a \in Answers, cut \in BOOLEAN :
            /\ pc = "wait" /\ a.loc = Unset /\ got' = a /\ unread' = cut
            /\ Stop(Append(hops, Hop(a.status, Explain(a, cut))), notes,
                    IF ContinuesElsewhere(Explain(a, cut)) THEN Unset ELSE cur)
    BY <1>4 DEF Arrive, Hear
  <2> DEFINE ns == Explain(a, cut)
             h == Hop(a.status, ns)
             end == IF ContinuesElsewhere(ns) THEN Unset ELSE cur
  <2>2. final' = end /\ pc' = "done" /\ hops' = Append(hops, h) /\ seen' = seen
    BY <2>1 DEF Stop
  <2>3. a.status \in Heard /\ a.status # "none" /\ ns \in SUBSET Findings
    BY DEF Answers, Statuses, Heard, Findings, Explain
  <2>4. hops \in Seq(Hopped) /\ Allowed(cur) /\ cur \in seen /\ cur \in Urls
    BY <2>1 DEF WalkInv, Walk, Typed
  <2>5. h.url = cur /\ h.status = a.status /\ h.notes = ns
    BY DEF Hop
  <2>6. cur # Unset
    BY <2>4, RedirectAssumption
  <2>7. Stop(Append(hops, h), notes, end)
    BY <2>1
  <2>8. end = Unset <=> ContinuesElsewhere(ns)
    BY <2>6
  <2>9. ~ContinuesElsewhere(ns) => /\ a.via \notin {"refresh", "reload"}
                                   /\ ~cut /\ a.html => a.via \notin {"meta", "script", "mention"}
    BY SendingOnIsNoted
  <2>10. end # Unset => end = cur
    OBVIOUS
  <2>11. h \in Hopped
    <3> HIDE DEF ns
    <3> QED BY <2>3, <2>4 DEF Hop, Hopped
  <2> HIDE DEF ns, h, end
  <2>12. hops' # <<>> /\ hops'[Len(hops')] = h
    BY <2>2, <2>4, <2>11
  <2>13. notes' = Lift(notes, h, end # Unset)
    BY <2>7, <2>12, <2>2 DEF Stop
  <2>14. ContinuesElsewhere(notes') <=> ContinuesElsewhere(ns)
    BY <1>1, <2>1, <2>5, <2>13 DEF Lift, ContinuesElsewhere
  <2> QED BY <2>1, <2>2, <2>3, <2>4, <2>5, <2>8, <2>9, <2>10, <2>12, <2>14 DEF EndInv, FinalIsTheEnd
<1>5. CASE UNCHANGED vars
  BY <1>5 DEF vars, EndInv, FinalIsTheEnd, ContinuesElsewhere
<1>6. QED
  BY <1>2, <1>3, <1>4, <1>5 DEF Next

\* A destination is the last URL asked and one that answered, with no Refresh header
\* and, as far as it was read, none of the redirects its body is searched for; and the
\* report of a walk that ends at an answer has a destination just when none of its
\* notes says that the page goes on (trace.go:46).
THEOREM DestinationIsReached == Spec => []FinalIsTheEnd
<1>1. EndInv => FinalIsTheEnd
  BY DEF EndInv
<1>2. QED
  BY <1>1, WalkInit, WalkStep, EndInit, EndStep, PTL DEF Spec

-----------------------------------------------------------------------------
(* What the reader is told.                                                *)

\* Remarks about the link, which say nothing of how its walk ends.
Remarks == {"no scheme", "credentials", "downgrade"}
Told == notes \ Remarks # {}
Errors == {"missing", "limited", "away", "down"}

Steps(from, to) == from.scheme = "https" /\ to.scheme = "http"

\* Until the walk ends every answer sent it on; the step to the URL in hand is
\* noted as soon as it is taken, and no note is lost.
Saying ==
    /\ pc # "done" => got = Unset \/ got.status = "moved"
    /\ pc = "done" => /\ final = Unset => Told
                      /\ got # Unset /\ got.status \in Errors => Told
    /\ \A i \in 2..Len(hops) : Steps(hops[i - 1].url, hops[i].url) => "downgrade" \in notes
    /\ pc \in {"loop", "wait"} /\ Len(hops) > 0 /\ Steps(hops[Len(hops)].url, cur) => "downgrade" \in notes

LEMMA SayingSays ==
    ASSUME Saying
    PROVE  NothingUnsaid
BY DEF Saying, NothingUnsaid, Told, Remarks, Errors, Steps

LEMMA SayingAtFirst ==
    ASSUME Init
    PROVE  Saying
BY DEF Init, Saying

\* What a walk ends with holds what it had found and what its last hop did.
LEMMA StopTells ==
    ASSUME Typed, NEW status \in Heard, NEW ns \in SUBSET Findings, NEW found, NEW end,
           Stop(Append(hops, Hop(status, ns)), found, end)
    PROVE  /\ found \subseteq notes' /\ ns \subseteq notes'
           /\ ns = {} /\ end # Unset /\ status = "missing" => "error page" \in notes'
           /\ ns = {} /\ end # Unset /\ status = "down" => "server error" \in notes'
<1> DEFINE h == Hop(status, ns)
           walked == Append(hops, h)
<1>1. h \in [url : {cur}, status : Heard, notes : SUBSET Findings] /\ h.status = status /\ h.notes = ns
  BY DEF Hop
<1> HIDE DEF h
<1>2. hops \in Seq(Hopped)
  BY DEF Typed
<1>3. walked # <<>> /\ walked[Len(walked)] = h
  BY <1>2
<1>4. notes' = Lift(found, h, end # Unset)
  BY <1>3 DEF Stop, h
<1> QED BY <1>1, <1>4 DEF Lift

\* The hops behind it, and the URL in hand that becomes one.
LEMMA StepsStaySaid ==
    ASSUME WalkInv, Saying, pc \in {"loop", "wait"},
           NEW status \in Heard, NEW ns \in SUBSET Findings, status # "none" => Allowed(cur),
           hops' = Append(hops, Hop(status, ns)), notes \subseteq notes'
    PROVE  \A i \in 2..Len(hops') : Steps(hops'[i - 1].url, hops'[i].url) => "downgrade" \in notes'
<1>1. /\ Typed /\ NoPageTwice /\ cur \in Urls
      /\ \A i \in 1..Len(hops) : hops[i].url # cur
  BY DEF WalkInv, Typed, Walk
<1>2. /\ hops'[Len(hops')].url = cur /\ Len(hops') = Len(hops) + 1
      /\ \A i \in 1..Len(hops) : hops'[i] = hops[i]
  BY <1>1, AppendedHop
<1>3. Len(hops) \in Nat
  BY <1>1 DEF Typed
<1> SUFFICES ASSUME NEW i \in 2..Len(hops'), Steps(hops'[i - 1].url, hops'[i].url)
             PROVE  "downgrade" \in notes'
  OBVIOUS
<1>4. i - 1 \in 1..Len(hops) /\ hops'[i - 1] = hops[i - 1]
  BY <1>2, <1>3
<1>5. CASE i = Len(hops')
  <2>1. i - 1 = Len(hops) /\ Len(hops) > 0
    BY <1>2, <1>3, <1>4, <1>5
  <2>2. Steps(hops[Len(hops)].url, cur)
    BY <1>2, <1>4, <1>5, <2>1
  <2> QED BY <2>1, <2>2 DEF Saying
<1>6. CASE i # Len(hops')
  <2>1. i \in 2..Len(hops) /\ hops'[i] = hops[i]
    BY <1>2, <1>3, <1>6
  <2>2. Steps(hops[i - 1].url, hops[i].url)
    BY <1>4, <2>1
  <2> QED BY <2>1, <2>2 DEF Saying
<1> QED BY <1>5, <1>6

\* A walk that ends without an answer, and with a hop that says why.
LEMMA SilentEnd ==
    ASSUME WalkInv, Saying, pc \in {"loop", "wait"}, NEW why \in Findings, got' = got,
           Stop(Append(hops, Hop("none", {why})), notes, Unset)
    PROVE  Saying'
<1>1. Typed /\ "none" \in Heard /\ {why} \in SUBSET Findings
  BY DEF WalkInv, Heard
<1>2. notes \subseteq notes' /\ why \in notes'
  BY <1>1, StopTells
<1>3. hops' = Append(hops, Hop("none", {why})) /\ pc' = "done"
  BY DEF Stop
<1>4. Told'
  BY <1>2 DEF Told, Remarks, Findings
<1>5. \A i \in 2..Len(hops') : Steps(hops'[i - 1].url, hops'[i].url) => "downgrade" \in notes'
  BY <1>1, <1>2, <1>3, StepsStaySaid
<1> QED BY <1>3, <1>4, <1>5 DEF Saying, Steps

\* Why a chain ends at a Location is never one of the remarks.
LEMMA UnresolvedTells ==
    ASSUME NEW loc
    PROVE  Unresolved(loc) \notin Remarks
BY DEF Unresolved, Remarks

LEMMA ToldBy ==
    ASSUME NEW n, n \in notes', n \notin Remarks
    PROVE  Told'
BY DEF Told

LEMMA SayingStep ==
    ASSUME WalkInv, Saying, [Next]_vars
    PROVE  Saying'
<1>1. CASE Reject \/ Send
  <2>1. /\ pc \in {"start", "loop"} /\ pc' # "done" /\ (pc = "start" => pc' = "rejected") /\ cur' = cur
        /\ hops' = hops /\ notes' = notes /\ got' = got
    BY <1>1 DEF Reject, Send
  <2> QED BY <2>1 DEF Saying, Steps
<1>2. CASE Begin
  <2>1. hops' = <<>> /\ pc' = "loop" /\ got' = got /\ pc = "start"
    BY <1>2 DEF Begin, WalkInv, Walk
  <2> QED BY <2>1 DEF Saying
<1>3. CASE TooMany
  <2>1. pc = "loop" /\ pc' = "done" /\ hops' = hops /\ got' = got
    BY <1>3 DEF TooMany, Stop
  <2>2. notes \subseteq notes' /\ "stopped" \in notes'
    BY <1>3 DEF TooMany, Stop, Lift
  <2>3. Told'
    <3>1. "stopped" \notin Remarks
      BY DEF Remarks
    <3> QED BY <2>2, <3>1, ToldBy
  <2> QED BY <2>1, <2>2, <2>3 DEF Saying, Steps
<1>4. CASE Refuse \/ DialRefused
  <2>1. /\ pc \in {"loop", "wait"} /\ got' = got
        /\ Stop(Append(hops, Hop("none", {"refused"})), notes, Unset)
    BY <1>4 DEF Refuse, DialRefused
  <2>2. "refused" \in Findings
    BY DEF Findings
  <2> QED BY <2>1, <2>2, SilentEnd
<1>5. CASE Fail
  <2>1. PICK why \in {"tls", "dns", "failed"} : Stop(Append(hops, Hop("none", {why})), notes, Unset)
    BY <1>5 DEF Fail
  <2>2. pc = "wait" /\ got' = got /\ why \in Findings
    BY <1>5 DEF Fail, Findings
  <2> QED BY <2>1, <2>2, SilentEnd
<1>6. CASE TimeUp
  <2>1. PICK why \in {"time", "hop timeout"} : Stop(Append(hops, Hop("none", {why})), notes, Unset)
    BY <1>6 DEF TimeUp
  <2>2. pc = "wait" /\ got' = got /\ why \in Findings
    BY <1>6 DEF TimeUp, Findings
  <2> QED BY <2>1, <2>2, SilentEnd
<1>7. CASE Follow
  <2>1. PICK a \in Answers : /\ pc = "wait" /\ a.loc # Unset /\ got' = a
                             /\ hops' = Append(hops, Hop(a.status, {}))
                             /\ cur' = a.loc.url /\ pc' = "loop"
                             /\ notes' = notes \cup {n \in {"downgrade"} :
                                             cur.scheme = "https" /\ a.loc.url.scheme = "http"}
    BY <1>7 DEF Follow, Hear
  <2>2. a.status = "moved" /\ a.status \in Heard /\ {} \in SUBSET Findings
    BY <2>1 DEF Answers, Heard, Statuses
  <2>3. Typed /\ NoPageTwice /\ Allowed(cur) /\ cur \in Urls /\ \A i \in 1..Len(hops) : hops[i].url # cur
    BY <2>1 DEF WalkInv, Walk, Typed
  <2>4. \A i \in 2..Len(hops') : Steps(hops'[i - 1].url, hops'[i].url) => "downgrade" \in notes'
    BY <2>1, <2>2, <2>3, StepsStaySaid
  <2>5. hops'[Len(hops')].url = cur
    BY <2>1, <2>2, <2>3, AppendedHop
  <2>6. Steps(hops'[Len(hops')].url, cur') => "downgrade" \in notes'
    BY <2>1, <2>5 DEF Steps
  <2> QED BY <2>1, <2>2, <2>4, <2>6 DEF Saying, Steps
<1>8. CASE Lose
  <2>0. PICK a \in Answers :
            /\ pc = "wait" /\ a.loc # Unset /\ got' = a
            /\ LET why == Unresolved(a.loc) IN
               Stop(Append(hops, Hop(a.status, {})),
                    notes \cup {IF why # "" THEN why ELSE "loop"}
                          \cup {n \in {"downgrade"} : why = "" /\ cur.scheme = "https" /\ a.loc.url.scheme = "http"},
                    Unset)
    BY <1>8 DEF Lose, Hear
  <2> DEFINE why == Unresolved(a.loc)
             all == notes \cup {IF why # "" THEN why ELSE "loop"}
                          \cup {n \in {"downgrade"} : why = "" /\ cur.scheme = "https" /\ a.loc.url.scheme = "http"}
  <2>1. /\ pc = "wait" /\ a.loc # Unset /\ got' = a
        /\ \E found : /\ Stop(Append(hops, Hop(a.status, {})), found, Unset)
                      /\ notes \subseteq found
                      /\ (IF Unresolved(a.loc) # "" THEN Unresolved(a.loc) ELSE "loop") \in found
    <3>1. Stop(Append(hops, Hop(a.status, {})), all, Unset)
      BY <2>0
    <3>2. notes \subseteq all /\ (IF why # "" THEN why ELSE "loop") \in all
      OBVIOUS
    <3> HIDE DEF all
    <3> QED BY <2>0, <3>1, <3>2
  <2> HIDE DEF all, why
  <2>2. a.status = "moved" /\ a.status \in Heard /\ {} \in SUBSET Findings
    BY <2>1 DEF Answers, Heard, Statuses
  <2>3. Typed /\ Allowed(cur)
    BY <2>1 DEF WalkInv, Walk
  <2>4. PICK found : /\ Stop(Append(hops, Hop(a.status, {})), found, Unset)
                     /\ notes \subseteq found
                     /\ (IF Unresolved(a.loc) # "" THEN Unresolved(a.loc) ELSE "loop") \in found
    BY <2>1
  <2>5. found \subseteq notes'
    BY <2>2, <2>3, <2>4, StopTells
  <2>6. Told'
    <3> DEFINE told == IF Unresolved(a.loc) # "" THEN Unresolved(a.loc) ELSE "loop"
    <3>1. told \notin Remarks
      BY UnresolvedTells DEF Remarks
    <3>2. told \in notes'
      BY <2>4, <2>5
    <3> QED BY <3>1, <3>2, ToldBy
  <2>7. hops' = Append(hops, Hop(a.status, {})) /\ pc' = "done"
    BY <2>4 DEF Stop
  <2>8. \A i \in 2..Len(hops') : Steps(hops'[i - 1].url, hops'[i].url) => "downgrade" \in notes'
    BY <2>1, <2>2, <2>3, <2>4, <2>5, <2>7, StepsStaySaid
  <2> QED BY <2>6, <2>7, <2>8 DEF Saying, Steps
<1>9. CASE Arrive
  <2>1. PICK a \in Answers, cut \in BOOLEAN :
            /\ pc = "wait" /\ got' = a
            /\ Stop(Append(hops, Hop(a.status, Explain(a, cut))), notes,
                    IF ContinuesElsewhere(Explain(a, cut)) THEN Unset ELSE cur)
    BY <1>9 DEF Arrive, Hear
  <2> DEFINE ns == Explain(a, cut)
             end == IF ContinuesElsewhere(ns) THEN Unset ELSE cur
  <2>2. a.status \in Heard /\ ns \in SUBSET Findings
    BY DEF Answers, Statuses, Heard, Findings, Explain
  <2>3. Typed /\ Allowed(cur) /\ cur \in Urls /\ cur # Unset
    BY <2>1, RedirectAssumption DEF WalkInv, Walk, Typed
  <2>4. /\ notes \subseteq notes' /\ ns \subseteq notes'
        /\ ns = {} /\ end # Unset /\ a.status = "missing" => "error page" \in notes'
        /\ ns = {} /\ end # Unset /\ a.status = "down" => "server error" \in notes'
    <3>1. Stop(Append(hops, Hop(a.status, ns)), notes, end)
      BY <2>1
    <3> HIDE DEF ns, end
    <3> QED BY <2>2, <2>3, <3>1, StopTells
  <2>5. ns # {} => Told'
    BY <2>2, <2>4 DEF Told, Remarks, Findings
  <2>6. hops' = Append(hops, Hop(a.status, ns)) /\ pc' = "done" /\ final' = end
    BY <2>1 DEF Stop
  <2>7. final' = Unset => Told'
    <3>1. end = Unset => ns # {}
      BY <2>3 DEF ContinuesElsewhere
    <3> QED BY <2>5, <2>6, <3>1
  <2>8. a.status \in Errors => Told'
    <3>1. a.status \in {"limited", "away"} => a.status \in ns
      BY DEF Explain
    <3>2. ns = {} => end # Unset
      BY <2>3 DEF ContinuesElsewhere
    <3>3. ns = {} /\ a.status \in {"missing", "down"} => Told'
      <4>1. ns = {} /\ a.status = "missing" => Told'
        <5>1. "error page" \notin Remarks
          BY DEF Remarks
        <5> QED BY <2>4, <3>2, <5>1, ToldBy
      <4>2. ns = {} /\ a.status = "down" => Told'
        <5>1. "server error" \notin Remarks
          BY DEF Remarks
        <5> QED BY <2>4, <3>2, <5>1, ToldBy
      <4> QED BY <4>1, <4>2
    <3> QED BY <2>5, <3>1, <3>3 DEF Errors
  <2>9. \A i \in 2..Len(hops') : Steps(hops'[i - 1].url, hops'[i].url) => "downgrade" \in notes'
    <3> HIDE DEF ns, end
    <3> QED BY <2>1, <2>2, <2>3, <2>4, <2>6, StepsStaySaid
  <2> HIDE DEF ns, end
  <2> QED BY <2>1, <2>6, <2>7, <2>8, <2>9 DEF Saying, Steps
<1>10. CASE UNCHANGED vars
  BY <1>10 DEF vars, Saying, Steps, Told
<1> QED BY <1>1, <1>2, <1>3, <1>4, <1>5, <1>6, <1>7, <1>8, <1>9, <1>10 DEF Next

\* However a walk ends the reader is told: why there is no destination, that the
\* destination is an error page, that a hop left https for http.
THEOREM NothingIsLeftUnsaid == Spec => []NothingUnsaid
<1>1. WalkInv /\ Saying /\ [Next]_vars => WalkInv' /\ Saying'
  BY WalkStep, SayingStep
<1> QED BY <1>1, WalkInit, SayingAtFirst, SayingSays, PTL DEF Spec

-----------------------------------------------------------------------------
(* The MCP gate.                                                           *)

\* A set of numbers that is not empty has a least one.
LEMMA LeastNat ==
    ASSUME NEW T \in SUBSET Nat, T # {}
    PROVE  \E n \in T : \A m \in T : n <= m
<1> DEFINE R == OpToRel(<, Nat)
<1>1. \E x \in T : \A y \in T : ~(<<y, x>> \in R)
  BY WFMin, NatLessThanWellFounded
<1>2. \A x, y \in Nat : y < x => <<y, x>> \in R
  BY DEF OpToRel
<1> HIDE DEF R
<1>3. \A x, y \in T : <<y, x>> \notin R => x <= y
  BY <1>2
<1> QED BY <1>1, <1>3

\* And if it is bounded, a greatest.
LEMMA GreatestNat ==
    ASSUME NEW n \in Nat, NEW T \in SUBSET (0..n), T # {}
    PROVE  \E k \in T : \A m \in T : m <= k
<1> DEFINE U == {n - m : m \in T}
<1>0. \A m \in T : m \in Int /\ m <= n /\ n - m \in Nat
  OBVIOUS
<1>1. U \in SUBSET Nat /\ U # {}
  BY <1>0
<1>2. PICK u \in U : \A v \in U : u <= v
  <2> HIDE DEF U
  <2> QED BY <1>1, LeastNat
<1>3. PICK k \in T : u = n - k
  OBVIOUS
<1>4. \A m \in T : n - k <= n - m
  BY <1>2, <1>3
<1> QED BY <1>0, <1>4

\* What holds of no elements, and of one more, holds of every finite set.
LEMMA SetInduction ==
    ASSUME NEW C, IsFiniteSet(C), NEW F \in SUBSET SUBSET C,
           \A s \in SUBSET C : (\A t \in SUBSET s : t # s => t \in F) => s \in F
    PROVE  F = SUBSET C
<1> SUFFICES ASSUME (SUBSET C) \ F # {} PROVE FALSE
  OBVIOUS
<1> DEFINE T == {Cardinality(s) : s \in (SUBSET C) \ F}
<1>1. \A s \in SUBSET C : IsFiniteSet(s) /\ Cardinality(s) \in Nat
  BY FS_Subset, FS_CardinalityType
<1>2. T \in SUBSET Nat /\ T # {}
  BY <1>1
<1>3. PICK s \in (SUBSET C) \ F : \A m \in T : Cardinality(s) <= m
  <2> HIDE DEF T
  <2>1. PICK n \in T : \A m \in T : n <= m
    BY <1>2, LeastNat
  <2> QED BY <2>1 DEF T
<1>4. PICK t \in SUBSET s : t # s /\ t \notin F
  <2> HIDE DEF T
  <2>1. s \in SUBSET C /\ s \notin F
    OBVIOUS
  <2> QED BY <2>1
<1>5. Cardinality(t) < Cardinality(s)
  BY <1>1, <1>4, FS_Subset
<1> QED BY <1>1, <1>3, <1>4, <1>5

\* A fold over a finite set takes its elements in the order ch picks them, from b,
\* each by a step: step[x][v] is what x makes of v.
Chooses(ch, C) == \A s \in SUBSET C : s # {} => ch[s] \in s
Turn(ch, b, step, g, s) == IF s = {} THEN b ELSE step[ch[s]][g[s \ {ch[s]}]]
Solves(ch, b, step, C, g) == g = [s \in SUBSET C |-> Turn(ch, b, step, g, s)]

\* A fold over a sequence is what taking its elements in turn gives: the
\* function the library chooses exists, and steps as its definition says.
LEMMA FoldSolved ==
    ASSUME NEW C, IsFiniteSet(C), NEW V, NEW b \in V, NEW step \in [C -> [V -> V]], NEW ch, Chooses(ch, C)
    PROVE  \E g \in [SUBSET C -> V] : Solves(ch, b, step, C, g)
<1> DEFINE Upto(g, n) == g \in [SUBSET C -> V]
                         /\ \A s \in SUBSET C : Cardinality(s) < n => g[s] = Turn(ch, b, step, g, s)
           T == {n \in Nat : ~\E g : Upto(g, n)}
<1>1. \A s \in SUBSET C : IsFiniteSet(s) /\ Cardinality(s) \in Nat
  BY FS_Subset, FS_CardinalityType
<1>2. \E g : Upto(g, 0)
  <2>1. Upto([s \in SUBSET C |-> b], 0)
    BY <1>1
  <2> QED BY <2>1
<1>3. ASSUME NEW n \in Nat, NEW g, Upto(g, n) PROVE \E h : Upto(h, n + 1)
  <2> DEFINE h == [s \in SUBSET C |-> Turn(ch, b, step, g, s)]
  <2>0. ASSUME NEW s \in SUBSET C, s # {} PROVE ch[s] \in s /\ s \ {ch[s]} \in SUBSET C
    BY <2>0 DEF Chooses
  <2>1. h \in [SUBSET C -> V]
    <3> SUFFICES ASSUME NEW s \in SUBSET C PROVE Turn(ch, b, step, g, s) \in V
      OBVIOUS
    <3>1. CASE s = {}
      BY <3>1 DEF Turn
    <3>2. CASE s # {}
      <4>1. ch[s] \in C /\ g[s \ {ch[s]}] \in V
        BY <1>3, <2>0, <3>2
      <4>2. step[ch[s]] \in [V -> V]
        BY <4>1
      <4> QED BY <3>2, <4>1, <4>2 DEF Turn
    <3> QED BY <3>1, <3>2
  <2>2. \A s \in SUBSET C : Cardinality(s) < n => h[s] = g[s]
    BY <1>3
  <2>3. ASSUME NEW s \in SUBSET C, Cardinality(s) < n + 1 PROVE h[s] = Turn(ch, b, step, h, s)
    <3>1. CASE s = {}
      BY <3>1 DEF Turn
    <3>2. CASE s # {}
      <4>0. IsFiniteSet(s) /\ Cardinality(s) \in Nat /\ ch[s] \in s
        BY <1>1, <2>0, <3>2
      <4>1. s \ {ch[s]} \in SUBSET C /\ Cardinality(s \ {ch[s]}) < n
        <5>1. Cardinality(s \ {ch[s]}) = Cardinality(s) - 1
          BY <4>0, FS_RemoveElement
        <5>2. Cardinality(s) < n + 1
          BY <2>3
        <5> QED BY <4>0, <5>1, <5>2
      <4>2. h[s \ {ch[s]}] = g[s \ {ch[s]}]
        BY <2>2, <4>1
      <4> QED BY <3>2, <4>2 DEF Turn
    <3> QED BY <3>1, <3>2
  <2>4. Upto(h, n + 1)
    BY <2>1, <2>3
  <2> QED BY <2>4
<1>4. T = {}
  <2> SUFFICES ASSUME T # {} PROVE FALSE
    OBVIOUS
  <2> HIDE DEF Upto
  <2>1. PICK n \in T : \A m \in T : n <= m
    BY LeastNat
  <2>2. n # 0 /\ n - 1 \in Nat /\ n - 1 \notin T
    BY <1>2, <2>1
  <2>3. \E g : Upto(g, n - 1)
    BY <2>2
  <2>4. \E h : Upto(h, n - 1 + 1)
    BY <1>3, <2>2, <2>3
  <2>5. n - 1 + 1 = n
    BY <2>1
  <2> QED BY <2>1, <2>4, <2>5
<1>5. PICK g : Upto(g, Cardinality(C) + 1)
  <2> HIDE DEF Upto
  <2>1. Cardinality(C) + 1 \in Nat
    BY <1>1
  <2> QED BY <1>4, <2>1
<1>6. \A s \in SUBSET C : Cardinality(s) < Cardinality(C) + 1
  BY <1>1, FS_Subset
<1>7. \A s \in SUBSET C : g[s] = Turn(ch, b, step, g, s)
  BY <1>5, <1>6
<1>8. g \in [SUBSET C -> V] /\ Solves(ch, b, step, C, g)
  BY <1>5, <1>7 DEF Solves
<1> QED BY <1>8

\* A sum of naturals from b: it exists, and is no less than b and any of them.
Sums(ch, b, w, C, g) == g = [s \in SUBSET C |-> IF s = {} THEN b ELSE g[s \ {ch[s]}] + w[ch[s]]]

\* So is a sum over one.
LEMMA SumSolved ==
    ASSUME NEW C, IsFiniteSet(C), NEW b \in Nat, NEW w \in [C -> Nat], NEW ch, Chooses(ch, C)
    PROVE  /\ \E g : Sums(ch, b, w, C, g)
           /\ \A g : Sums(ch, b, w, C, g) =>
                \A s \in SUBSET C : g[s] \in Nat /\ b <= g[s] /\ \A x \in s : b + w[x] <= g[s]
<1> DEFINE step == [x \in C |-> [v \in Nat |-> v + w[x]]]
<1>1. \E g : Sums(ch, b, w, C, g)
  <2>1. step \in [C -> [Nat -> Nat]]
    OBVIOUS
  <2>2. PICK g \in [SUBSET C -> Nat] : Solves(ch, b, step, C, g)
    <3> HIDE DEF step
    <3> QED BY <2>1, FoldSolved
  <2>3. ASSUME NEW s \in SUBSET C PROVE Turn(ch, b, step, g, s) = IF s = {} THEN b ELSE g[s \ {ch[s]}] + w[ch[s]]
    <3>1. CASE s = {}
      BY <3>1 DEF Turn
    <3>2. CASE s # {}
      <4>1. ch[s] \in C /\ g[s \ {ch[s]}] \in Nat
        BY <3>2 DEF Chooses
      <4> QED BY <3>2, <4>1 DEF Turn
    <3> QED BY <3>1, <3>2
  <2>4. Sums(ch, b, w, C, g)
    <3> HIDE DEF step
    <3> QED BY <2>2, <2>3 DEF Sums, Solves
  <2> QED BY <2>4
<1>2. ASSUME NEW g, Sums(ch, b, w, C, g)
      PROVE  \A s \in SUBSET C : g[s] \in Nat /\ b <= g[s] /\ \A x \in s : b + w[x] <= g[s]
  <2> DEFINE Good(s) == g[s] \in Nat /\ b <= g[s] /\ \A x \in s : b + w[x] <= g[s]
             F == {s \in SUBSET C : Good(s)}
  <2>1. ASSUME NEW s \in SUBSET C, \A t \in SUBSET s : t # s => t \in F PROVE s \in F
    <3>1. CASE s = {}
      <4>1. g[s] = b
        BY <1>2, <3>1 DEF Sums
      <4> QED BY <3>1, <4>1
    <3>2. CASE s # {}
      <4> DEFINE c == ch[s]
                 t == s \ {c}
      <4>1. c \in s /\ t \in SUBSET s /\ t # s
        BY <3>2 DEF Chooses
      <4>2. Good(t)
        BY <2>1, <4>1
      <4>3. w[c] \in Nat
        BY <4>1
      <4>4. g[s] = g[t] + w[c]
        BY <1>2, <3>2 DEF Sums
      <4> HIDE DEF c
      <4>5. g[s] \in Nat /\ b <= g[s] /\ b + w[c] <= g[s]
        BY <4>2, <4>3, <4>4
      <4>6. ASSUME NEW x \in s, x # c PROVE b + w[x] <= g[s]
        <5>1. x \in t /\ w[x] \in Nat
          BY <4>6
        <5> QED BY <4>2, <4>3, <4>4, <5>1
      <4> QED BY <4>5, <4>6
    <3> QED BY <3>1, <3>2
  <2>2. F = SUBSET C
    <3> HIDE DEF F
    <3>1. F \in SUBSET SUBSET C
      BY DEF F
    <3> QED BY <2>1, <3>1, SetInduction
  <2> QED BY <2>2
<1> QED BY <1>1, <1>2

-----------------------------------------------------------------------------
(* Texts and their sizes.                                                  *)

\* A finite set of numbers has a greatest one.
LEMMA Greatest ==
    ASSUME NEW n \in Nat, NEW s \in SUBSET (1..n), s # {}
    PROVE  Gate!Max(s) \in s /\ \A y \in s : Gate!Max(s) >= y
<1>1. s \in SUBSET (0..n) /\ \A x \in s : x \in Int
  OBVIOUS
<1>2. \E x \in s : \A y \in s : y <= x
  BY <1>1, GreatestNat
<1>3. \E x \in s : \A y \in s : x >= y
  BY <1>1, <1>2
<1> QED BY <1>3 DEF Gate!Max

TextSum(ts, g) ==
    g = [s \in SUBSET DOMAIN ts |-> IF s = {} THEN 1 ELSE g[s \ {Gate!Max(s)}] + Len(ts[Gate!Max(s)])]

\* The size of texts, one after the other.
LEMMA TextsAdd ==
    ASSUME NEW V, NEW ts \in Seq(Seq(V))
    PROVE  LET total == Gate!FoldLeft(LAMBDA m, t : m + Len(t), 1, ts)
           IN  total \in Nat /\ \A i \in DOMAIN ts : Len(ts[i]) <= total
<1> DEFINE C == 1..Len(ts)
           ch == [s \in SUBSET C |-> Gate!Max(s)]
           w == [i \in C |-> Len(ts[i])]
           total == Gate!FoldLeft(LAMBDA m, t : m + Len(t), 1, ts)
<1>1. total = (CHOOSE g : TextSum(ts, g))[DOMAIN ts]
  BY DEF Gate!FoldLeft, Gate!MapThenFoldSet, TextSum
<1>2. DOMAIN ts = C /\ IsFiniteSet(C)
  BY FS_Interval
<1>3. Chooses(ch, C)
  <2>1. ASSUME NEW s \in SUBSET C, s # {} PROVE Gate!Max(s) \in s
    <3>1. Len(ts) \in Nat
      OBVIOUS
    <3> QED BY <2>1, <3>1, Greatest
  <2> QED BY <2>1 DEF Chooses
<1>4. w \in [C -> Nat]
  OBVIOUS
<1>5. ASSUME NEW g PROVE TextSum(ts, g) <=> Sums(ch, 1, w, C, g)
  <2>1. ASSUME NEW s \in SUBSET C, s # {} PROVE ch[s] = Gate!Max(s) /\ w[ch[s]] = Len(ts[Gate!Max(s)])
    BY <1>3, <2>1 DEF Chooses
  <2> HIDE DEF ch, w
  <2>2. TextSum(ts, g) <=> g = [s \in SUBSET C |-> IF s = {} THEN 1 ELSE g[s \ {Gate!Max(s)}] + Len(ts[Gate!Max(s)])]
    BY <1>2 DEF TextSum
  <2>3. [s \in SUBSET C |-> IF s = {} THEN 1 ELSE g[s \ {Gate!Max(s)}] + Len(ts[Gate!Max(s)])]
        = [s \in SUBSET C |-> IF s = {} THEN 1 ELSE g[s \ {ch[s]}] + w[ch[s]]]
    BY <2>1
  <2> QED BY <2>2, <2>3 DEF Sums
<1> HIDE DEF ch, w, total
<1>6. \E g : TextSum(ts, g)
  BY <1>2, <1>3, <1>4, <1>5, SumSolved
<1>7. PICK g : TextSum(ts, g) /\ total = g[C]
  BY <1>1, <1>2, <1>6
<1>8. g[C] \in Nat /\ \A i \in C : 1 + w[i] <= g[C]
  BY <1>2, <1>3, <1>4, <1>5, <1>7, SumSolved
<1>9. \A i \in C : w[i] = Len(ts[i]) /\ Len(ts[i]) \in Nat
  BY DEF w
<1>10. \A i \in C : Len(ts[i]) <= g[C]
  BY <1>8, <1>9
<1> QED BY <1>2, <1>7, <1>8, <1>10 DEF total

SizeSum(obj, g) ==
    g = [s \in SUBSET DOMAIN obj |->
            IF s = {} THEN 0
            ELSE g[s \ {CHOOSE x \in s : TRUE}] + Gate!FoldLeft(LAMBDA m, t : m + Len(t), 1, obj[CHOOSE x \in s : TRUE])]

\* The sizes of texts are added up over their places: one more place adds its own.
LEMMA SizesSum ==
    ASSUME NEW V, NEW obj, IsFiniteSet(DOMAIN obj), \A f \in DOMAIN obj : obj[f] \in Seq(Seq(V)),
           NEW total, total = (CHOOSE g : SizeSum(obj, g))[DOMAIN obj]
    PROVE  total \in Nat /\ \A f \in DOMAIN obj : \A i \in DOMAIN obj[f] : Len(obj[f][i]) <= total
<1> DEFINE C == DOMAIN obj
           ch == [s \in SUBSET C |-> CHOOSE x \in s : TRUE]
           w == [f \in C |-> Gate!FoldLeft(LAMBDA m, t : m + Len(t), 1, obj[f])]
<1>1. total = (CHOOSE g : SizeSum(obj, g))[C]
  OBVIOUS
<1>2. Chooses(ch, C)
  BY DEF Chooses
<1>3. \A f \in C : w[f] \in Nat /\ \A i \in DOMAIN obj[f] : Len(obj[f][i]) <= w[f]
  BY TextsAdd
<1>4. w \in [C -> Nat]
  BY <1>3
<1>5. ASSUME NEW g PROVE SizeSum(obj, g) <=> Sums(ch, 0, w, C, g)
  <2> DEFINE W(f) == Gate!FoldLeft(LAMBDA m, t : m + Len(t), 1, obj[f])
  <2>1. ASSUME NEW s \in SUBSET C, s # {} PROVE ch[s] = (CHOOSE x \in s : TRUE) /\ w[ch[s]] = W(CHOOSE x \in s : TRUE)
    BY <1>2, <2>1 DEF Chooses
  <2>2. SizeSum(obj, g) <=> g = [s \in SUBSET C |-> IF s = {} THEN 0 ELSE g[s \ {CHOOSE x \in s : TRUE}] + W(CHOOSE x \in s : TRUE)]
    BY DEF SizeSum
  <2> HIDE DEF ch, w, W
  <2>3. [s \in SUBSET C |-> IF s = {} THEN 0 ELSE g[s \ {CHOOSE x \in s : TRUE}] + W(CHOOSE x \in s : TRUE)]
        = [s \in SUBSET C |-> IF s = {} THEN 0 ELSE g[s \ {ch[s]}] + w[ch[s]]]
    BY <2>1
  <2> QED BY <2>2, <2>3 DEF Sums
<1> HIDE DEF ch, w
<1>6. \E g : SizeSum(obj, g)
  BY <1>2, <1>4, <1>5, SumSolved
<1>7. PICK g : SizeSum(obj, g) /\ total = g[C]
  BY <1>1, <1>6
<1>8. g[C] \in Nat /\ \A f \in C : 0 + w[f] <= g[C]
  BY <1>2, <1>4, <1>5, <1>7, SumSolved
<1>9. \A f \in C : \A i \in DOMAIN obj[f] : Len(obj[f][i]) \in Nat
  OBVIOUS
<1>10. \A f \in C : \A i \in DOMAIN obj[f] : Len(obj[f][i]) <= g[C]
  BY <1>3, <1>8, <1>9
<1> QED BY <1>7, <1>8, <1>10

\* The size of a result is the sum over the nodes of its object.
LEMMA SizeAdds ==
    ASSUME NEW V, NEW given, IsFiniteSet(DOMAIN Gate!Spell(given)),
           \A f \in DOMAIN Gate!Spell(given) : Gate!Spell(given)[f] \in Seq(Seq(V))
    PROVE  Gate!Size(given) \in Nat
<1> PICK obj : obj = Gate!Spell(given)
  OBVIOUS
<1>1. Gate!Size(given) = (CHOOSE g : SizeSum(obj, g))[DOMAIN obj]
  BY DEF Gate!Size, Gate!FoldFunction, Gate!FoldFunctionOnSet, Gate!MapThenFoldSet, SizeSum
<1>2. IsFiniteSet(DOMAIN obj) /\ \A f \in DOMAIN obj : obj[f] \in Seq(Seq(V))
  OBVIOUS
<1> QED BY <1>1, <1>2, SizesSum

\* Texts put one after another are a text.
Joined(ss, f) == f = [i \in 1..Len(ss) |-> IF i = 1 THEN ss[i] ELSE f[i - 1] \o ss[i]]

\* Texts put into one are a text.
LEMMA FlattenType ==
    ASSUME NEW V, NEW ss \in Seq(Seq(V))
    PROVE  Gate!FlattenSeq(ss) \in Seq(V)
<1> DEFINE Upto(f, n) == f \in [0..n -> Seq(V)] /\ \A i \in 1..n : f[i] = IF i = 1 THEN ss[i] ELSE f[i - 1] \o ss[i]
           T == {n \in 0..Len(ss) : \E f : Upto(f, n)}
<1>1. 0 \in T
  <2>1. [i \in 0..0 |-> <<>>] \in [0..0 -> Seq(V)] /\ 1..0 = {}
    OBVIOUS
  <2>2. Upto([i \in 0..0 |-> <<>>], 0)
    BY <2>1
  <2>3. 0 \in 0..Len(ss)
    OBVIOUS
  <2> HIDE DEF Upto
  <2> QED BY <2>2, <2>3
<1>2. ASSUME NEW n \in T, n # Len(ss) PROVE n + 1 \in T
  <2>1. PICK f : Upto(f, n)
    OBVIOUS
  <2>2. n + 1 \in 1..Len(ss) /\ ss[n + 1] \in Seq(V)
    BY <1>2
  <2> DEFINE h == [i \in 0..n + 1 |-> IF i = n + 1 THEN (IF i = 1 THEN ss[i] ELSE f[i - 1] \o ss[i]) ELSE f[i]]
  <2>3. h \in [0..n + 1 -> Seq(V)]
    BY <2>1, <2>2
  <2>4. \A i \in 1..n + 1 : h[i] = IF i = 1 THEN ss[i] ELSE h[i - 1] \o ss[i]
    <3>1. n \in Nat /\ \A i \in 1..n : f[i] = IF i = 1 THEN ss[i] ELSE f[i - 1] \o ss[i]
      BY <2>1
    <3>2. \A i \in 0..n : h[i] = f[i]
      BY <3>1
    <3>3. h[n + 1] = IF n + 1 = 1 THEN ss[n + 1] ELSE f[n] \o ss[n + 1]
      BY <3>1
    <3> HIDE DEF h
    <3>4. ASSUME NEW i \in 1..n + 1 PROVE h[i] = IF i = 1 THEN ss[i] ELSE h[i - 1] \o ss[i]
      <4>1. CASE i = n + 1
        <5>1. h[n] = f[n] /\ i - 1 = n
          BY ONLY <3>1, <3>2, <4>1
        <5> QED BY ONLY <3>3, <4>1, <5>1
      <4>2. CASE i # n + 1
        <5>1. i \in 1..n /\ i \in 0..n /\ i - 1 \in 0..n
          BY ONLY <3>1, <3>4, <4>2
        <5>2. h[i] = f[i] /\ h[i - 1] = f[i - 1]
          BY ONLY <3>2, <5>1
        <5>3. f[i] = IF i = 1 THEN ss[i] ELSE f[i - 1] \o ss[i]
          BY ONLY <3>1, <5>1
        <5> QED BY ONLY <5>2, <5>3
      <4> QED BY ONLY <4>1, <4>2
    <3> QED BY ONLY <3>4
  <2>5. Upto(h, n + 1)
    <3> HIDE DEF h
    <3> QED BY <2>3, <2>4
  <2>6. n + 1 \in 0..Len(ss)
    BY <2>2
  <2> HIDE DEF h, Upto
  <2> QED BY <2>5, <2>6
<1>3. Len(ss) \in T
  <2> HIDE DEF Upto
  <2>1. Len(ss) \in Nat /\ T \in SUBSET (0..Len(ss)) /\ T # {}
    BY <1>1
  <2> HIDE DEF T
  <2>2. PICK k \in T : \A m \in T : m <= k
    BY <2>1, GreatestNat
  <2> QED BY <1>2, <2>1, <2>2
<1>4. CASE ss = <<>>
  BY <1>4 DEF Gate!FlattenSeq
<1>5. CASE ss # <<>>
  <2>1. Len(ss) \in Nat \ {0}
    BY <1>5
  <2>2. Gate!FlattenSeq(ss) = (CHOOSE f : Joined(ss, f))[Len(ss)]
    BY <2>1 DEF Gate!FlattenSeq, Joined
  <2>3. \E f : Joined(ss, f)
    <3>1. PICK f : Upto(f, Len(ss))
      BY <1>3
    <3>2. Joined(ss, [i \in 1..Len(ss) |-> f[i]])
      BY <2>1, <3>1 DEF Joined
    <3> QED BY <3>2
  <2>4. PICK f : Joined(ss, f) /\ Gate!FlattenSeq(ss) = f[Len(ss)]
    BY <2>2, <2>3
  <2> DEFINE U == {n \in Nat : n \in 1..Len(ss) /\ f[n] \notin Seq(V)}
  <2>5. U = {}
    <3> SUFFICES ASSUME U # {} PROVE FALSE
      OBVIOUS
    <3>1. PICK n \in U : \A m \in U : n <= m
      BY LeastNat
    <3>2. n # 1
      BY <2>4, <3>1 DEF Joined
    <3>3. n - 1 \in 1..Len(ss) /\ n - 1 \notin U
      BY <3>1, <3>2
    <3>4. f[n - 1] \in Seq(V) /\ ss[n] \in Seq(V)
      BY <3>1, <3>3
    <3>5. f[n] = f[n - 1] \o ss[n]
      BY <2>4, <3>1, <3>2 DEF Joined
    <3>6. f[n] \in Seq(V)
      <4> HIDE DEF U
      <4> QED BY <3>4, <3>5
    <3> QED BY <3>1, <3>6
  <2> QED BY <2>1, <2>4, <2>5
<1> QED BY <1>4, <1>5

\* A result spelled out, cut to what a call may return, fits it.
LEMMA Spelled ==
    ASSUME NEW V, NEW a \in V, NEW b \in V, NEW c \in V, NEW d \in V, NEW e \in V
    PROVE  <<a>> \in Seq(V) /\ <<a, b>> \in Seq(V) /\ <<a, b, c, d, d, d, d, e>> \in Seq(V)
OBVIOUS

\* Whatever a reader may see.
Seen == (STRING \cup {"\\", "u", "{", "0", "}", "too", "large"}) \ {"hidden"}

\* A text that is cleaned stays one.
LEMMA CleanType ==
    ASSUME NEW text \in Seq(STRING)
    PROVE  Gate!Clean(text) \in Seq(Seen)
<1> DEFINE V == Seen
           ss == [i \in DOMAIN text |-> IF text[i] = "hidden" THEN Gate!Written ELSE <<text[i]>>]
<1>1. Gate!Written \in Seq(V)
  <2>1. "\\" \in V /\ "u" \in V /\ "{" \in V /\ "0" \in V /\ "}" \in V
    BY DEF Seen
  <2> HIDE DEF V
  <2> QED BY <2>1, Spelled DEF Gate!Written
<1>2. ss \in Seq(Seq(V))
  <2>1. \A i \in DOMAIN text : text[i] \in STRING
    OBVIOUS
  <2>2. ASSUME NEW i \in DOMAIN text, text[i] # "hidden" PROVE <<text[i]>> \in Seq(V)
    <3>1. text[i] \in V
      BY <2>1, <2>2 DEF Seen
    <3> HIDE DEF V
    <3> QED BY <3>1
  <2>3. \A i \in DOMAIN text : ss[i] \in Seq(V)
    <3> HIDE DEF V
    <3> QED BY <1>1, <2>2
  <2>4. DOMAIN ss = 1..Len(text) /\ Len(text) \in Nat
    OBVIOUS
  <2> HIDE DEF V
  <2> QED BY <2>3, <2>4
<1> QED BY <1>2, FlattenType DEF Gate!Clean

\* Cleaning a step leaves its kind, and all of it if it is into a list.
LEMMA StepStays ==
    ASSUME NEW s \in JsonSteps
    PROVE  LET c == Gate!CleanStep(s)
           IN  /\ c.of = s.of
               /\ s.of = "item" => c = s
               /\ s.of # "key" => s.of = "item"
               /\ s.of = "key" => c.key \in Seq(Seen)
<1>1. CASE s.of = "key"
  <2>1. s.key \in Seq(STRING)
    BY <1>1 DEF JsonSteps
  <2>2. Gate!Clean(s.key) \in Seq(Seen)
    BY <2>1, CleanType
  <2>3. Gate!CleanStep(s) = [of |-> "key", key |-> Gate!Clean(s.key)]
    BY <1>1 DEF Gate!CleanStep, Gate!KeyStep
  <2> QED BY <1>1, <2>2, <2>3
<1>2. CASE s.of # "key"
  <2>1. s.of = "item" /\ Gate!CleanStep(s) = s
    BY <1>2 DEF JsonSteps, Gate!CleanStep
  <2> QED BY <1>2, <2>1
<1> QED BY <1>1, <1>2

\* Two paths that become one part at two keys that are written alike.
LEMMA PathsPart ==
    ASSUME NEW p \in Seq(JsonSteps), NEW q \in Seq(JsonSteps), p # q, Gate!CleanPath(p) = Gate!CleanPath(q)
    PROVE  Gate!Clash(p, q)
<1> DEFINE apart == {i \in Nat : i \in DOMAIN p /\ p[i] # q[i]}
<1>1. /\ DOMAIN p = DOMAIN q
      /\ \A i \in DOMAIN p : Gate!CleanStep(p[i]) = Gate!CleanStep(q[i])
  <2>1. DOMAIN Gate!CleanPath(p) = DOMAIN p /\ DOMAIN Gate!CleanPath(q) = DOMAIN q
    BY DEF Gate!CleanPath
  <2>2. DOMAIN p = DOMAIN q
    BY <2>1
  <2>3. ASSUME NEW i \in DOMAIN p PROVE Gate!CleanStep(p[i]) = Gate!CleanStep(q[i])
    <3>1. Gate!CleanPath(p)[i] = Gate!CleanStep(p[i]) /\ Gate!CleanPath(q)[i] = Gate!CleanStep(q[i])
      BY <2>2 DEF Gate!CleanPath
    <3> QED BY <3>1
  <2> QED BY <2>2, <2>3
<1>2. apart # {}
  <2>1. DOMAIN p = 1..Len(p) /\ DOMAIN q = 1..Len(q) /\ Len(p) \in Nat /\ Len(q) \in Nat
    OBVIOUS
  <2>2. \E i \in DOMAIN p : p[i] # q[i]
    <3>1. SUFFICES ASSUME \A i \in DOMAIN p : p[i] = q[i] PROVE FALSE
      OBVIOUS
    <3>2. p = [i \in 1..Len(p) |-> p[i]] /\ q = [i \in 1..Len(q) |-> q[i]]
      <4> HIDE <1>1, <2>1, <3>1
      <4> QED OBVIOUS
    <3>3. DOMAIN p = DOMAIN q
      BY <1>1
    <3>4. Len(p) = Len(q)
      <4>1. 1..Len(p) = 1..Len(q) /\ Len(p) \in Nat /\ Len(q) \in Nat
        BY <2>1, <3>3
      <4> PICK m \in Nat, n \in Nat : m = Len(p) /\ n = Len(q)
        BY <4>1
      <4>2. \A j \in Int : j \in 1..m <=> j \in 1..n
        BY <4>1
      <4>3. m = n
        BY <4>2
      <4> QED BY <4>3
    <3>5. [i \in 1..Len(p) |-> p[i]] = [i \in 1..Len(q) |-> q[i]]
      BY <2>1, <3>1, <3>4
    <3> QED BY <3>2, <3>5
  <2> QED BY <2>1, <2>2
<1>3. PICK i \in apart : \A m \in apart : i <= m
  BY <1>2, LeastNat
<1>4. ASSUME NEW j \in 1..(i - 1) PROVE p[j] = q[j]
  <2>1. DOMAIN p = 1..Len(p) /\ Len(p) \in Nat /\ i \in DOMAIN p
    OBVIOUS
  <2>2. j \in Nat /\ j \in DOMAIN p /\ ~(i <= j)
    BY <2>1
  <2> QED BY <1>3, <2>2
<1> QED BY <1>1, <1>3, <1>4 DEF Gate!Clash, Gate!Together

\* What the values that survive become: each is at its own place, cleaned.
LEMMA SurvivorsLeave ==
    ASSUME NEW d, DOMAIN d \subseteq Seq(JsonSteps), NEW kept \in Gate!Survivors(d)
    PROVE  LET out == Gate!Walk(d, kept)
           IN  /\ kept \subseteq DOMAIN d
               /\ DOMAIN out = {Gate!CleanPath(p) : p \in kept}
               /\ \A p \in kept : out[Gate!CleanPath(p)] = Gate!Clean(d[p])
<1>1. kept \subseteq DOMAIN d /\ \A p, q \in kept : ~Gate!Clash(p, q)
  BY DEF Gate!Survivors
<1>2. DOMAIN Gate!Walk(d, kept) = {Gate!CleanPath(p) : p \in kept}
  BY DEF Gate!Walk
<1>3. ASSUME NEW p \in kept PROVE Gate!Walk(d, kept)[Gate!CleanPath(p)] = Gate!Clean(d[p])
  <2> DEFINE c == Gate!CleanPath(p)
             r == CHOOSE q \in kept : Gate!CleanPath(q) = c
  <2>1. r \in kept /\ Gate!CleanPath(r) = c
    OBVIOUS
  <2>2. r \in Seq(JsonSteps) /\ p \in Seq(JsonSteps)
    BY <1>1, <2>1
  <2>3. Gate!Walk(d, kept)[c] = Gate!Clean(d[r])
    BY DEF Gate!Walk
  <2> HIDE DEF r
  <2>4. r = p
    BY <1>1, <2>1, <2>2, PathsPart
  <2> QED BY <2>3, <2>4
<1> QED BY <1>1, <1>2, <1>3

\* Of the lists on a path that is kept all items are.
LEMMA ItemsStay ==
    ASSUME NEW d, DOMAIN d \subseteq Seq(JsonSteps), NEW kept \in Gate!Survivors(d),
           NEW p \in kept, NEW q \in DOMAIN d, NEW i \in DOMAIN p \cap DOMAIN q,
           Gate!Together(p, q, i), q[i].of = "item"
    PROVE  \E s \in kept : i \in DOMAIN s /\ \A j \in 1..i : s[j] = q[j]
<1>1. /\ kept \subseteq DOMAIN d /\ \A a, b \in kept : ~Gate!Clash(a, b)
      /\ q \notin kept => \E b \in kept : Gate!Clash(q, b)
  BY DEF Gate!Survivors
<1>2. CASE q \in kept
  BY <1>2
<1>3. CASE q \notin kept
  <2>1. PICK b \in kept : Gate!Clash(q, b)
    BY <1>1, <1>3
  <2>2. PICK k \in DOMAIN q \cap DOMAIN b :
            Gate!Together(q, b, k) /\ q[k] # b[k] /\ Gate!CleanStep(q[k]) = Gate!CleanStep(b[k])
    BY <2>1 DEF Gate!Clash
  <2>3. p \in Seq(JsonSteps) /\ q \in Seq(JsonSteps) /\ b \in Seq(JsonSteps)
    BY <1>1
  <2>4. /\ DOMAIN p = 1..Len(p) /\ DOMAIN q = 1..Len(q) /\ DOMAIN b = 1..Len(b)
        /\ Len(p) \in Nat /\ Len(q) \in Nat /\ Len(b) \in Nat
    BY <2>3
  <2>5. ~(k < i)
    <3> SUFFICES ASSUME k < i PROVE FALSE
      OBVIOUS
    <3>1. k \in DOMAIN p /\ p[k] = q[k] /\ \A j \in 1..(k - 1) : p[j] = b[j]
      BY <2>2, <2>4 DEF Gate!Together
    <3>2. Gate!Clash(p, b)
      BY <2>2, <3>1 DEF Gate!Clash, Gate!Together
    <3> QED BY <1>1, <3>2
  <2>6. k # i
    <3> SUFFICES ASSUME k = i PROVE FALSE
      OBVIOUS
    <3>1. q[i] \in JsonSteps /\ b[i] \in JsonSteps
      BY <2>2, <2>3, <2>4
    <3>2. Gate!CleanStep(q[i]) = q[i] /\ b[i].of = "item" /\ Gate!CleanStep(b[i]) = b[i]
      BY <2>2, <3>1, StepStays
    <3> QED BY <2>2, <3>2
  <2>7. i \in DOMAIN b /\ \A j \in 1..i : b[j] = q[j]
    BY <2>2, <2>4, <2>5, <2>6 DEF Gate!Together
  <2> QED BY <2>7
<1> QED BY <1>2, <1>3

\* What is written at a node of what leaves has been cleaned, key and value.
LEMMA NodesAreClean ==
    ASSUME NEW d, IsFiniteSet(DOMAIN d), DOMAIN d \subseteq Seq(JsonSteps),
           \A p \in DOMAIN d : d[p] \in Seq(STRING), NEW kept \in Gate!Survivors(d)
    PROVE  LET obj == Gate!Walk(d, kept)
           IN  /\ IsFiniteSet(Gate!Nodes(obj))
               /\ DOMAIN Gate!Spell(obj) = Gate!Nodes(obj)
               /\ \A n \in Gate!Nodes(obj) : Gate!Spell(obj)[n] \in Seq(Seq(Seen))
<1> DEFINE obj == Gate!Walk(d, kept)
           at == [p \in kept |-> Gate!CleanPath(p)]
<1>1. /\ kept \subseteq DOMAIN d /\ DOMAIN obj = {Gate!CleanPath(p) : p \in kept}
      /\ \A p \in kept : obj[Gate!CleanPath(p)] = Gate!Clean(d[p])
  BY SurvivorsLeave
<1>2. DOMAIN Gate!Spell(obj) = Gate!Nodes(obj)
  BY DEF Gate!Spell
<1>3. ASSUME NEW p \in kept
      PROVE  LET c == Gate!CleanPath(p)
             IN  /\ DOMAIN c = 1..Len(p) /\ Len(p) \in Nat
                 /\ \A i \in DOMAIN c : c[i].of = "key" => c[i].key \in Seq(Seen)
  <2>1. p \in Seq(JsonSteps)
    BY <1>1
  <2>2. DOMAIN Gate!CleanPath(p) = 1..Len(p) /\ \A i \in 1..Len(p) : Gate!CleanPath(p)[i] = Gate!CleanStep(p[i])
    BY <2>1 DEF Gate!CleanPath
  <2>3. \A i \in 1..Len(p) : p[i] \in JsonSteps
    BY <2>1
  <2>4. ASSUME NEW i \in 1..Len(p), Gate!CleanPath(p)[i].of = "key" PROVE Gate!CleanPath(p)[i].key \in Seq(Seen)
    BY <2>2, <2>3, <2>4, StepStays
  <2> QED BY <2>1, <2>2, <2>4
<1>4. IsFiniteSet(DOMAIN obj)
  <2>1. IsFiniteSet(kept)
    BY <1>1, FS_Subset
  <2>2. at \in Surjection(kept, DOMAIN obj)
    BY <1>1 DEF Surjection, Range
  <2> QED BY <2>1, <2>2, FS_Surjection
<1> HIDE DEF obj, at
<1>5. IsFiniteSet(Gate!Nodes(obj))
  <2> DEFINE upto(c) == {SubSeq(c, 1, i) : i \in DOMAIN c}
             all == {upto(c) : c \in DOMAIN obj}
             up == [c \in DOMAIN obj |-> upto(c)]
  <2>1. ASSUME NEW c \in DOMAIN obj PROVE IsFiniteSet(upto(c))
    <3>1. PICK p \in kept : c = Gate!CleanPath(p)
      BY <1>1
    <3>2. DOMAIN c = 1..Len(p) /\ Len(p) \in Nat
      BY <1>3, <3>1
    <3>3. IsFiniteSet(DOMAIN c)
      BY <3>2, FS_Interval
    <3>4. [i \in DOMAIN c |-> SubSeq(c, 1, i)] \in Surjection(DOMAIN c, upto(c))
      BY DEF Surjection, Range
    <3> HIDE DEF upto
    <3> QED BY <3>3, <3>4, FS_Surjection
  <2>2. up \in Surjection(DOMAIN obj, all)
    <3> HIDE DEF upto
    <3> QED BY DEF Surjection, Range
  <2>3. IsFiniteSet(all)
    <3> HIDE DEF up, all
    <3> QED BY <1>4, <2>2, FS_Surjection
  <2>4. \A T \in all : IsFiniteSet(T)
    <3> HIDE DEF upto
    <3> QED BY <2>1
  <2>5. Gate!Nodes(obj) = UNION all
    BY DEF Gate!Nodes
  <2> HIDE DEF all
  <2> QED BY <2>3, <2>4, <2>5, FS_UNION
<1>6. ASSUME NEW n \in Gate!Nodes(obj) PROVE Gate!Spell(obj)[n] \in Seq(Seq(Seen))
  <2> DEFINE V == Seq(Seen)
             key == IF Gate!Last(n).of = "key" THEN <<Gate!Last(n).key>> ELSE <<>>
             text == IF n \in DOMAIN obj THEN <<obj[n]>> ELSE <<>>
  <2>1. PICK c \in DOMAIN obj : \E i \in DOMAIN c : n = SubSeq(c, 1, i)
    BY DEF Gate!Nodes
  <2> PICK i \in DOMAIN c : n = SubSeq(c, 1, i)
    BY <2>1
  <2>2. PICK p \in kept : c = Gate!CleanPath(p)
    BY <1>1, <2>1
  <2>3. DOMAIN c = 1..Len(p) /\ Len(p) \in Nat /\ (c[i].of = "key" => c[i].key \in V)
    BY <1>3, <2>1, <2>2
  <2>4. Gate!Last(n) = c[i]
    <3>1. n = [j \in 1..i |-> c[j]] /\ i \in Nat /\ i >= 1
      BY <2>1, <2>3 DEF SubSeq
    <3>2. Len(n) = i /\ n[i] = c[i]
      BY <3>1
    <3> QED BY <3>2 DEF Gate!Last
  <2>5. ASSUME n \in DOMAIN obj PROVE obj[n] \in V
    <3>1. PICK s \in kept : n = Gate!CleanPath(s)
      BY <1>1, <2>5
    <3>2. d[s] \in Seq(STRING) /\ obj[n] = Gate!Clean(d[s])
      BY <1>1, <3>1
    <3> QED BY <3>2, CleanType
  <2>6. Gate!Spell(obj)[n] = key \o text
    BY DEF Gate!Spell
  <2> HIDE DEF V
  <2>7. key \in Seq(V)
    BY <2>3, <2>4
  <2>8. text \in Seq(V)
    BY <2>5
  <2> HIDE DEF key, text
  <2>9. key \o text \in Seq(V)
    BY <2>7, <2>8
  <2> QED BY <2>6, <2>9 DEF V
<1> QED BY <1>2, <1>5, <1>6 DEF obj

\* A result leaves clean and whole, or as an error's cut text; never over the limit.
LEMMA ResultIsKept ==
    ASSUME NEW q, ResultRequest(q)
    PROVE  Gate!ResultIsWhole(q.result)
<1> PICK r : r = q.result
  OBVIOUS
<1> SUFFICES ASSUME NEW out \in Gate!Sanitize(r)
             PROVE  /\ out # None /\ out.error => "hidden" \notin Gate!ToSet(out.text) /\ Len(out.text) <= MaxResult
                    /\ out # None /\ ~out.error =>
                       /\ Gate!Size(out.obj) <= MaxResult
                       /\ \A n \in Gate!Nodes(out.obj) : \A t \in Gate!ToSet(Gate!Spell(out.obj)[n]) :
                             "hidden" \notin Gate!ToSet(t)
                       /\ \A p \in DOMAIN r.obj : \E s \in DOMAIN r.obj :
                             /\ s = p \/ Gate!Clash(p, s)
                             /\ Gate!CleanPath(s) \in DOMAIN out.obj
                             /\ out.obj[Gate!CleanPath(s)] = Gate!Clean(r.obj[s])
                       /\ \A c \in DOMAIN out.obj : \E p \in DOMAIN r.obj :
                             /\ c = Gate!CleanPath(p) /\ out.obj[c] = Gate!Clean(r.obj[p])
                             /\ \A s \in DOMAIN r.obj : \A i \in DOMAIN p \cap DOMAIN s :
                                   Gate!Together(p, s, i) /\ s[i].of = "item" =>
                                       \E e \in DOMAIN out.obj : i \in DOMAIN e
                                                              /\ \A j \in 1..i : e[j] = Gate!CleanStep(s[j])
  BY DEF Gate!ResultIsWhole
<1> DEFINE V == Seen
<1>1. /\ r.error \in BOOLEAN /\ r.text \in Seq(STRING)
      /\ r.obj # None => /\ IsFiniteSet(DOMAIN r.obj) /\ DOMAIN r.obj \subseteq Seq(JsonSteps)
                         /\ \A p \in DOMAIN r.obj : r.obj[p] \in Seq(STRING)
  BY DEF ResultRequest
<1>2. \A t \in Seq(V) : "hidden" \notin Gate!ToSet(t)
  <2>1. "hidden" \notin V
    BY DEF Seen
  <2> HIDE DEF V
  <2>2. \A t \in Seq(V) : \A i \in DOMAIN t : t[i] \in V
    OBVIOUS
  <2> QED BY <2>1, <2>2 DEF Gate!ToSet
<1>3. ASSUME NEW t \in Seq(V), Len(t) <= MaxResult, out = Gate!Failed(t)
      PROVE  /\ out.error /\ "hidden" \notin Gate!ToSet(out.text) /\ Len(out.text) <= MaxResult
  <2>1. out.error = TRUE /\ out.text = t
    BY <1>3 DEF Gate!Failed
  <2> QED BY <1>2, <1>3, <2>1
<1>4. CASE r.error
  <2> DEFINE c == Gate!Clean(r.text)
             n == IF Len(c) < MaxResult THEN Len(c) ELSE MaxResult
  <2>1. c \in Seq(V) /\ n \in 0..Len(c) /\ n <= MaxResult
    BY <1>1, CleanType, LimitsAreNumbers
  <2>2. SubSeq(c, 1, n) \in Seq(V) /\ Len(SubSeq(c, 1, n)) = n
    BY <2>1
  <2>3. out = Gate!Failed(SubSeq(c, 1, n))
    BY <1>4 DEF Gate!Sanitize
  <2> HIDE DEF c, n
  <2> QED BY <1>3, <2>1, <2>2, <2>3
<1>5. CASE ~r.error /\ r.obj = None
  <2>1. out = None
    BY <1>5 DEF Gate!Sanitize
  <2> QED BY <2>1
<1>6. CASE ~r.error /\ r.obj # None
  <2>1. PICK kept \in Gate!Survivors(r.obj) : out = Gate!Measured(r, Gate!Walk(r.obj, kept))
    BY <1>6 DEF Gate!Sanitize
  <2> DEFINE obj == Gate!Walk(r.obj, kept)
  <2>2. IsFiniteSet(DOMAIN r.obj) /\ DOMAIN r.obj \subseteq Seq(JsonSteps) /\ \A p \in DOMAIN r.obj : r.obj[p] \in Seq(STRING)
    BY <1>1, <1>6
  <2>3. /\ IsFiniteSet(Gate!Nodes(obj)) /\ DOMAIN Gate!Spell(obj) = Gate!Nodes(obj)
        /\ \A n \in Gate!Nodes(obj) : Gate!Spell(obj)[n] \in Seq(Seq(V))
    BY <2>2, NodesAreClean
  <2>4. Gate!Size(obj) \in Nat
    <3> HIDE DEF obj, V
    <3>1. IsFiniteSet(DOMAIN Gate!Spell(obj)) /\ \A n \in DOMAIN Gate!Spell(obj) : Gate!Spell(obj)[n] \in Seq(Seq(V))
      BY <2>3
    <3> QED BY <3>1, SizeAdds
  <2>5. CASE Gate!Size(obj) > MaxResult
    <3>1. out = Gate!Failed(<<"too", "large">>)
      BY <2>1, <2>5 DEF Gate!Measured, obj
    <3>2. <<"too", "large">> \in Seq(V) /\ Len(<<"too", "large">>) <= MaxResult
      <4>1. "too" \in V /\ "large" \in V
        BY DEF Seen
      <4> HIDE DEF V
      <4>2. <<"too", "large">> \in Seq(V)
        BY <4>1, Spelled
      <4> QED BY <4>2, LimitsAreNumbers
    <3> QED BY <1>3, <3>1, <3>2
  <2>6. CASE ~(Gate!Size(obj) > MaxResult)
    <3>1. out.error = FALSE /\ out.obj = obj
      BY <2>1, <2>6 DEF Gate!Measured
    <3>2. /\ kept \subseteq DOMAIN r.obj /\ DOMAIN obj = {Gate!CleanPath(p) : p \in kept}
          /\ \A p \in kept : obj[Gate!CleanPath(p)] = Gate!Clean(r.obj[p])
      BY <2>2, SurvivorsLeave
    <3> HIDE DEF obj
    <3>3. Gate!Size(obj) <= MaxResult
      BY <2>4, <2>6, LimitsAreNumbers
    <3>4. ASSUME NEW n \in Gate!Nodes(obj), NEW t \in Gate!ToSet(Gate!Spell(obj)[n]) PROVE "hidden" \notin Gate!ToSet(t)
      <4>1. PICK i \in DOMAIN Gate!Spell(obj)[n] : t = Gate!Spell(obj)[n][i]
        BY DEF Gate!ToSet
      <4>2. t \in Seq(V)
        <5> HIDE DEF V
        <5> QED BY <2>3, <4>1
      <4> QED BY <1>2, <4>2
    <3>5. ASSUME NEW p \in DOMAIN r.obj
          PROVE  \E s \in DOMAIN r.obj : /\ s = p \/ Gate!Clash(p, s)
                                         /\ Gate!CleanPath(s) \in DOMAIN obj
                                         /\ obj[Gate!CleanPath(s)] = Gate!Clean(r.obj[s])
      <4>1. \E s \in kept : s = p \/ Gate!Clash(p, s)
        BY <2>1 DEF Gate!Survivors
      <4> QED BY <3>2, <4>1
    <3>6. ASSUME NEW c \in DOMAIN obj
          PROVE  \E p \in DOMAIN r.obj :
                    /\ c = Gate!CleanPath(p) /\ obj[c] = Gate!Clean(r.obj[p])
                    /\ \A s \in DOMAIN r.obj : \A i \in DOMAIN p \cap DOMAIN s :
                          Gate!Together(p, s, i) /\ s[i].of = "item" =>
                              \E e \in DOMAIN obj : i \in DOMAIN e /\ \A j \in 1..i : e[j] = Gate!CleanStep(s[j])
      <4>1. PICK p \in kept : c = Gate!CleanPath(p)
        BY <3>2
      <4>2. ASSUME NEW s \in DOMAIN r.obj, NEW i \in DOMAIN p \cap DOMAIN s,
                   Gate!Together(p, s, i), s[i].of = "item"
            PROVE  \E e \in DOMAIN obj : i \in DOMAIN e /\ \A j \in 1..i : e[j] = Gate!CleanStep(s[j])
        <5>1. PICK b \in kept : i \in DOMAIN b /\ \A j \in 1..i : b[j] = s[j]
          BY <2>2, <4>2, ItemsStay
        <5>2. b \in Seq(JsonSteps)
          BY <2>2, <3>2
        <5>3. DOMAIN b = 1..Len(b) /\ Len(b) \in Nat
          BY <5>2
        <5>4. \A j \in 1..i : j \in DOMAIN b
          BY <5>1, <5>3
        <5>5. DOMAIN Gate!CleanPath(b) = DOMAIN b /\ \A j \in 1..i : Gate!CleanPath(b)[j] = Gate!CleanStep(s[j])
          BY <5>1, <5>4 DEF Gate!CleanPath
        <5>6. Gate!CleanPath(b) \in DOMAIN obj
          BY <3>2
        <5> QED BY <5>1, <5>5, <5>6
      <4> QED BY <3>2, <4>1, <4>2
    <3> QED BY <3>1, <3>3, <3>4, <3>5, <3>6
  <2> QED BY <2>5, <2>6
<1> QED BY <1>1, <1>4, <1>5, <1>6

-----------------------------------------------------------------------------
(* The header reports: the lifetime at the edge,                           *)

ServedAt(O, A, t) == IF t.toolset = O THEN {O} ELSE {t.toolset, A}
Placement(Pub, Own, O, A) ==
    [e \in UNION {ServedAt(O, A, t) : t \in Pub \cup Own} |-> {t \in Pub \cup Own : e \in ServedAt(O, A, t)}]

\* Where a tool is served, whatever the owner's endpoint and the one of all are called.
LEMMA Placed ==
    ASSUME NEW Pub, NEW Own, NEW O, NEW A, O # A,
           \A t \in Own : t.toolset = O, \A t \in Pub : t.toolset # O,
           NEW eps, eps = Placement(Pub, Own, O, A)
    PROVE  /\ \A e \in DOMAIN eps : e \in {O, A} \/ \E t \in Pub : e = t.toolset
           /\ O \in DOMAIN eps => eps[O] = Own
           /\ \A e \in DOMAIN eps : e # O => eps[e] \subseteq Pub
           /\ \A t \in Pub : A \in DOMAIN eps /\ t \in eps[A]
<1> DEFINE On(t) == ServedAt(O, A, t)
<1>1. \A t \in Own : On(t) = {O}
  BY DEF ServedAt
<1>2. \A t \in Pub : On(t) = {t.toolset, A} /\ O \notin On(t)
  BY DEF ServedAt
<1>3. DOMAIN eps = UNION {On(t) : t \in Pub \cup Own} /\ \A e \in DOMAIN eps : eps[e] = {t \in Pub \cup Own : e \in On(t)}
  BY DEF Placement
<1> HIDE DEF On
<1>4. \A e \in DOMAIN eps : e \in {O, A} \/ \E t \in Pub : e = t.toolset
  BY <1>1, <1>2, <1>3
<1>5. \A e \in DOMAIN eps : e # O => eps[e] \subseteq Pub
  BY <1>1, <1>3
<1>6. \A t \in Pub : A \in DOMAIN eps /\ t \in eps[A]
  BY <1>2, <1>3
<1>7. O \in DOMAIN eps => eps[O] = Own
  <2>1. {t \in Pub \cup Own : O \in On(t)} = Own
    BY <1>1, <1>2
  <2> QED BY <1>3, <2>1
<1> QED BY <1>4, <1>5, <1>6, <1>7

\* The endpoint that answers a path is one that is served there.
LEMMA EndpointOf ==
    ASSUME NEW deps \in [up : SUBSET Gate!Toolsets, key : STRING \cup {None}]
    PROVE  LET eps == Gate!Endpoints(deps) IN
           /\ \A e \in DOMAIN eps : e \in Gate!Toolsets \cup {"owner", ""}
           /\ "owner" \in DOMAIN eps => eps["owner"] = Gate!OwnerSpecs(deps)
           /\ \A e \in DOMAIN eps : e # "owner" => eps[e] \subseteq Gate!PublicSpecs(deps)
           /\ \A t \in Gate!PublicSpecs(deps) : "" \in DOMAIN eps /\ t \in eps[""]
<1> DEFINE Pub == Gate!PublicSpecs(deps)
           Own == Gate!OwnerSpecs(deps)
           eps == Gate!Endpoints(deps)
<1>1. \A t \in Own : t.toolset = "owner"
  BY DEF Gate!OwnerSpecs, Gate!OwnerEndpoint, Gate!Tool
<1>2. \A t \in Pub : t.toolset \in Gate!Toolsets
  BY DEF Gate!PublicSpecs, Gate!Tool
<1>3. \A t \in Pub : t.toolset # "owner"
  BY <1>2 DEF Gate!Toolsets
<1>4. eps = Placement(Pub, Own, "owner", "")
  BY DEF Placement, ServedAt, Gate!Endpoints, Gate!BuildEndpoints, Gate!OwnerEndpoint
<1>5. PICK all : all = ""
  OBVIOUS
<1> HIDE DEF eps, Pub, Own
<1>6. eps = Placement(Pub, Own, "owner", all) /\ all # "owner"
  BY <1>4, <1>5
<1>7. /\ \A e \in DOMAIN eps : e \in {"owner", all} \/ \E t \in Pub : e = t.toolset
      /\ "owner" \in DOMAIN eps => eps["owner"] = Own
      /\ \A e \in DOMAIN eps : e # "owner" => eps[e] \subseteq Pub
      /\ \A t \in Pub : all \in DOMAIN eps /\ t \in eps[all]
  BY <1>1, <1>3, <1>6, Placed
<1>8. \A e \in DOMAIN eps : e \in Gate!Toolsets \cup {"owner", all}
  BY <1>2, <1>7
<1> QED BY <1>5, <1>7, <1>8 DEF eps, Pub, Own

\* Where nothing is served there is nothing to tell.
LEMMA Nothing == Gate!NoEndpoint.tools = {} /\ Gate!NoEndpoint.body # "page"
BY DEF Gate!NoEndpoint, Gate!Answer

\* What the gate answers, one case for each of its doors.
LEMMA Served ==
    ASSUME NEW deps, NEW req, NEW full, NEW reply, reply = Gate!Serve(deps, req, full)
    PROVE  LET eps == Gate!Endpoints(deps)
               owners == req.path = "owner"
               bucket == Gate!RateLimitKey(req.ip)
           IN  /\ req.path \notin DOMAIN eps => reply = Gate!NoEndpoint
               /\ owners /\ ~Gate!Authorized(deps, Gate!OwnerKey(req)) => reply = Gate!NoEndpoint
               /\ reply.tools # {} =>
                     /\ req.path \in DOMAIN eps /\ reply.tools = eps[req.path] /\ reply.spent = bucket
                     /\ bucket \notin full /\ ~Gate!Batch(req) /\ req.site \notin {"cross-site", "same-site"}
                     /\ owners => Gate!Authorized(deps, Gate!OwnerKey(req)) /\ reply.keys = {}
               /\ reply.body = "page" => reply = Gate!Landing(eps)
<1> USE DEF Gate!OwnerEndpoint
<1> DEFINE eps == Gate!Endpoints(deps)
           bucket == Gate!RateLimitKey(req.ip)
           A1 == req.path \notin DOMAIN eps
           A2 == req.path = "owner" /\ ~Gate!Authorized(deps, Gate!OwnerKey(req))
<1>1. CASE A1 \/ A2
  <2>1. reply = Gate!NoEndpoint
    BY <1>1 DEF Gate!Serve
  <2>2. reply.tools = {} /\ reply.body # "page"
    BY <2>1, Nothing
  <2> QED BY <2>1, <2>2
<1>2. CASE ~A1 /\ ~A2
  <2>1. CASE req.path # "owner" /\ req.method = "GET" /\ ~req.json
    <3>1. reply = Gate!Landing(eps)
      BY <1>2, <2>1 DEF Gate!Serve
    <3>2. reply.tools = {}
      BY <3>1 DEF Gate!Landing, Gate!Answer
    <3> QED BY <1>2, <3>1, <3>2
  <2>2. CASE /\ ~(req.path # "owner" /\ req.method = "GET" /\ ~req.json)
             /\ req.site \in {"cross-site", "same-site"} \/ bucket \in full \/ Gate!Batch(req)
    <3>1. reply \in {Gate!Answer(403, "cross-site"), Gate!Answer(429, "limited"),
                     [Gate!Answer(400, "batch") EXCEPT !.spent = bucket]}
      BY <1>2, <2>2 DEF Gate!Serve
    <3>2. reply.tools = {} /\ reply.body # "page"
      BY <3>1 DEF Gate!Answer
    <3> QED BY <1>2, <3>2
  <2>3. CASE /\ ~(req.path # "owner" /\ req.method = "GET" /\ ~req.json)
             /\ ~(req.site \in {"cross-site", "same-site"} \/ bucket \in full \/ Gate!Batch(req))
    <3> DEFINE keys == IF req.path = "owner" THEN {}
                       ELSE {req.apiKey} \cup (IF req.auth = None THEN {} ELSE {req.auth.token})
    <3>1. reply = [[Gate!Answer(200, "mcp") EXCEPT !.tools = eps[req.path], !.keys = keys] EXCEPT !.spent = bucket]
      BY <1>2, <2>3 DEF Gate!Serve
    <3>2. reply.tools = eps[req.path] /\ reply.keys = keys /\ reply.spent = bucket /\ reply.body = "mcp"
      BY <3>1 DEF Gate!Answer
    <3> QED BY <1>2, <2>3, <3>2
  <2> QED BY <2>1, <2>2, <2>3
<1> QED BY <1>1, <1>2

\* The page lists what is public.
LEMMA Listed ==
    ASSUME NEW deps \in [up : SUBSET Gate!Toolsets, key : STRING \cup {None}]
    PROVE  Gate!Landing(Gate!Endpoints(deps)).listed = Gate!PublicSpecs(deps)
<1> DEFINE eps == Gate!Endpoints(deps)
           cat == Gate!Catalog(eps)
<1>1. Gate!Landing(eps).listed = UNION {cat[e] : e \in DOMAIN cat}
  BY DEF Gate!Landing, Gate!Answer
<1>2. PICK all : all = ""
  OBVIOUS
<1>3. "owner" \notin Gate!Toolsets \cup {all}
  BY <1>2 DEF Gate!Toolsets
<1>4. /\ \A e \in DOMAIN eps : e \in Gate!Toolsets \cup {"owner", all}
      /\ \A e \in DOMAIN eps : e # "owner" => eps[e] \subseteq Gate!PublicSpecs(deps)
      /\ \A t \in Gate!PublicSpecs(deps) : all \in DOMAIN eps /\ t \in eps[all]
  BY <1>2, EndpointOf
<1>5. cat = [e \in DOMAIN eps \cap (Gate!Toolsets \cup {all}) |-> eps[e]]
  BY <1>2 DEF Gate!Catalog
<1> HIDE DEF eps, cat
<1>6. DOMAIN cat = DOMAIN eps \cap (Gate!Toolsets \cup {all}) /\ \A e \in DOMAIN cat : cat[e] = eps[e]
  BY <1>5
<1>7. \A e \in DOMAIN cat : cat[e] \subseteq Gate!PublicSpecs(deps)
  BY <1>3, <1>4, <1>6
<1>8. \A t \in Gate!PublicSpecs(deps) : all \in DOMAIN cat /\ t \in cat[all]
  BY <1>4, <1>6
<1> QED BY <1>1, <1>7, <1>8 DEF eps

\* The owner's endpoint answers as any path that is not there, but to the key's holder.
LEMMA GateIsKept ==
    ASSUME NEW q, GateRequest(q)
    PROVE  Gate!GateHolds(q.deps, q.req, q.full)
<1> PICK deps, req, full : deps = q.deps /\ req = q.req /\ full = q.full
  OBVIOUS
<1> SUFFICES Gate!GateHolds(deps, req, full)
  OBVIOUS
<1>1. /\ deps \in [up : SUBSET Gate!Toolsets, key : STRING \cup {None}]
      /\ req \in [path : STRING, method : STRING, json : BOOLEAN, site : STRING, ip : Address, apiKey : STRING,
                  auth : {None} \cup [scheme : STRING, token : STRING], body : STRING]
  BY DEF GateRequest
<1> DEFINE eps == Gate!Endpoints(deps)
           bucket == Gate!RateLimitKey(req.ip)
           public == Gate!PublicSpecs(deps)
           holder == deps.key # None /\ deps.key \in {req.apiKey} \cup (IF req.auth = None THEN {} ELSE {req.auth.token})
           away == [req EXCEPT !.path = "nowhere"]
           reply == Gate!Serve(deps, req, full)
           missing == Gate!Serve(deps, away, full)
<1>2. /\ \A e \in DOMAIN eps : e \in Gate!Toolsets \cup {"owner", ""}
      /\ "owner" \in DOMAIN eps => eps["owner"] = Gate!OwnerSpecs(deps)
      /\ \A e \in DOMAIN eps : e # "owner" => eps[e] \subseteq public
      /\ \A t \in public : "" \in DOMAIN eps /\ t \in eps[""]
  BY <1>1, EndpointOf
<1>3. bucket # None
  <2>1. req.ip.net \in Nat /\ req.ip.host \in Nat
    BY <1>1 DEF Address
  <2>2. bucket \in {<<req.ip.net, req.ip.host>>, <<req.ip.net>>, <<>>}
    BY <1>1 DEF Gate!RateLimitKey, Address
  <2>3. <<req.ip.net, req.ip.host>> \in Seq(Int) /\ <<req.ip.net>> \in Seq(Int) /\ <<>> \in Seq(Int)
    BY <2>1
  <2> QED BY <2>2, <2>3, NoneIsNoValue
<1>4. Gate!Authorized(deps, Gate!OwnerKey(req)) => holder
  BY <1>1 DEF Gate!Authorized, Gate!OwnerKey
<1>5. req.path = "owner" /\ ~holder => reply = missing
  <2>1. away.path = "nowhere"
    BY <1>1
  <2>2. "nowhere" \notin DOMAIN eps
    BY <1>2 DEF Gate!Toolsets
  <2>3. missing = Gate!NoEndpoint
    <3> HIDE DEF away
    <3> QED BY <2>1, <2>2, Served
  <2>4. req.path = "owner" /\ ~holder => reply = Gate!NoEndpoint
    BY <1>4, Served
  <2> QED BY <2>3, <2>4
<1>6. public \cap Gate!OwnerSpecs(deps) = {}
  <2>1. \A t \in Gate!OwnerSpecs(deps) : t.toolset = "owner"
    BY DEF Gate!OwnerSpecs, Gate!OwnerEndpoint, Gate!Tool
  <2>2. \A t \in public : t.toolset \in Gate!Toolsets
    BY <1>1 DEF Gate!PublicSpecs, Gate!Tool
  <2> QED BY <2>1, <2>2 DEF Gate!Toolsets
<1>7. ASSUME reply.tools # {}
      PROVE  /\ reply.spent # None /\ reply.spent \notin full
             /\ ~Gate!Batch(req) /\ req.site \notin {"cross-site", "same-site"}
             /\ (reply.tools \cap Gate!OwnerSpecs(deps) # {}) => holder /\ reply.keys = {} /\ reply.tools \cap public = {}
             /\ req.path = "" => reply.tools = public
  <2>1. /\ req.path \in DOMAIN eps /\ reply.tools = eps[req.path] /\ reply.spent = bucket
        /\ bucket \notin full /\ ~Gate!Batch(req) /\ req.site \notin {"cross-site", "same-site"}
        /\ req.path = "owner" => Gate!Authorized(deps, Gate!OwnerKey(req)) /\ reply.keys = {}
    BY <1>7, Served
  <2>0. PICK all : all = ""
    OBVIOUS
  <2>2. all # "owner" /\ all = ""
    BY <2>0
  <2>3. req.path = all => reply.tools = public
    BY <1>2, <2>1, <2>2
  <2>4. (reply.tools \cap Gate!OwnerSpecs(deps) # {}) => req.path = "owner"
    BY <1>2, <1>6, <2>1
  <2>5. req.path = "owner" => reply.tools \cap public = {}
    <3>1. req.path = "owner" => reply.tools = Gate!OwnerSpecs(deps)
      BY <1>2, <2>1
    <3> HIDE DEF reply, public
    <3> QED BY <1>6, <3>1
  <2> HIDE DEF reply, holder, bucket, public
  <2> QED BY <1>3, <1>4, <2>1, <2>2, <2>3, <2>4, <2>5
<1>8. reply.body = "page" => reply.listed = public
  BY <1>1, Served, Listed
<1> HIDE DEF eps, bucket
<1> QED BY <1>5, <1>7, <1>8 DEF Gate!GateHolds, Gate!OwnerEndpoint

(* the security verdict,                                                   *)

\* The first of some places.
LEMMA FirstOf ==
    ASSUME NEW n \in Nat, NEW S \in SUBSET (1..n), S # {}
    PROVE  Header!Min(S) \in S /\ \A y \in S : Header!Min(S) <= y
<1>1. S \in SUBSET Nat
  OBVIOUS
<1>2. \E x \in S : \A y \in S : x =< y
  BY <1>1, LeastNat
<1> QED BY <1>2 DEF Header!Min

\* The value of a directive is a number or none.
LEMMA ValueOf ==
    ASSUME NEW ds \in Directives, NEW name, Header!Has(ds, name)
    PROVE  /\ Header!Value(ds, name) \in Nat \cup {None}
           /\ \E i \in DOMAIN ds : /\ ds[i] = [name |-> name, value |-> Header!Value(ds, name)]
                                   /\ \A j \in 1..(i - 1) : ds[j].name # name
<1> DEFINE S == {i \in DOMAIN ds : ds[i].name = name}
           i == Header!Min(S)
<1>1. Len(ds) \in Nat /\ DOMAIN ds = 1..Len(ds) /\ \A j \in DOMAIN ds : ds[j] \in [name : STRING, value : Nat \cup {None}]
  <2> DEFINE X == [name : STRING, value : Nat \cup {None}]
  <2>1. ds \in Seq(X)
    BY DEF Directives
  <2> HIDE DEF X
  <2>2. Len(ds) \in Nat /\ DOMAIN ds = 1..Len(ds) /\ \A j \in DOMAIN ds : ds[j] \in X
    BY <2>1
  <2> QED BY <2>2 DEF X
<1>2. S \in SUBSET (1..Len(ds)) /\ S # {}
  BY <1>1 DEF Header!Has
<1>3. i \in S /\ \A j \in S : i <= j
  <2> HIDE DEF S
  <2> QED BY <1>1, <1>2, FirstOf
<1>4. Header!Value(ds, name) = ds[i].value
  BY DEF Header!Value
<1> HIDE DEF i
<1>5. \A j \in 1..(i - 1) : ds[j].name # name
  <2> SUFFICES ASSUME NEW j \in 1..(i - 1), ds[j].name = name PROVE FALSE
    OBVIOUS
  <2>1. j \in DOMAIN ds
    BY <1>1, <1>3
  <2> QED BY <1>1, <1>3, <2>1
<1>6. i \in DOMAIN ds /\ ds[i] = [name |-> name, value |-> ds[i].value] /\ ds[i].value \in Nat \cup {None}
  BY <1>1, <1>3
<1> QED BY <1>4, <1>5, <1>6

\* A lifetime is a number or none.
LEMMA LifetimeType ==
    ASSUME NEW v \in Nat \cup {None}
    PROVE  Header!Lifetime(v) \in Nat /\ (Header!Lifetime(v) > 0 => Header!Lifetime(v) = v)
BY DEF Header!Lifetime

\* What is left to a browser says nothing of the edge.
LEMMA BrowserSays ==
    ASSUME NEW q, CacheRequest(q)
    PROVE  LET b == Header!Browser(q.code, q.head)
           IN  /\ b.ttl \in Nat /\ b.from # "s-maxage"
               /\ b.from = "max-age" /\ b.ttl > 0 =>
                     Header!Has(q.head.cc, "max-age") /\ b.ttl = Header!Value(q.head.cc, "max-age")
<1> DEFINE h == q.head
           b == Header!Browser(q.code, h)
           v == Header!Lifetime(Header!Value(h.cc, "max-age"))
           Said == /\ b.ttl \in Nat /\ b.from # "s-maxage"
                   /\ b.from = "max-age" /\ b.ttl > 0 =>
                         Header!Has(h.cc, "max-age") /\ b.ttl = Header!Value(h.cc, "max-age")
<1> SUFFICES Said
  OBVIOUS
<1>1. CASE Header!Has(h.cc, "no-store")
  <2>1. b = [ttl |-> 0, from |-> "no-store"]
    BY <1>1 DEF Header!Browser
  <2> QED BY <2>1
<1>2. CASE ~Header!Has(h.cc, "no-store") /\ Header!Has(h.cc, "no-cache")
  <2>1. b = [ttl |-> 0, from |-> "no-cache"]
    BY <1>2 DEF Header!Browser
  <2> QED BY <2>1
<1>3. CASE ~Header!Has(h.cc, "no-store") /\ ~Header!Has(h.cc, "no-cache") /\ Header!Has(h.cc, "max-age")
  <2>1. b = [ttl |-> v, from |-> "max-age"]
    BY <1>3 DEF Header!Browser
  <2>2. v \in Nat /\ (v > 0 => v = Header!Value(h.cc, "max-age"))
    BY <1>3, ValueOf, LifetimeType DEF CacheRequest
  <2> HIDE DEF v
  <2>3. b.ttl = v /\ b.from = "max-age"
    BY <2>1
  <2> HIDE DEF b
  <2> QED BY <1>3, <2>2, <2>3
<1>4. CASE ~Header!Has(h.cc, "no-store") /\ ~Header!Has(h.cc, "no-cache") /\ ~Header!Has(h.cc, "max-age")
  <2>1. \/ b = [ttl |-> IF h.expires = "future" THEN Header!Ahead ELSE 0, from |-> "Expires"]
        \/ b = [ttl |-> 0, from |-> IF Header!Heuristic(q.code, h) THEN "Last-Modified" ELSE "none"]
    BY <1>4 DEF Header!Browser
  <2>2. b.ttl \in Nat /\ b.from \in {"Expires", "Last-Modified", "none"}
    BY <2>1 DEF Header!Ahead
  <2> HIDE DEF b
  <2> QED BY <2>2
<1> QED BY <1>1, <1>2, <1>3, <1>4

\* The strongest source that speaks is the edge's.
LEMMA EdgeSpeaks ==
    ASSUME NEW code, NEW h
    PROVE  LET s == Header!EdgeSources(code, h) IN
           \E m \in 1..7 : s[m].on /\ Header!Edge(code, h) = s[m].says /\ \A j \in 1..7 : j < m => ~s[j].on
<1> DEFINE s == Header!EdgeSources(code, h)
           S == {i \in DOMAIN s : s[i].on}
<1>1. DOMAIN s = 1..7 /\ s[7].on
  <2>1. \A x1, x2, x3, x4, x5, x6, x7 : DOMAIN <<x1, x2, x3, x4, x5, x6, x7>> = 1..7
    OBVIOUS
  <2>2. s[7].on
    BY DEF Header!EdgeSources
  <2>3. \E x1, x2, x3, x4, x5, x6, x7 : s = <<x1, x2, x3, x4, x5, x6, x7>>
    BY ZenonT(30) DEF Header!EdgeSources
  <2> HIDE DEF s
  <2> QED BY <2>1, <2>2, <2>3
<1>2. Header!Edge(code, h) = s[Header!Min(S)].says
  BY DEF Header!Edge
<1> HIDE DEF s
<1>3. 7 \in Nat /\ S \in SUBSET (1..7) /\ S # {}
  BY <1>1
<1>4. Header!Min(S) \in S /\ \A y \in S : Header!Min(S) <= y
  <2> HIDE DEF S
  <2> QED BY <1>3, FirstOf
<1>5. PICK m \in 1..7 : m = Header!Min(S)
  BY <1>3, <1>4
<1>6. s[m].on /\ \A j \in 1..7 : j < m => ~s[j].on
  BY <1>1, <1>4, <1>5
<1> QED BY <1>2, <1>5, <1>6 DEF s

\* An edge keeps what is private only when told so, and a lifetime is as it was said.
LEMMA EdgeIsHonest ==
    ASSUME NEW q, CacheRequest(q)
    PROVE  Header!EdgeHonoursTheOrigin(q.code, q.head)
<1> PICK code, h : code = q.code /\ h = q.head
  OBVIOUS
<1> DEFINE c == Header!AnalyzeCache(code, h)
           e == Header!Edge(code, h)
           b == Header!Browser(code, h)
           s == Header!EdgeSources(code, h)
           found == Header!CacheNotes(code, h)
<1>1. c.edge = e /\ c.browser = b /\ c.notes = found
      /\ c.remaining = IF b.ttl > h.age THEN b.ttl - h.age ELSE 0
  BY DEF Header!AnalyzeCache
<1>2. PICK m \in 1..7 : s[m].on /\ e = s[m].says /\ \A j \in 1..7 : j < m => ~s[j].on
  BY EdgeSpeaks
<1>3. /\ s[1].on <=> Header!EdgeHas(h, "no-store")
      /\ s[2].on <=> Header!Has(h.cc, "no-store") /\ ~Header!EdgeSaid(h) /\ h.surr = <<>>
      /\ s[3].on <=> Header!EdgeHas(h, "max-age")
      /\ s[4].on <=> Header!Has(h.cc, "private") /\ ~Header!EdgeSaid(h) /\ h.surr = <<>>
      /\ s[1].says.ttl = 0 /\ s[2].says.ttl = 0 /\ s[4].says.ttl = 0
      /\ Header!EdgeHas(h, "max-age") => s[3].says.ttl = Header!Lifetime(Header!EdgeValue(h, "max-age"))
  BY DEF Header!EdgeSources
<1>4. b.ttl \in Nat /\ b.from # "s-maxage"
      /\ (b.from = "max-age" /\ b.ttl > 0 => Header!Has(h.cc, "max-age") /\ b.ttl = Header!Value(h.cc, "max-age"))
  BY BrowserSays
<1>5. ~Header!EdgeSaid(h) => ~Header!EdgeHas(h, "no-store") /\ ~Header!EdgeHas(h, "max-age")
  BY DEF Header!EdgeSaid, Header!EdgeHas, Header!Has
<1> HIDE DEF s, c, e
<1>6. (Header!Has(h.cc, "private") \/ Header!Has(h.cc, "no-store")) /\ e.ttl > 0 => Header!EdgeSaid(h) \/ h.surr # <<>>
  <2> SUFFICES ASSUME Header!Has(h.cc, "private") \/ Header!Has(h.cc, "no-store"), ~Header!EdgeSaid(h), h.surr = <<>>
               PROVE  ~(e.ttl > 0)
    OBVIOUS
  <2>1. ~s[1].on /\ ~s[3].on /\ (s[2].on \/ s[4].on)
    BY <1>3, <1>5
  <2>2. m = 2 \/ m = 4
    BY <1>2, <2>1
  <2>3. e.ttl = 0
    BY <1>2, <1>3, <2>2
  <2> QED BY <2>3
<1>7. Header!EdgeHas(h, "no-store") => e.ttl = 0
  <2> SUFFICES ASSUME Header!EdgeHas(h, "no-store") PROVE e.ttl = 0
    OBVIOUS
  <2>1. m = 1
    BY <1>2, <1>3
  <2> QED BY <1>2, <1>3, <2>1
<1>8. <<"ok", "dual ttl">> \in found => <<"warn", "private shared">> \notin found
  <2>1. <<"ok", "dual ttl">> \in found => Header!EdgeSaid(h)
    BY DEF Header!CacheNotes
  <2>2. <<"warn", "private shared">> \in found => ~Header!EdgeSaid(h)
    BY DEF Header!CacheNotes
  <2> QED BY <2>1, <2>2
<1>9. c.remaining <= c.browser.ttl
  <2>1. h.age \in Nat
    BY DEF CacheRequest
  <2> HIDE DEF b
  <2> QED BY <1>1, <1>4, <2>1
<1>10. ASSUME NEW name \in {"max-age", "s-maxage"}, c.browser.ttl > 0, c.browser.from = name
       PROVE  \E i \in DOMAIN h.cc : /\ h.cc[i] = [name |-> name, value |-> c.browser.ttl]
                                      /\ \A j \in 1..(i - 1) : h.cc[j].name # name
  <2>1. name = "max-age" /\ Header!Has(h.cc, name) /\ c.browser.ttl = Header!Value(h.cc, name)
    BY <1>1, <1>4, <1>10
  <2>2. h.cc \in Directives
    BY DEF CacheRequest
  <2> QED BY <2>1, <2>2, ValueOf
<1>11. Header!EdgeHas(h, "max-age") /\ ~Header!EdgeHas(h, "no-store")
       => e.ttl = Header!Lifetime(Header!EdgeValue(h, "max-age"))
  <2> SUFFICES ASSUME Header!EdgeHas(h, "max-age"), ~Header!EdgeHas(h, "no-store")
               PROVE  e.ttl = Header!Lifetime(Header!EdgeValue(h, "max-age"))
    OBVIOUS
  <2>1. ~s[1].on /\ ~s[2].on /\ s[3].on
    BY <1>3, <1>5
  <2>2. m = 3
    BY <1>2, <2>1
  <2> QED BY <1>2, <1>3, <2>2
<1> HIDE DEF b, found
<1> QED BY <1>1, <1>6, <1>7, <1>8, <1>9, <1>10, <1>11 DEF Header!EdgeHonoursTheOrigin, c

(* and the answer a paste is read as.                                      *)

\* A finding is a severity and a name.
LEMMA Tagged ==
    ASSUME NEW severity, NEW N
    PROVE  /\ \A x \in {<<severity, n>> : n \in N} : x[1] = severity /\ x[2] \in N
           /\ \A n : <<severity, n>> \in {<<severity, m>> : m \in N} <=> n \in N
OBVIOUS

\* The findings of one kind carry one name.
LEMMA TaggedOnce ==
    ASSUME NEW severity, NEW name, NEW N
    PROVE  \A x \in {<<severity, name>> : y \in N} : x[1] = severity /\ x[2] = name
OBVIOUS

\* What is noted of a page's headers,
LEMMA NotesOfAPage ==
    ASSUME NEW h
    PROVE  \A x \in Header!PageNotes(h) :
              x[1] # "fail"
              /\ x[2] \in {"isolated", "unsafe-inline", "unsafe-eval", "no csp", "clickjacking", "object-src", "referrer"}
<1> DEFINE A == {y \in {1} : Header!Isolated(h)}
           B == {x \in {"unsafe-inline", "unsafe-eval", "no csp", "clickjacking"} :
                    CASE x = "unsafe-inline" -> {"unsafe-inline"} \subseteq h.csp /\ "strict-dynamic" \notin h.csp
                      [] x = "unsafe-eval" -> "unsafe-eval" \in h.csp
                      [] x = "no csp" -> h.csp = {}
                      [] x = "clickjacking" -> ~h.frame /\ "frame-ancestors" \notin h.csp}
           C == {x \in {"object-src", "referrer"} :
                    IF x = "object-src" THEN h.csp # {} /\ "object-src none" \notin h.csp ELSE h.referrer = "permissive"}
<1>1. Header!PageNotes(h) = {<<"ok", "isolated">> : x \in A} \cup {<<"warn", n>> : n \in B} \cup {<<"info", n>> : n \in C}
  BY DEF Header!PageNotes
<1>2. B \subseteq {"unsafe-inline", "unsafe-eval", "no csp", "clickjacking"} /\ C \subseteq {"object-src", "referrer"}
  OBVIOUS
<1> HIDE DEF A, B, C
<1>3. \A x \in {<<"ok", "isolated">> : y \in A} : x[1] # "fail" /\ x[2] = "isolated"
  BY TaggedOnce
<1>4. \A x \in {<<"warn", n>> : n \in B} : x[1] # "fail" /\ x[2] \in B
  BY Tagged
<1>5. \A x \in {<<"info", n>> : n \in C} : x[1] # "fail" /\ x[2] \in C
  BY Tagged
<1> QED BY <1>1, <1>2, <1>3, <1>4, <1>5

\* of the rest of the answer,
LEMMA NotesOfAResponse ==
    ASSUME NEW h
    PROVE  \A x \in Header!ResponseNotes(h) :
              x[1] # "fail" /\ x[2] \in {"feature-policy", "wildcard", "no hsts", "sniff", "short-hsts"}
<1> DEFINE A == {x \in {"feature-policy", "wildcard", "no hsts", "sniff"} :
                    CASE x = "feature-policy" -> h.permissions = "legacy"
                      [] x = "wildcard" -> h.permissions = "all"
                      [] x = "no hsts" -> h.hsts = None
                      [] x = "sniff" -> ~h.nosniff}
           B == {y \in {1} : h.hsts # None /\ h.hsts < 120}
<1>1. Header!ResponseNotes(h) = {<<"warn", n>> : n \in A} \cup {<<"info", "short-hsts">> : x \in B}
  BY DEF Header!ResponseNotes
<1>2. A \subseteq {"feature-policy", "wildcard", "no hsts", "sniff"}
  OBVIOUS
<1> HIDE DEF A, B
<1>3. \A x \in {<<"warn", n>> : n \in A} : x[1] # "fail" /\ x[2] \in A
  BY Tagged
<1>4. \A x \in {<<"info", "short-hsts">> : y \in B} : x[1] # "fail" /\ x[2] = "short-hsts"
  OBVIOUS
<1> QED BY <1>1, <1>2, <1>3, <1>4

\* and of one cookie.
LEMMA NotesOfACookie ==
    ASSUME NEW c
    PROVE  /\ \A x \in Header!CookieNotes(c) : x[2] \in {"samesite", "prefix", "httponly"}
           /\ <<"fail", "prefix">> \in Header!CookieNotes(c) <=> Header!PrefixError(c) # ""
<1> DEFINE A == {x \in {"samesite", "prefix"} :
                    IF x = "samesite" THEN c.samesite = "None" /\ ~c.secure ELSE Header!PrefixError(c) # ""}
           B == {y \in {1} : c.auth /\ ~c.httpOnly}
<1>1. Header!CookieNotes(c) = {<<"fail", n>> : n \in A} \cup {<<"warn", "httponly">> : x \in B}
  BY DEF Header!CookieNotes
<1>2. A \subseteq {"samesite", "prefix"} /\ ("prefix" \in A <=> Header!PrefixError(c) # "")
  OBVIOUS
<1> HIDE DEF A, B
<1>3. /\ \A x \in {<<"fail", n>> : n \in A} : x[2] \in A
      /\ <<"fail", "prefix">> \in {<<"fail", n>> : n \in A} <=> "prefix" \in A
  BY Tagged
<1>4. \A x \in {<<"warn", "httponly">> : y \in B} : x[1] # "fail" /\ x[2] = "httponly"
  BY TaggedOnce
<1>5. <<"fail", "prefix">>[1] = "fail"
  OBVIOUS
<1> QED BY <1>1, <1>2, <1>3, <1>4, <1>5

\* A cookie passes when it keeps its prefix's promises, and data is not held to a page's.
LEMMA CookiesAreFair ==
    ASSUME NEW q, SecurityRequest(q)
    PROVE  Header!SecurityIsFair(q.head)
<1> PICK h : h = q.head
  OBVIOUS
<1> DEFINE found == Header!AnalyzeSecurity(h)
           keeps(c) == (c.prefix # "" => c.secure) /\ (c.prefix = "__Host-" => c.root /\ ~c.domain)
           ofCookies == UNION {Header!CookieNotes(h.cookies[i]) : i \in DOMAIN h.cookies}
           page == Header!PageNotes(h)
           rest == Header!ResponseNotes(h)
           worst == <<"fail", "prefix">>
<1>1. found = rest \cup ofCookies \cup IF Header!IsPage(h) THEN page ELSE {}
  BY DEF Header!AnalyzeSecurity
<1>2. ASSUME NEW c \in Cookie PROVE worst \in Header!CookieNotes(c) <=> ~keeps(c)
  <2>1. worst \in Header!CookieNotes(c) <=> Header!PrefixError(c) # ""
    BY NotesOfACookie
  <2>2. c.prefix \in {"", "__Host-", "__Secure-"} /\ c.secure \in BOOLEAN /\ c.domain \in BOOLEAN /\ c.root \in BOOLEAN
    BY DEF Cookie
  <2>3. CASE c.prefix = ""
    <3>1. Header!PrefixError(c) = "" /\ keeps(c)
      BY <2>3 DEF Header!PrefixError
    <3> QED BY <2>1, <3>1
  <2>4. CASE c.prefix = "__Secure-"
    <3>1. Header!PrefixError(c) = IF c.secure THEN "" ELSE "not secure"
      BY <2>2, <2>4 DEF Header!PrefixError
    <3>2. keeps(c) <=> c.secure
      BY <2>4
    <3> QED BY <2>1, <3>1, <3>2
  <2>5. CASE c.prefix = "__Host-"
    <3>1. Header!PrefixError(c) = IF ~c.secure THEN "not secure" ELSE IF c.domain THEN "domain" ELSE IF ~c.root THEN "path" ELSE ""
      BY <2>2, <2>5 DEF Header!PrefixError
    <3>2. keeps(c) <=> c.secure /\ c.root /\ ~c.domain
      BY <2>5
    <3> QED BY <2>1, <3>1, <3>2
  <2> QED BY <2>2, <2>3, <2>4, <2>5
<1>3. \A i \in DOMAIN h.cookies : h.cookies[i] \in Cookie
  BY DEF SecurityRequest
<1>4. worst[1] = "fail"
  OBVIOUS
<1>5. \A x \in ofCookies : x[2] \in {"samesite", "prefix", "httponly"}
  BY NotesOfACookie
<1>6. \A x \in rest : x[1] # "fail" /\ x[2] \in {"feature-policy", "wildcard", "no hsts", "sniff", "short-hsts"}
  BY NotesOfAResponse
<1>7. \A x \in page : x[1] # "fail"
         /\ x[2] \in {"isolated", "unsafe-inline", "unsafe-eval", "no csp", "clickjacking", "object-src", "referrer"}
  BY NotesOfAPage
<1>8. worst \in ofCookies <=> \E i \in DOMAIN h.cookies : ~keeps(h.cookies[i])
  <2> HIDE DEF keeps, worst
  <2> QED BY <1>2, <1>3
<1> HIDE DEF worst, rest, page, ofCookies
<1>9. worst \in found <=> worst \in ofCookies
  BY <1>1, <1>4, <1>6, <1>7
<1>10. h.type = "json" => found \cap page = {}
  <2>1. h.type = "json" => found = rest \cup ofCookies
    BY <1>1 DEF Header!IsPage
  <2> HIDE DEF found
  <2> QED BY <1>5, <1>6, <1>7, <2>1
<1> HIDE DEF found
<1> QED BY <1>8, <1>9, <1>10 DEF Header!SecurityIsFair, found, page, worst

-----------------------------------------------------------------------------
(* The bot check.                                                          *)

\* What a line makes of what was read so far.
Read == [code : Nat, headers : Seq(STRING), sent : BOOLEAN]
Line == [kind : STRING, code : Nat, name : STRING, request : BOOLEAN]
Foreign(line) == line.kind \in {"request line", "request pseudo"} \/ (line.kind = "header" /\ line.request)

\* One more line of a paste.
LEMMA Reads ==
    ASSUME NEW p \in Read, NEW line \in Line
    PROVE  LET r == Header!ReadLine(p, line) IN
           /\ r \in Read /\ (r.sent <=> p.sent \/ Foreign(line))
           /\ r.headers = IF line.kind = "status" THEN <<>>
                          ELSE IF line.kind = "header" THEN Append(p.headers, line.name) ELSE p.headers
<1> DEFINE r == Header!ReadLine(p, line)
           Goal == /\ r \in Read /\ (r.sent <=> p.sent \/ Foreign(line))
                   /\ r.headers = IF line.kind = "status" THEN <<>>
                                  ELSE IF line.kind = "header" THEN Append(p.headers, line.name) ELSE p.headers
<1> SUFFICES Goal
  OBVIOUS
<1>0. /\ p = [code |-> p.code, headers |-> p.headers, sent |-> p.sent] /\ p.code \in Nat /\ p.headers \in Seq(STRING) /\ p.sent \in BOOLEAN
      /\ line.code \in Nat /\ line.name \in STRING /\ line.request \in BOOLEAN
  BY DEF Read, Line
<1>1. CASE line.kind = "status"
  <2>1. r = [p EXCEPT !.code = line.code, !.headers = <<>>]
    BY <1>1 DEF Header!ReadLine, Header!Reset
  <2>2. r = [code |-> line.code, headers |-> <<>>, sent |-> p.sent]
    BY <1>0, <2>1
  <2>3. <<>> \in Seq(STRING)
    OBVIOUS
  <2> QED BY <1>0, <1>1, <2>2, <2>3 DEF Read, Foreign
<1>2. CASE line.kind = ":status"
  <2>1. r = [p EXCEPT !.code = line.code]
    BY <1>2 DEF Header!ReadLine
  <2>2. r = [code |-> line.code, headers |-> p.headers, sent |-> p.sent]
    BY <1>0, <2>1
  <2> QED BY <1>0, <1>2, <2>2 DEF Read, Foreign
<1>3. CASE line.kind \in {"request line", "request pseudo"}
  <2>1. r = [p EXCEPT !.sent = TRUE]
    BY <1>3 DEF Header!ReadLine
  <2>2. r = [code |-> p.code, headers |-> p.headers, sent |-> TRUE]
    BY <1>0, <2>1
  <2>3. r \in Read /\ r.sent = TRUE /\ r.headers = p.headers
    <3> HIDE DEF r
    <3> QED BY <1>0, <2>2 DEF Read
  <2>4. Foreign(line) /\ line.kind # "status" /\ line.kind # "header"
    BY <1>3 DEF Foreign
  <2> HIDE DEF r
  <2> QED BY <2>3, <2>4
<1>4. CASE line.kind = "header"
  <2>1. r = [p EXCEPT !.sent = p.sent \/ line.request, !.headers = Append(p.headers, line.name)]
    BY <1>4 DEF Header!ReadLine
  <2>2. r = [code |-> p.code, headers |-> Append(p.headers, line.name), sent |-> p.sent \/ line.request]
    BY <1>0, <2>1
  <2>3. Append(p.headers, line.name) \in Seq(STRING)
    BY <1>0
  <2>4. r \in Read
    <3> HIDE DEF r
    <3> QED BY <1>0, <2>2, <2>3 DEF Read
  <2>5. r.sent = (p.sent \/ line.request) /\ r.headers = Append(p.headers, line.name)
    <3> HIDE DEF r
    <3> QED BY <2>2
  <2>6. r.sent <=> p.sent \/ Foreign(line)
    <3> HIDE DEF r
    <3> QED BY <1>0, <1>4, <2>5 DEF Foreign
  <2>7. r.headers = IF line.kind = "status" THEN <<>>
                    ELSE IF line.kind = "header" THEN Append(p.headers, line.name) ELSE p.headers
    <3> HIDE DEF r
    <3> QED BY <1>4, <2>5
  <2> HIDE DEF r
  <2> QED BY <2>4, <2>6, <2>7
<1>5. CASE line.kind \notin {"status", ":status", "request line", "request pseudo", "header"}
  <2>1. r = p
    BY <1>5 DEF Header!ReadLine
  <2> QED BY <1>0, <1>5, <2>1 DEF Read, Foreign
<1> HIDE DEF Goal
<1> QED BY <1>1, <1>2, <1>3, <1>4, <1>5

\* A line more has the next place, and leaves the others theirs.
LEMMA Ranked ==
    ASSUME NEW m \in Nat, NEW K \in SUBSET (1..m)
    PROVE  LET L == K \cup {m + 1} IN
           /\ Cardinality(K) \in Nat /\ Cardinality(L) = Cardinality(K) + 1
           /\ {j \in L : j <= m + 1} = L
           /\ \A i \in K : /\ {j \in L : j <= i} = {j \in K : j <= i}
                           /\ Cardinality({j \in K : j <= i}) \in 1..Cardinality(K)
<1>1. IsFiniteSet(K) /\ m + 1 \notin K /\ \A j \in K : j \in Int /\ j <= m
  <2>1. IsFiniteSet(1..m) /\ K \subseteq 1..m /\ m + 1 \notin 1..m
    BY FS_Interval
  <2>2. \A j \in K : j \in Int /\ j <= m
    BY <2>1
  <2> QED BY <2>1, <2>2, FS_Subset
<1>2. Cardinality(K) \in Nat /\ Cardinality(K \cup {m + 1}) = Cardinality(K) + 1
  BY <1>1, FS_CardinalityType, FS_AddElement
<1>3. ASSUME NEW i \in K
      PROVE  /\ {j \in K \cup {m + 1} : j <= i} = {j \in K : j <= i}
             /\ Cardinality({j \in K : j <= i}) \in 1..Cardinality(K)
  <2> DEFINE D == {j \in K : j <= i}
  <2>1. ~(m + 1 <= i) /\ i \in D /\ D \subseteq K
    BY <1>1
  <2>2. IsFiniteSet(D) /\ Cardinality(D) \in Nat /\ Cardinality(D) <= Cardinality(K)
    BY <1>1, <2>1, FS_Subset, FS_CardinalityType
  <2>3. Cardinality(D) # 0
    <3> HIDE DEF D
    <3> QED BY <2>1, <2>2, FS_EmptySet
  <2>4. Cardinality(D) \in 1..Cardinality(K)
    <3> HIDE DEF D
    <3> QED BY <1>2, <2>2, <2>3
  <2> QED BY <2>1, <2>4
<1>4. {j \in K \cup {m + 1} : j <= m + 1} = K \cup {m + 1}
  <2>1. \A j \in K \cup {m + 1} : j <= m + 1
    BY <1>1
  <2> QED BY <2>1
<1> QED BY <1>2, <1>3, <1>4

\* The last of the blocks that answer is the one that is reported.
LEMMA TopOf ==
    ASSUME NEW n \in Nat
    PROVE  /\ \A s \in SUBSET (1..n) : s # {} => Header!Max(s) \in s
           /\ \A m \in 0..n : m # 0 => Header!Max(1..m) = m /\ (1..m) \ {m} = 1..(m - 1)
<1>1. \A s \in SUBSET (1..n) : s # {} => Header!Max(s) \in s /\ \A y \in s : Header!Max(s) >= y
  <2>1. \A s : Header!Max(s) = Gate!Max(s)
    BY DEF Header!Max, Gate!Max
  <2> QED BY <2>1, Greatest
<1>2. ASSUME NEW m \in 0..n, m # 0 PROVE Header!Max(1..m) = m /\ (1..m) \ {m} = 1..(m - 1)
  <2>1. 1..m \in SUBSET (1..n) /\ m \in 1..m
    BY <1>2
  <2>2. Header!Max(1..m) \in 1..m /\ Header!Max(1..m) >= m
    BY <1>1, <2>1
  <2>3. (1..m) \ {m} = 1..(m - 1)
    BY <1>2
  <2> QED BY <2>2, <2>3
<1> QED BY <1>1, <1>2

Unread0 == [code |-> 0, headers |-> <<>>, sent |-> FALSE]
Reading(lines, g) ==
    g = [s \in SUBSET DOMAIN lines |-> IF s = {} THEN Unread0 ELSE Header!ReadLine(g[s \ {Header!Max(s)}], lines[Header!Max(s)])]

\* What a paste is read as, line by line.
LEMMA ReadingIs ==
    ASSUME NEW lines \in Seq(Line)
    PROVE  \E g : /\ Header!FoldLeft(Header!ReadLine, Unread0, lines) = g[1..Len(lines)]
                  /\ g[{}] = Unread0
                  /\ \A m \in 1..Len(lines) : g[1..m] = Header!ReadLine(g[1..(m - 1)], lines[m])
<1> DEFINE C == 1..Len(lines)
           ch == [s \in SUBSET C |-> Header!Max(s)]
           step == [i \in C |-> [p \in Read |-> Header!ReadLine(p, lines[i])]]
<1>1. Header!FoldLeft(Header!ReadLine, Unread0, lines) = (CHOOSE g : Reading(lines, g))[DOMAIN lines]
  BY DEF Header!FoldLeft, Header!MapThenFoldSet, Reading
<1>2. DOMAIN lines = C /\ IsFiniteSet(C) /\ Len(lines) \in Nat
  BY FS_Interval
<1>3. Chooses(ch, C)
  BY <1>2, TopOf DEF Chooses
<1>4. step \in [C -> [Read -> Read]]
  BY Reads
<1>5. Unread0 \in Read
  <2>1. <<>> \in Seq(STRING)
    OBVIOUS
  <2> QED BY <2>1 DEF Unread0, Read
<1>6. PICK f \in [SUBSET C -> Read] : Solves(ch, Unread0, step, C, f)
  <2> HIDE DEF ch, step
  <2> QED BY <1>2, <1>3, <1>4, <1>5, FoldSolved
<1>7. \A s \in SUBSET C : Turn(ch, Unread0, step, f, s)
                           = IF s = {} THEN Unread0 ELSE Header!ReadLine(f[s \ {Header!Max(s)}], lines[Header!Max(s)])
  <2> SUFFICES ASSUME NEW s \in SUBSET C, s # {}
               PROVE  step[ch[s]][f[s \ {ch[s]}]] = Header!ReadLine(f[s \ {Header!Max(s)}], lines[Header!Max(s)])
    BY DEF Turn
  <2>1. ch[s] = Header!Max(s) /\ ch[s] \in C /\ f[s \ {ch[s]}] \in Read
    BY <1>3 DEF Chooses
  <2> QED BY <2>1
<1>8. Reading(lines, f)
  <2> HIDE DEF ch, step
  <2> QED BY <1>2, <1>6, <1>7 DEF Reading, Solves
<1>9. PICK g : Reading(lines, g) /\ Header!FoldLeft(Header!ReadLine, Unread0, lines) = g[C]
  BY <1>1, <1>2, <1>8
<1>10. g[{}] = Unread0
  BY <1>9 DEF Reading
<1>11. ASSUME NEW m \in 1..Len(lines) PROVE g[1..m] = Header!ReadLine(g[1..(m - 1)], lines[m])
  <2>1. 1..m \in SUBSET C /\ 1..m # {}
    BY <1>2
  <2>2. Header!Max(1..m) = m /\ (1..m) \ {m} = 1..(m - 1)
    BY <1>2, TopOf
  <2>3. g[1..m] = Header!ReadLine(g[(1..m) \ {Header!Max(1..m)}], lines[Header!Max(1..m)])
    BY <1>2, <1>9, <2>1 DEF Reading
  <2> QED BY <2>2, <2>3
<1> QED BY <1>9, <1>10, <1>11

\* What the first m lines of a paste leave of the answer they end in.
Own(lines, m) == {i \in 1..m : lines[i].kind = "header" /\ \A j \in 1..m : j > i => lines[j].kind # "status"}
Place(K, i) == Cardinality({j \in K : j <= i})
Kept(lines, m, p) ==
    /\ p \in Read
    /\ Len(p.headers) = Cardinality(Own(lines, m))
    /\ \A i \in Own(lines, m) : p.headers[Place(Own(lines, m), i)] = lines[i].name
    /\ p.sent <=> \E i \in 1..m : Foreign(lines[i])

\* What is read so far is kept to by the next line.
LEMMA KeptOnReading ==
    ASSUME NEW lines \in Seq(Line), NEW m \in Nat, m + 1 <= Len(lines), NEW p, Kept(lines, m, p)
    PROVE  Kept(lines, m + 1, Header!ReadLine(p, lines[m + 1]))
<1> DEFINE r == Header!ReadLine(p, lines[m + 1])
           line == lines[m + 1]
           K == Own(lines, m)
           L == Own(lines, m + 1)
<1>1. line \in Line /\ p \in Read /\ K \in SUBSET (1..m) /\ 1..(m + 1) = (1..m) \cup {m + 1} /\ m + 1 \notin 1..m
  BY DEF Kept, Own
<1>2. /\ r \in Read /\ (r.sent <=> p.sent \/ Foreign(line))
      /\ r.headers = IF line.kind = "status" THEN <<>>
                     ELSE IF line.kind = "header" THEN Append(p.headers, line.name) ELSE p.headers
  BY <1>1, Reads
<1>3. r.sent <=> \E i \in 1..(m + 1) : Foreign(lines[i])
  BY <1>1, <1>2 DEF Kept
<1>4. CASE line.kind = "status"
  <2>1. L = {}
    <3>1. \A i \in 1..m : m + 1 > i
      OBVIOUS
    <3> QED BY <1>1, <1>4, <3>1 DEF Own
  <2>2. Cardinality(L) = 0 /\ r.headers = <<>> /\ Len(<<>>) = 0
    BY <1>2, <1>4, <2>1, FS_EmptySet
  <2> HIDE DEF r, L
  <2> QED BY <1>2, <1>3, <2>1, <2>2 DEF Kept, L, r
<1>5. CASE line.kind = "header"
  <2>1. L = K \cup {m + 1}
    BY <1>1, <1>5 DEF Own
  <2>2. /\ Cardinality(K) \in Nat /\ Cardinality(L) = Cardinality(K) + 1 /\ Place(L, m + 1) = Cardinality(L)
        /\ \A i \in K : Place(L, i) = Place(K, i) /\ Place(K, i) \in 1..Cardinality(K)
    <3> HIDE DEF K, L
    <3> QED BY <1>1, <2>1, Ranked DEF Place
  <2>3. /\ p.headers \in Seq(STRING) /\ Len(p.headers) = Cardinality(K)
        /\ \A i \in K : p.headers[Place(K, i)] = lines[i].name
    BY DEF Kept, Read
  <2>4. r.headers = Append(p.headers, line.name)
    BY <1>2, <1>5
  <2>5. /\ Len(r.headers) = Cardinality(L) /\ r.headers[Cardinality(K) + 1] = line.name
        /\ \A k \in 1..Cardinality(K) : r.headers[k] = p.headers[k]
    <3> HIDE DEF K, L, r, line
    <3> QED BY <2>2, <2>3, <2>4
  <2>6. \A i \in L : r.headers[Place(L, i)] = lines[i].name
    <3> HIDE DEF K, L, r
    <3> QED BY <2>1, <2>2, <2>3, <2>5
  <2> QED BY <1>2, <1>3, <2>5, <2>6 DEF Kept
<1>6. CASE line.kind \notin {"status", "header"}
  <2>1. L = K
    BY <1>1, <1>6 DEF Own
  <2>2. r.headers = p.headers
    BY <1>2, <1>6
  <2> QED BY <1>2, <1>3, <2>1, <2>2 DEF Kept
<1> QED BY <1>4, <1>5, <1>6

\* A paste is answered by its last answer's headers, and by them only.
LEMMA PasteIsKept ==
    ASSUME NEW q, PasteRequest(q)
    PROVE  Header!PasteIsTheLastAnswer(q.lines)
<1> DEFINE lines == q.lines
           n == Len(lines)
<1>1. lines \in Seq(Line) /\ n \in Nat /\ DOMAIN lines = 1..n
  BY DEF PasteRequest, Line
<1>2. PICK g : /\ Header!FoldLeft(Header!ReadLine, Unread0, lines) = g[1..n]
               /\ g[{}] = Unread0
               /\ \A m \in 1..n : g[1..m] = Header!ReadLine(g[1..(m - 1)], lines[m])
  BY <1>1, ReadingIs
<1>3. \A m \in 0..n : Kept(lines, m, g[1..m])
  <2> DEFINE Lost == {m \in 0..n : ~Kept(lines, m, g[1..m])}
  <2> SUFFICES ASSUME Lost # {} PROVE FALSE
    OBVIOUS
  <2>1. PICK m \in Lost : \A k \in Lost : m <= k
    <3>1. Lost \in SUBSET Nat
      OBVIOUS
    <3> HIDE DEF Lost
    <3> QED BY <3>1, LeastNat
  <2>2. m # 0
    <3>1. 1..0 = {} /\ Own(lines, 0) = {} /\ Cardinality({}) = 0
      BY FS_EmptySet DEF Own
    <3>2. Unread0 \in Read /\ Unread0.headers = <<>> /\ Unread0.sent = FALSE /\ Len(<<>>) = 0
      <4>1. <<>> \in Seq(STRING)
        OBVIOUS
      <4> QED BY <4>1 DEF Unread0, Read
    <3>3. Kept(lines, 0, g[1..0])
      BY <1>2, <3>1, <3>2 DEF Kept
    <3> QED BY <3>3
  <2>3. m \in 1..n /\ m - 1 \in Nat /\ (m - 1) + 1 = m /\ m - 1 \in 0..n /\ ~(m <= m - 1)
    BY <1>1, <2>2
  <2>4. Kept(lines, m - 1, g[1..(m - 1)])
    BY <2>1, <2>3
  <2>5. Kept(lines, m, g[1..m])
    <3> HIDE DEF lines, Lost
    <3> QED BY <1>1, <1>2, <2>3, <2>4, KeptOnReading
  <2> QED BY <2>1, <2>5
<1> DEFINE end == g[1..n]
<1>4. Kept(lines, n, end)
  BY <1>1, <1>3
<1>5. Header!ParseRawHeaders(lines).error = "" => ~end.sent /\ Header!ParseRawHeaders(lines).headers = end.headers
  <2>1. Header!FoldLeft(Header!ReadLine, [code |-> 0, headers |-> <<>>, sent |-> FALSE], lines) = end
    BY <1>2 DEF Unread0
  <2> HIDE DEF lines, end
  <2> QED BY <2>1 DEF Header!ParseRawHeaders
<1>6. \A S : Header!Cardinality(S) = Cardinality(S)
  BY DEF Header!Cardinality, Cardinality
<1>7. ASSUME Header!ParseRawHeaders(lines).error = ""
      PROVE  /\ Len(Header!ParseRawHeaders(lines).headers) = Cardinality(Own(lines, n))
             /\ \A i \in Own(lines, n) : Header!ParseRawHeaders(lines).headers[Place(Own(lines, n), i)] = lines[i].name
             /\ \A i \in 1..n : ~Foreign(lines[i])
  <2> HIDE DEF end, lines, n
  <2> QED BY <1>4, <1>5, <1>7 DEF Kept
<1> HIDE DEF end, lines
<1> QED BY <1>1, <1>6, <1>7 DEF Header!PasteIsTheLastAnswer, Own, Place, Foreign, lines

-----------------------------------------------------------------------------
(* Tokens: the verdict on one that is pasted,                              *)

\* What a collector of version n leaves out, field by field.
LEMMA AgedFields ==
    ASSUME NEW q, BotRequest(q), NEW n \in 1..q.signals.v
    PROVE  LET s == q.signals
               a == Bot!Aged(s, n)
           IN  /\ a.v = n /\ n \in Nat /\ n <= s.v /\ s.v \in Nat
               /\ a.touch = (IF n < 3 THEN 0 ELSE s.touch) /\ a.mimes = (IF n < 3 THEN 0 ELSE s.mimes)
               /\ a.outerH = (IF n < 3 THEN 0 ELSE s.outerH) /\ a.innerH = (IF n < 3 THEN 0 ELSE s.innerH)
               /\ a.jsEngine = (IF n < 3 THEN None ELSE s.jsEngine) /\ a.webrtc = (IF n < 3 THEN {} ELSE s.webrtc)
               /\ n >= 4 => a.net4 = s.net4
               /\ \A x \in a.ok : x \in s.ok
               /\ \A x \in s.ok : x \notin {"native_descriptor_tamper", "native_callnew_tamper", "navigator_proto_tamper",
                                            "chrome_runtime_tamper", "matchMedia"} => x \in a.ok
               /\ n >= 2 => \A x \in {"native_descriptor_tamper", "native_callnew_tamper"} : x \in s.ok => x \in a.ok
               /\ n >= 3 => \A x \in {"navigator_proto_tamper", "chrome_runtime_tamper"} : x \in s.ok => x \in a.ok
               /\ n >= 4 => ("matchMedia" \in s.ok => "matchMedia" \in a.ok)
               /\ \A x \in a.bad : x \in s.bad
               /\ \A x \in {"cdpMain", "cdpWorker"} : x \in s.bad => x \in a.bad
               /\ \A f \in {"ua", "odd", "ctx", "langs", "lang", "cores", "platform", "engine", "chMajor", "brands", "vendor",
                            "appVersion", "productSub", "gpu", "tz", "tzOffset", "plugins", "fonts", "http", "net",
                            "halves", "reuse", "churn"} : a[f] = s[f]
<1> DEFINE s == q.signals
           a == Bot!Aged(s, n)
<1>1. PayloadFields \cup {"http", "net", "halves", "reuse", "churn"} \subseteq DOMAIN s /\ s.v \in Nat
  BY DEF BotRequest
<1>2. n \in Nat /\ n <= s.v /\ n >= 1
  BY <1>1
<1>3. {"v", "ok", "bad", "touch", "mimes", "outerH", "innerH", "jsEngine", "webrtc", "net4"} \subseteq DOMAIN s
  BY <1>1 DEF PayloadFields
<1> HIDE DEF s
<1>4. a.v = n
  BY <1>3 DEF Bot!Aged
<1>5. a.touch = (IF n < 3 THEN 0 ELSE s.touch) /\ a.mimes = (IF n < 3 THEN 0 ELSE s.mimes)
  BY <1>3 DEF Bot!Aged
<1>6. a.outerH = (IF n < 3 THEN 0 ELSE s.outerH) /\ a.innerH = (IF n < 3 THEN 0 ELSE s.innerH)
  BY <1>3 DEF Bot!Aged
<1>7. a.jsEngine = (IF n < 3 THEN None ELSE s.jsEngine) /\ a.webrtc = (IF n < 3 THEN {} ELSE s.webrtc)
  BY <1>3 DEF Bot!Aged
<1>8. n >= 4 => a.net4 = s.net4
  <2>1. \E e : a.net4 = IF n < 4 THEN e ELSE s.net4
    BY <1>3 DEF Bot!Aged
  <2> HIDE DEF a
  <2> QED BY <1>2, <2>1
<1>9. /\ \A x \in a.ok : x \in s.ok
      /\ \A x \in s.ok : x \notin {"native_descriptor_tamper", "native_callnew_tamper", "navigator_proto_tamper",
                                   "chrome_runtime_tamper", "matchMedia"} => x \in a.ok
      /\ n >= 2 => \A x \in {"native_descriptor_tamper", "native_callnew_tamper"} : x \in s.ok => x \in a.ok
      /\ n >= 3 => \A x \in {"navigator_proto_tamper", "chrome_runtime_tamper"} : x \in s.ok => x \in a.ok
      /\ n >= 4 => ("matchMedia" \in s.ok => "matchMedia" \in a.ok)
  <2>1. a.ok = s.ok \ ((IF n < 2 THEN {"native_descriptor_tamper", "native_callnew_tamper"} ELSE {})
                       \cup (IF n < 3 THEN {"navigator_proto_tamper", "chrome_runtime_tamper"} ELSE {})
                       \cup (IF n < 4 THEN {"matchMedia"} ELSE {}))
    BY <1>3 DEF Bot!Aged
  <2> HIDE DEF a
  <2> QED BY <1>2, <2>1
<1>10. (\A x \in a.bad : x \in s.bad) /\ \A x \in {"cdpMain", "cdpWorker"} : x \in s.bad => x \in a.bad
  <2>1. a.bad = s.bad \ ((IF n < 2 THEN {"tostring_proxy"} ELSE {})
                         \cup (IF n < 3 THEN {"iframe_webdriver", "iframe_proxy", "webdriver_sw", "cdpSW",
                                              "chrome_late_injection", "image_broken"} ELSE {}))
    BY <1>3 DEF Bot!Aged
  <2> HIDE DEF a
  <2> QED BY <1>2, <2>1
<1>11. \A f \in {"ua", "odd", "ctx", "langs", "lang", "cores", "platform", "engine", "chMajor", "brands", "vendor",
                 "appVersion", "productSub", "gpu", "tz", "tzOffset", "plugins", "fonts", "http", "net",
                 "halves", "reuse", "churn"} : a[f] = s[f]
  <2>1. \A f \in {"ua", "odd", "ctx", "langs"} : f \in DOMAIN s /\ a[f] = s[f]
    <3>1. {"ua", "odd", "ctx", "langs"} \subseteq DOMAIN s
      BY ONLY <1>1 DEF PayloadFields
    <3> QED BY ONLY <3>1 DEF Bot!Aged, a
  <2>2. \A f \in {"lang", "cores", "platform", "engine"} : f \in DOMAIN s /\ a[f] = s[f]
    <3>1. {"lang", "cores", "platform", "engine"} \subseteq DOMAIN s
      BY ONLY <1>1 DEF PayloadFields
    <3> QED BY ONLY <3>1 DEF Bot!Aged, a
  <2>3. \A f \in {"chMajor", "brands", "vendor", "appVersion"} : f \in DOMAIN s /\ a[f] = s[f]
    <3>1. {"chMajor", "brands", "vendor", "appVersion"} \subseteq DOMAIN s
      BY ONLY <1>1 DEF PayloadFields
    <3> QED BY ONLY <3>1 DEF Bot!Aged, a
  <2>4. \A f \in {"productSub", "gpu", "tz", "tzOffset"} : f \in DOMAIN s /\ a[f] = s[f]
    <3>1. {"productSub", "gpu", "tz", "tzOffset"} \subseteq DOMAIN s
      BY ONLY <1>1 DEF PayloadFields
    <3> QED BY ONLY <3>1 DEF Bot!Aged, a
  <2>5. \A f \in {"plugins", "fonts", "http", "net"} : f \in DOMAIN s /\ a[f] = s[f]
    <3>1. {"plugins", "fonts", "http", "net"} \subseteq DOMAIN s
      BY ONLY <1>1 DEF PayloadFields
    <3> QED BY ONLY <3>1 DEF Bot!Aged, a
  <2>6. \A f \in {"halves", "reuse", "churn"} : f \in DOMAIN s /\ a[f] = s[f]
    <3>1. {"halves", "reuse", "churn"} \subseteq DOMAIN s
      BY ONLY <1>1 DEF PayloadFields
    <3> QED BY ONLY <3>1 DEF Bot!Aged, a
  <2> HIDE DEF a, s
  <2> QED BY ONLY <2>1, <2>2, <2>3, <2>4, <2>5, <2>6
<1> HIDE DEF a
<1> QED BY <1>1, <1>2, <1>4, <1>5, <1>6, <1>7, <1>8, <1>9, <1>10, <1>11 DEF a, s

\* Its payload trips no more rules than the whole one.
LEMMA AgedTripsNoMore ==
    ASSUME NEW q, BotRequest(q), NEW n \in 1..q.signals.v
    PROVE  /\ Bot!Loud(Bot!Aged(q.signals, n)) \subseteq Bot!Loud(q.signals)
           /\ Bot!Soft(Bot!Aged(q.signals, n)) \subseteq Bot!Soft(q.signals)
<1> DEFINE s == q.signals
           a == Bot!Aged(s, n)
<1>1. /\ a.v = n /\ n \in Nat /\ n <= s.v /\ s.v \in Nat
      /\ a.touch = (IF n < 3 THEN 0 ELSE s.touch) /\ a.mimes = (IF n < 3 THEN 0 ELSE s.mimes)
      /\ a.outerH = (IF n < 3 THEN 0 ELSE s.outerH) /\ a.innerH = (IF n < 3 THEN 0 ELSE s.innerH)
      /\ a.jsEngine = (IF n < 3 THEN None ELSE s.jsEngine) /\ a.webrtc = (IF n < 3 THEN {} ELSE s.webrtc)
      /\ n >= 4 => a.net4 = s.net4
  BY AgedFields
<1>2. /\ \A x \in a.ok : x \in s.ok
      /\ \A x \in s.ok : x \notin {"native_descriptor_tamper", "native_callnew_tamper", "navigator_proto_tamper",
                                   "chrome_runtime_tamper", "matchMedia"} => x \in a.ok
      /\ n >= 2 => \A x \in {"native_descriptor_tamper", "native_callnew_tamper"} : x \in s.ok => x \in a.ok
      /\ n >= 3 => \A x \in {"navigator_proto_tamper", "chrome_runtime_tamper"} : x \in s.ok => x \in a.ok
      /\ n >= 4 => ("matchMedia" \in s.ok => "matchMedia" \in a.ok)
  BY AgedFields
<1>3. (\A x \in a.bad : x \in s.bad) /\ \A x \in {"cdpMain", "cdpWorker"} : x \in s.bad => x \in a.bad
  BY AgedFields
<1>4. \A f \in {"ua", "odd", "ctx", "langs", "lang", "cores", "platform", "engine", "chMajor", "brands", "vendor",
                "appVersion", "productSub", "gpu", "tz", "tzOffset", "plugins", "fonts", "http", "net",
                "halves", "reuse", "churn"} : a[f] = s[f]
  BY AgedFields
<1>5. /\ a.ua = s.ua /\ a.odd = s.odd /\ a.ctx = s.ctx /\ a.langs = s.langs /\ a.lang = s.lang /\ a.cores = s.cores
      /\ a.platform = s.platform /\ a.engine = s.engine /\ a.chMajor = s.chMajor /\ a.brands = s.brands
      /\ a.vendor = s.vendor /\ a.appVersion = s.appVersion /\ a.productSub = s.productSub /\ a.gpu = s.gpu
      /\ a.tz = s.tz /\ a.tzOffset = s.tzOffset /\ a.plugins = s.plugins /\ a.fonts = s.fonts /\ a.http = s.http
      /\ a.net = s.net /\ a.reuse = s.reuse /\ a.churn = s.churn
  <2> HIDE DEF a, s
  <2> QED BY <1>4
<1>6. Bot!ClientUA(a) = Bot!ClientUA(s)
  BY <1>5 DEF Bot!ClientUA
<1> HIDE DEF a, s
<1>7. Bot!HardHits(a) \subseteq Bot!HardHits(s)
  BY <1>1, <1>2, <1>3, <1>5 DEF Bot!HardHits
<1>8. Bot!ContextHits(a) \subseteq Bot!ContextHits(s)
  BY <1>5 DEF Bot!ContextHits
<1>9. Bot!ClaimHits(a) \subseteq Bot!ClaimHits(s)
  BY <1>5, <1>6 DEF Bot!ClaimHits
<1>10. Bot!NetworkHits(a) \subseteq Bot!NetworkHits(s)
  BY <1>5 DEF Bot!NetworkHits
<1>11. Bot!SelfHits(a) \subseteq Bot!SelfHits(s)
  BY <1>2, <1>3, <1>5, <1>6 DEF Bot!SelfHits
<1>12. Bot!HardwareHits(a) \subseteq Bot!HardwareHits(s)
  BY <1>1, <1>3, <1>5, <1>6 DEF Bot!HardwareHits
<1>13. Bot!EngineHits(a) \subseteq Bot!EngineHits(s)
  BY <1>1, <1>5, <1>6 DEF Bot!EngineHits, Bot!Differ
<1>14. Bot!TamperHits(a) \subseteq Bot!TamperHits(s)
  BY <1>1, <1>2, <1>3, <1>6 DEF Bot!TamperHits
<1>15. Bot!PageHits(a) \subseteq Bot!PageHits(s)
  BY <1>2, <1>3, <1>5, <1>6 DEF Bot!PageHits
<1>16. Bot!ProbeHits(a) \subseteq Bot!ProbeHits(s)
  BY <1>1, <1>2, <1>3, <1>5, <1>6 DEF Bot!ProbeHits
<1> QED BY <1>7, <1>8, <1>9, <1>10, <1>11, <1>12, <1>13, <1>14, <1>15, <1>16 DEF Bot!Loud, Bot!Soft, a, s

\* An old collector trips no rule for what it could not have sent.
LEMMA OldPayloadIsKept ==
    ASSUME NEW q, BotRequest(q)
    PROVE  Bot!OldPayloadIsNoEvidence(q.signals, Bot!Evaluate(q.signals))
<1> SUFFICES ASSUME NEW n \in 1..q.signals.v
             PROVE  Bot!Evaluate(Bot!Aged(q.signals, n)).fired \subseteq Bot!Evaluate(q.signals).fired
  BY DEF Bot!OldPayloadIsNoEvidence
<1> DEFINE s == q.signals
           a == Bot!Aged(s, n)
<1>1. a.halves = s.halves
  <2>1. \A f \in {"halves"} : a[f] = s[f]
    BY AgedFields
  <2> QED BY <2>1
<1>2. Bot!Loud(a) \subseteq Bot!Loud(s) /\ Bot!Soft(a) \subseteq Bot!Soft(s)
  BY AgedTripsNoMore
<1>3. \A t : Bot!Evaluate(t).fired = Bot!Fires(t, Bot!Loud(t)) \cup Bot!Fires(t, Bot!Soft(t))
  BY DEF Bot!Evaluate, Bot!Graded
<1> HIDE DEF a, s
<1>4. /\ Bot!Fires(a, Bot!Loud(a)) \subseteq Bot!Fires(s, Bot!Loud(s))
      /\ Bot!Fires(a, Bot!Soft(a)) \subseteq Bot!Fires(s, Bot!Soft(s))
  BY <1>1, <1>2 DEF Bot!Fires
<1> QED BY <1>3, <1>4 DEF a, s

\* What is lost adds up: nothing is lost for nothing, and each rule costs its weight.
WeightSum(counted, g) ==
    g = [s \in SUBSET counted |->
            IF s = {} THEN 0 ELSE Bot!Weight(CHOOSE x \in s : TRUE) + g[s \ {CHOOSE x \in s : TRUE}]]

\* The weight of one more rule is its own, on top of the others'.
LEMMA WeightsAdd ==
    ASSUME NEW counted, IsFiniteSet(counted)
    PROVE  LET lost == Bot!MapThenSumSet(Bot!Weight, counted)
           IN  lost \in Nat /\ (counted = {} => lost = 0) /\ \A x \in counted : Bot!Weight(x) <= lost
<1> DEFINE ch == [s \in SUBSET counted |-> CHOOSE x \in s : TRUE]
           w == [x \in counted |-> Bot!Weight(x)]
           lost == Bot!MapThenSumSet(Bot!Weight, counted)
<1>1. lost = (CHOOSE g : WeightSum(counted, g))[counted]
  BY DEF Bot!MapThenSumSet, Bot!MapThenFoldSet, WeightSum
<1>2. Chooses(ch, counted)
  BY DEF Chooses
<1>3. \A x : Bot!Weight(x) \in Nat
  BY DEF Bot!Weight
<1>4. w \in [counted -> Nat]
  BY <1>3
<1>5. ASSUME NEW s \in SUBSET counted, s # {}
      PROVE  ch[s] = (CHOOSE x \in s : TRUE) /\ ch[s] \in s /\ w[ch[s]] = Bot!Weight(ch[s])
  BY <1>2, <1>5 DEF Chooses
<1> HIDE DEF ch, w
<1>6. ASSUME NEW g, \A s \in SUBSET counted : g[s] \in Nat
      PROVE  WeightSum(counted, g) <=> Sums(ch, 0, w, counted, g)
  <2>1. ASSUME NEW s \in SUBSET counted, s # {}
        PROVE  g[s \ {ch[s]}] + w[ch[s]] = Bot!Weight(CHOOSE x \in s : TRUE) + g[s \ {CHOOSE x \in s : TRUE}]
    <3> DEFINE c == CHOOSE x \in s : TRUE
    <3>1. c = ch[s] /\ w[c] = Bot!Weight(c) /\ s \ {c} \in SUBSET counted
      BY <1>5, <2>1
    <3> HIDE DEF c
    <3>2. g[s \ {c}] \in Nat /\ Bot!Weight(c) \in Nat
      BY <1>3, <1>6, <3>1
    <3>3. g[s \ {c}] + w[c] = Bot!Weight(c) + g[s \ {c}]
      BY <3>1, <3>2
    <3> QED BY <3>1, <3>3 DEF c
  <2>2. [s \in SUBSET counted |-> IF s = {} THEN 0 ELSE g[s \ {ch[s]}] + w[ch[s]]]
        = [s \in SUBSET counted |-> IF s = {} THEN 0 ELSE Bot!Weight(CHOOSE x \in s : TRUE) + g[s \ {CHOOSE x \in s : TRUE}]]
    BY <2>1
  <2> QED BY <2>2 DEF Sums, WeightSum
<1>7. ASSUME NEW g, WeightSum(counted, g) PROVE \A s \in SUBSET counted : g[s] \in Nat
  <2> DEFINE F == {s \in SUBSET counted : g[s] \in Nat}
  <2>1. ASSUME NEW s \in SUBSET counted, \A t \in SUBSET s : t # s => t \in F PROVE s \in F
    <3>1. CASE s = {}
      BY <1>7, <3>1 DEF WeightSum
    <3>2. CASE s # {}
      <4> DEFINE c == CHOOSE x \in s : TRUE
      <4>1. c \in s /\ s \ {c} \in SUBSET s /\ s \ {c} # s
        BY <3>2
      <4>2. g[s] = Bot!Weight(c) + g[s \ {c}]
        BY <1>7, <3>2 DEF WeightSum
      <4> HIDE DEF c
      <4>3. g[s \ {c}] \in Nat /\ Bot!Weight(c) \in Nat
        BY <1>3, <2>1, <4>1
      <4> QED BY <4>2, <4>3
    <3> QED BY <3>1, <3>2
  <2>2. F \in SUBSET SUBSET counted
    OBVIOUS
  <2>3. F = SUBSET counted
    <3> HIDE DEF F
    <3> QED BY <2>1, <2>2, SetInduction
  <2> QED BY <2>3
<1> HIDE DEF lost
<1>8. PICK g : WeightSum(counted, g) /\ lost = g[counted]
  <2>1. PICK g : Sums(ch, 0, w, counted, g)
    BY <1>2, <1>4, SumSolved
  <2>2. WeightSum(counted, g)
    BY <1>2, <1>4, <1>6, <2>1, SumSolved
  <2> QED BY <1>1, <2>2
<1>9. Sums(ch, 0, w, counted, g)
  BY <1>6, <1>7, <1>8
<1>10. g[counted] \in Nat /\ \A x \in counted : 0 + w[x] <= g[counted]
  BY <1>2, <1>4, <1>9, SumSolved
<1>11. \A x \in counted : w[x] = Bot!Weight(x)
  BY DEF w
<1>12. counted = {} => g[counted] = 0
  BY <1>8 DEF WeightSum
<1>13. \A x \in counted : Bot!Weight(x) <= g[counted]
  BY <1>3, <1>10, <1>11
<1> QED BY <1>8, <1>10, <1>12, <1>13 DEF lost

\* Every rule costs something, a hard one enough to be no human's.
LEMMA Costs ==
    /\ \A x : Bot!Weight(x) \in Nat /\ Bot!Weight(x) >= 15
    /\ \A s : \A x \in Bot!HardHits(s) : Bot!Weight(x) >= 40
<1>1. \A x : Bot!Weight(x) \in Nat /\ Bot!Weight(x) >= 15
  BY DEF Bot!Weight
<1>2. \A s : \A x \in Bot!HardHits(s) : Bot!Weight(x) >= 40
  BY DEF Bot!Weight, Bot!HardHits
<1> QED BY <1>1, <1>2

\* There are finitely many rules.
LEMMA FewAreFinite ==
    ASSUME NEW a, NEW b, NEW c, NEW d, NEW e, NEW f, NEW g, NEW h, NEW i
    PROVE  IsFiniteSet({a, b, c, d, e, f, g, h, i})
<1>1. IsFiniteSet({a, b, c})
  <2>1. IsFiniteSet({a}) /\ IsFiniteSet({b}) /\ IsFiniteSet({c}) /\ {a, b, c} = ({a} \cup {b}) \cup {c}
    BY FS_Singleton
  <2>2. IsFiniteSet({a} \cup {b})
    BY ONLY <2>1, FS_Union
  <2> QED BY ONLY <2>1, <2>2, FS_Union
<1>2. IsFiniteSet({d, e, f})
  <2>1. IsFiniteSet({d}) /\ IsFiniteSet({e}) /\ IsFiniteSet({f}) /\ {d, e, f} = ({d} \cup {e}) \cup {f}
    BY FS_Singleton
  <2>2. IsFiniteSet({d} \cup {e})
    BY ONLY <2>1, FS_Union
  <2> QED BY ONLY <2>1, <2>2, FS_Union
<1>3. IsFiniteSet({g, h, i})
  <2>1. IsFiniteSet({g}) /\ IsFiniteSet({h}) /\ IsFiniteSet({i}) /\ {g, h, i} = ({g} \cup {h}) \cup {i}
    BY FS_Singleton
  <2>2. IsFiniteSet({g} \cup {h})
    BY ONLY <2>1, FS_Union
  <2> QED BY ONLY <2>1, <2>2, FS_Union
<1>4. {a, b, c, d, e, f, g, h, i} = ({a, b, c} \cup {d, e, f}) \cup {g, h, i}
  OBVIOUS
<1>5. IsFiniteSet({a, b, c} \cup {d, e, f})
  BY <1>1, <1>2, FS_Union
<1>6. IsFiniteSet(({a, b, c} \cup {d, e, f}) \cup {g, h, i})
  BY <1>3, <1>5, FS_Union
<1> QED BY <1>4, <1>6

\* There are finitely many loud rules,
LEMMA LoudIsFinite == \A s : IsFiniteSet(Bot!Loud(s))
<1> TAKE s
<1>1. IsFiniteSet(Bot!HardHits(s))
  <2>1. Bot!HardHits(s) \subseteq {"webdriver", "framework_globals", "bot_user_agent", "native_tamper", "tostring_proxy",
            "software_renderer", "iframe_webdriver", "webdriver_sw", "webdriver_sw"}
    BY DEF Bot!HardHits
  <2> QED BY <2>1, FewAreFinite, FS_Subset
<1>2. IsFiniteSet(Bot!ContextHits(s))
  <2> DEFINE x == "context_webgl_mismatch"
  <2>1. Bot!ContextHits(s) \subseteq {"context_ua_mismatch", "context_language_mismatch", "context_cores_mismatch",
            "context_platform_mismatch", x, x, x, x, x}
    BY DEF Bot!ContextHits
  <2> QED BY <2>1, FewAreFinite, FS_Subset
<1>3. IsFiniteSet(Bot!ClaimHits(s))
  <2> DEFINE x == "embedded_runtime"
  <2>1. Bot!ClaimHits(s) \subseteq {"ua_header_mismatch", "ch_platform_mismatch", "ua_os_mismatch", "engine_ua_mismatch",
            "ua_chrome_version_mismatch", x, x, x, x}
    BY DEF Bot!ClaimHits
  <2> QED BY <2>1, FewAreFinite, FS_Subset
<1>4. IsFiniteSet(Bot!NetworkHits(s))
  <2> DEFINE x == "ip_blocklisted"
  <2>1. Bot!NetworkHits(s) \subseteq {"tz_mismatch", "datacenter_ip", "proxy_ip", x, x, x, x, x, x}
    BY DEF Bot!NetworkHits
  <2> QED BY <2>1, FewAreFinite, FS_Subset
<1>5. IsFiniteSet(Bot!SelfHits(s))
  <2>1. Bot!SelfHits(s) \subseteq {"permission_impossible", "lang_mismatch", "tz_self_inconsistent", "canvas_unstable",
            "ch_brands_mismatch", "vendor_mismatch", "app_version_mismatch", "productsub_mismatch", "language_primary_mismatch"}
    BY DEF Bot!SelfHits
  <2> QED BY <2>1, FewAreFinite, FS_Subset
<1>6. IsFiniteSet(Bot!HardwareHits(s))
  <2> DEFINE x == "mobile_no_touch"
  <2>1. Bot!HardwareHits(s) \subseteq {"webgl_vendor_mismatch", "gpu_os_mismatch", "iframe_proxy", x, x, x, x, x, x}
    BY DEF Bot!HardwareHits
  <2> QED BY <2>1, FewAreFinite, FS_Subset
<1>7. IsFiniteSet(Bot!EngineHits(s))
  <2> DEFINE x == "fingerprint_reuse"
  <2>1. Bot!EngineHits(s) \subseteq {"jsengine_ua_mismatch", "webrtc_ip_mismatch", x, x, x, x, x, x, x}
    BY DEF Bot!EngineHits
  <2> QED BY <2>1, FewAreFinite, FS_Subset
<1> QED BY <1>1, <1>2, <1>3, <1>4, <1>5, <1>6, <1>7, FS_Union DEF Bot!Loud

\* and finitely many soft ones.
LEMMA SoftIsFinite == \A s : IsFiniteSet(Bot!Soft(s))
<1> TAKE s
<1>1. IsFiniteSet(Bot!TamperHits(s))
  <2> DEFINE x == "chrome_late_injection"
  <2>1. Bot!TamperHits(s) \subseteq {"native_descriptor_tamper", "native_callnew_tamper", "navigator_proto_tamper",
            "chrome_runtime_tamper", x, x, x, x, x}
    BY DEF Bot!TamperHits
  <2> QED BY <2>1, FewAreFinite, FS_Subset
<1>2. IsFiniteSet(Bot!PageHits(s))
  <2> DEFINE x == "missing_proprietary_codecs"
             T == {"ip_probed", "empty_plugins", "empty_languages", "default_geometry", "impossible_window",
                   "no_chrome_object", "implausible_hardware", "screen_avail_impossible", "low_color_depth"}
             U == {"sec_fetch_missing", "accept_encoding_missing", "accept_language_missing", "accept_nav_mismatch",
                   "canvas_blank", x, x, x, x}
  <2>1. Bot!PageHits(s) \subseteq T \cup U
    BY DEF Bot!PageHits
  <2>2. IsFiniteSet(T) /\ IsFiniteSet(U)
    BY FewAreFinite
  <2> HIDE DEF T, U
  <2> QED BY <2>1, <2>2, FS_Union, FS_Subset
<1>3. IsFiniteSet(Bot!ProbeHits(s))
  <2> DEFINE x == "cdp_sw_only"
             T == {"no_fonts", "image_broken", "plugins_mimetypes_incoherent", "zero_outer_height", "matchmedia_missing",
                   "netinfo_incoherent", "ip_fingerprint_churn", "cdp_both", "cdp_main_only"}
             U == {x, x, x, x, x, x, x, x, x}
  <2>1. Bot!ProbeHits(s) \subseteq T \cup U
    BY DEF Bot!ProbeHits
  <2>2. IsFiniteSet(T) /\ IsFiniteSet(U)
    BY FewAreFinite
  <2> HIDE DEF T, U
  <2> QED BY <2>1, <2>2, FS_Union, FS_Subset
<1> QED BY <1>1, <1>2, <1>3, FS_Union DEF Bot!Soft

\* The debugger traps and the address rules are of their sets alone, and exclude
\* one another.
LEMMA OncePerFact ==
    ASSUME NEW s
    PROVE  /\ ~({"datacenter_ip", "proxy_ip"} \subseteq Bot!Loud(s) \cup Bot!Soft(s))
           /\ \A x, y \in {"cdp_both", "cdp_main_only", "cdp_sw_only"} \cap (Bot!Loud(s) \cup Bot!Soft(s)) : x = y
<1> DEFINE traps == {"cdp_both", "cdp_main_only", "cdp_sw_only"}
<1>1. \A x \in traps \cup {"datacenter_ip", "proxy_ip"} :
         x \notin Bot!HardHits(s) \cup Bot!ContextHits(s) \cup Bot!ClaimHits(s) \cup Bot!SelfHits(s) \cup Bot!HardwareHits(s)
                   \cup Bot!EngineHits(s) \cup Bot!TamperHits(s) \cup Bot!PageHits(s)
  BY DEF Bot!HardHits, Bot!ContextHits, Bot!ClaimHits, Bot!SelfHits, Bot!HardwareHits, Bot!EngineHits, Bot!TamperHits,
         Bot!PageHits
<1>2. \A x \in traps : x \notin Bot!NetworkHits(s)
  BY DEF Bot!NetworkHits
<1>3. \A x \in {"datacenter_ip", "proxy_ip"} : x \notin Bot!ProbeHits(s)
  BY DEF Bot!ProbeHits
<1>4. ~({"datacenter_ip", "proxy_ip"} \subseteq Bot!NetworkHits(s))
  BY DEF Bot!NetworkHits
<1>5. \A x, y \in traps \cap Bot!ProbeHits(s) : x = y
  BY DEF Bot!ProbeHits
<1>6. {"datacenter_ip", "proxy_ip"} \cap (Bot!Loud(s) \cup Bot!Soft(s)) \subseteq Bot!NetworkHits(s)
  BY <1>1, <1>3 DEF Bot!Loud, Bot!Soft
<1>7. traps \cap (Bot!Loud(s) \cup Bot!Soft(s)) \subseteq Bot!ProbeHits(s)
  BY <1>1, <1>2 DEF Bot!Loud, Bot!Soft
<1> QED BY <1>4, <1>5, <1>6, <1>7

\* A family is counted once.
LEMMA AtMostOne ==
    ASSUME NEW T, IsFiniteSet(T), \A x, y \in T : x = y
    PROVE  Cardinality(T) <= 1
<1>1. CASE T = {}
  BY <1>1, FS_EmptySet
<1>2. CASE T # {}
  <2>1. PICK x \in T : T = {x}
    BY <1>2
  <2> QED BY <2>1, FS_Singleton
<1> QED BY <1>1, <1>2

\* The score is a hundred when nothing is lost, and a human lost little.
LEMMA ScoreIsKept ==
    ASSUME NEW q, BotRequest(q)
    PROVE  Bot!ScoreIsFair(q.signals, Bot!Evaluate(q.signals))
<1> DEFINE s == q.signals
           e == Bot!Evaluate(s)
           hits == Bot!Fires(s, Bot!Loud(s))
           soft == Bot!Fires(s, Bot!Soft(s))
           counted == IF Bot!Verified(s) THEN hits \ Bot!Suppressed ELSE hits
           weight == Bot!MapThenSumSet(Bot!Weight, counted)
           lost == weight + IF Bot!SoftCluster(s) THEN 25 ELSE 0
           forgiven == IF e.verdict = "good-bot" THEN Bot!Suppressed ELSE {}
           loud == {x \in e.fired : x \in Bot!Loud(s)} \ forgiven
<1> SUFFICES Bot!ScoreIsFair(s, e)
  OBVIOUS
<1>1. /\ e.fired = hits \cup soft
      /\ e.score = IF lost > 100 THEN 0 ELSE 100 - lost
      /\ e.verdict = CASE Bot!Verified(s) -> "good-bot"
                       [] ~Bot!Verified(s) /\ e.score >= 80 -> "human"
                       [] ~Bot!Verified(s) /\ e.score < 80 /\ e.score >= 50 -> "suspicious"
                       [] OTHER -> "bot"
  BY DEF Bot!Evaluate, Bot!Graded
<1>2. hits \subseteq Bot!Loud(s) /\ soft \subseteq Bot!Soft(s) /\ \A x \in hits \cup soft : Bot!Needs(x) \subseteq s.halves
  BY DEF Bot!Fires
<1>3. counted \subseteq hits /\ IsFiniteSet(counted)
  BY <1>2, LoudIsFinite, FS_Subset
<1>4. weight \in Nat /\ (counted = {} => weight = 0) /\ \A x \in counted : Bot!Weight(x) <= weight
  <2> HIDE DEF counted
  <2> QED BY <1>3, WeightsAdd
<1>5. Bot!SoftCluster(s) <=> Cardinality(soft) >= 3
  <2>1. \A S : Bot!Cardinality(S) = Cardinality(S)
    BY DEF Bot!Cardinality, Cardinality
  <2> QED BY <2>1 DEF Bot!SoftCluster
<1> HIDE DEF weight, e
<1>6. (e.verdict = "good-bot") <=> Bot!Verified(s)
  <2> HIDE DEF s
  <2> QED BY <1>1
<1>7. loud = counted
  <2>1. {x \in e.fired : x \in Bot!Loud(s)} = hits
    BY <1>1 DEF Bot!Fires
  <2> QED BY <1>6, <2>1
<1>8. {x \in e.fired : x \in Bot!Soft(s)} = soft
  BY <1>1 DEF Bot!Fires
<1> HIDE DEF counted, loud, s
<1>9. e.score = 100 <=> loud = {} /\ ~Bot!SoftCluster(s)
  <2>1. counted # {} => weight >= 15
    <3>1. ASSUME NEW x \in counted PROVE weight >= 15
      BY <1>4, Costs
    <3> QED BY <3>1
  <2> QED BY <1>1, <1>4, <1>7, <2>1
<1>10. e.verdict = "human" => loud \cap Bot!HardHits(s) = {}
  <2>1. ASSUME NEW x \in counted, x \in Bot!HardHits(s) PROVE e.score < 80
    <3>1. Bot!Weight(x) \in Nat /\ Bot!Weight(x) >= 40 /\ Bot!Weight(x) <= weight
      BY <1>4, <2>1, Costs
    <3> QED BY <1>1, <1>4, <3>1
  <2>2. e.verdict = "human" => ~(e.score < 80)
    <3>1. e.score \in Int
      BY <1>1, <1>4
    <3>2. ~Bot!Verified(s) /\ e.score < 80 => e.verdict \in {"suspicious", "bot"}
      BY <1>1, <3>1
    <3> QED BY <1>6, <3>2
  <2> QED BY <1>7, <2>1, <2>2
<1>11. e.verdict = "good-bot" => Bot!GoodBot(Bot!ClientUA(s)) # None /\ s.net.asn # None
  <2>1. ASSUME Bot!Verified(s) PROVE Bot!GoodBot(Bot!ClientUA(s)) # None /\ s.net.asn # None
    <3> DEFINE u == Bot!ClientUA(s)
    <3>1. u \in UserAgents
      BY DEF Bot!ClientUA, BotRequest, s
    <3>2. Bot!GoodBot(u) # None /\ s.net.asn \in CrawlerASN[Bot!GoodBot(u)]
      BY <2>1 DEF Bot!Verified
    <3>3. Bot!GoodBot(u) \in DOMAIN CrawlerASN
      <4> HIDE DEF u
      <4> QED BY <3>1, <3>2 DEF Bot!GoodBot, UserAgents
    <3> QED BY <3>2, <3>3, CrawlersHaveNetworks
  <2> QED BY <1>6, <2>1
<1>12. ~({"datacenter_ip", "proxy_ip"} \subseteq e.fired)
  BY <1>1, <1>2, OncePerFact
<1>13. Cardinality({"cdp_both", "cdp_main_only", "cdp_sw_only"} \cap e.fired) <= 1
  <2> DEFINE T == {"cdp_both", "cdp_main_only", "cdp_sw_only"} \cap e.fired
  <2>1. \A x, y \in T : x = y
    BY <1>1, <1>2, OncePerFact
  <2>2. IsFiniteSet({"cdp_both", "cdp_main_only", "cdp_sw_only"})
    <3> DEFINE x == "cdp_sw_only"
    <3>1. IsFiniteSet({"cdp_both", "cdp_main_only", x, x, x, x, x, x, x})
      BY FewAreFinite
    <3> QED BY <3>1
  <2>3. IsFiniteSet(T)
    BY <2>2, FS_Subset
  <2> HIDE DEF T
  <2> QED BY <2>1, <2>3, AtMostOne DEF T
<1>14. \A S : Bot!Cardinality(S) = Cardinality(S)
  BY DEF Bot!Cardinality, Cardinality
<1>15. ~Bot!SoftCluster(s) <=> Cardinality(e.fired \cap Bot!Soft(s)) < 3
  <2>1. e.fired \cap Bot!Soft(s) = soft
    BY <1>8
  <2>2. Cardinality(soft) \in Nat
    BY <1>2, SoftIsFinite, FS_Subset, FS_CardinalityType
  <2> QED BY <1>5, <2>1, <2>2
<1>16. \A x \in e.fired : Bot!Needs(x) \subseteq s.halves
  BY <1>1, <1>2 DEF s
<1> QED BY <1>9, <1>10, <1>11, <1>12, <1>13, <1>14, <1>15, <1>16 DEF Bot!ScoreIsFair, loud

(* PKCE and the HMAC tool,                                                 *)

\* A verdict is "valid" only when a key that may have signed did.
LEMMA ValidBy ==
    ASSUME NEW input, NEW sig, NEW alg, NEW pasted, NEW enc, NEW kid, NEW crit \in BOOLEAN
    PROVE  LET keys == Token!ReadKeys(pasted, enc)
               right == {i \in Token!Narrowed(Token!Fit(alg, keys), keys, pasted, kid) :
                            Token!VerifyJWS(Token!JwsAlgs[alg], keys[i], input, sig)}
           IN  Token!Verify(input, sig, alg, pasted, enc, kid, crit).state = "valid" <=>
                  /\ alg \notin Token!NoneAlgs /\ pasted.given /\ ~crit /\ alg \in Token!Supported
                  /\ pasted.material \/ Token!JwsAlgs[alg].kind = "secret"
                  /\ keys # None /\ right # {}
<1> DEFINE keys == Token!ReadKeys(pasted, enc)
           fit == Token!Fit(alg, keys)
           tried == Token!Narrowed(fit, keys, pasted, kid)
           right == {i \in tried : Token!VerifyJWS(Token!JwsAlgs[alg], keys[i], input, sig)}
           v == Token!Verify(input, sig, alg, pasted, enc, kid, crit)
           others == LET readings == Token!SecretReadings(pasted, "auto")
                     IN  {i \in DOMAIN readings : Token!VerifyJWS(Token!JwsAlgs[alg], readings[i], input, sig)}
<1>1. v.state = IF alg \in Token!NoneAlgs THEN "refused" ELSE IF ~pasted.given THEN "unchecked"
                ELSE IF crit \/ alg \notin Token!Supported THEN "refused"
                ELSE IF ~pasted.material /\ Token!JwsAlgs[alg].kind # "secret" THEN "refused"
                ELSE IF keys = None THEN "error" ELSE IF fit = {} THEN "refused" ELSE IF tried = {} THEN "invalid"
                ELSE IF right # {} THEN "valid" ELSE "invalid"
  <2>1. \A s, b, h : Token!Verdict(s, b, h).state = s
    BY DEF Token!Verdict
  <2> HIDE DEF keys, fit, tried, right
  <2> QED BY <2>1 DEF Token!Verify, keys, fit, tried, right
<1>2. right # {} => tried # {} /\ fit # {}
  BY DEF Token!Narrowed
<1> HIDE DEF v, keys, fit, tried, right
<1>3. v.state = "valid" <=>
         /\ alg \notin Token!NoneAlgs /\ pasted.given /\ ~crit /\ alg \in Token!Supported
         /\ pasted.material \/ Token!JwsAlgs[alg].kind = "secret"
         /\ keys # None /\ right # {}
  BY <1>1, <1>2
<1> QED BY <1>3 DEF v, keys, right, tried, fit

\* Keys pasted are finitely many.
LEMMA KeysAreFew ==
    ASSUME NEW pasted \in Pastes, NEW enc, pasted.material, NEW T \in SUBSET DOMAIN Token!ReadKeys(pasted, enc),
           Token!ReadKeys(pasted, enc) # None
    PROVE  IsFiniteSet(T) /\ Cardinality(T) \in Nat
<1>1. Token!ReadKeys(pasted, enc) \in Seq(TokenKeys)
  BY DEF Token!ReadKeys, Pastes
<1>2. DOMAIN Token!ReadKeys(pasted, enc) = 1..Len(Token!ReadKeys(pasted, enc)) /\ Len(Token!ReadKeys(pasted, enc)) \in Nat
  BY <1>1
<1>3. IsFiniteSet(1..Len(Token!ReadKeys(pasted, enc)))
  BY <1>2, FS_Interval
<1>4. IsFiniteSet(T)
  BY <1>2, <1>3, FS_Subset
<1> QED BY <1>4, FS_CardinalityType

\* What is shown of a token of three parts.
Opened(d, tok, pasted, enc, now, leeway) ==
    LET alg == Token!Member(tok.header, "alg")
        kid == Token!Member(tok.header, "kid")
    IN  /\ d.alg = alg
        /\ d.validity = IF Token!Segment(tok, "claims") THEN Token!DecodePayload(tok.payload.claims, now, leeway) ELSE None
        /\ d.verification = IF ~Token!Segment(tok, "sig") THEN Token!Verdict("invalid", None, None)
                            ELSE Token!Verify(Token!Input(tok), tok.sig, IF alg = None THEN "" ELSE alg, pasted, enc,
                                              IF kid = None THEN "" ELSE kid, Token!Named(tok.header, "crit"))
LEMMA Decoded ==
    ASSUME NEW tok, NEW pasted, NEW enc, NEW now, NEW leeway,
           tok.parts = 3, Token!Segment(tok, "header"), Token!Segment(tok, "payload"), ~Token!Unreadable(tok.header, "alg")
    PROVE  Opened(Token!DecodeJWT(tok, pasted, enc, now, leeway), tok, pasted, enc, now, leeway)
<1> DEFINE alg == Token!Member(tok.header, "alg")
           kid == Token!Member(tok.header, "kid")
           valid == IF tok.parts = 3 /\ Token!Segment(tok, "claims")
                    THEN Token!DecodePayload(tok.payload.claims, now, leeway) ELSE None
           found == {s \in Token!Suspicious : Token!Named(tok.header, s)}
                    \cup (IF tok.parts = 3 /\ Token!Segment(tok, "claims")
                          THEN Token!PayloadNotes(tok.payload.claims, now, leeway) ELSE {})
           verified == IF tok.parts = 5 THEN Token!Verdict("unchecked", None, None)
                       ELSE IF ~Token!Segment(tok, "sig") THEN Token!Verdict("invalid", None, None)
                       ELSE Token!Verify(Token!Input(tok), tok.sig, IF alg = None THEN "" ELSE alg, pasted, enc,
                                         IF kid = None THEN "" ELSE kid, Token!Named(tok.header, "crit"))
           d == Token!DecodeJWT(tok, pasted, enc, now, leeway)
<1>1. d = [alg |-> alg, validity |-> valid, notes |-> found, verification |-> verified]
  BY DEF Token!DecodeJWT
<1>2. d.alg = alg /\ d.validity = valid /\ d.verification = verified
  <2> HIDE DEF d, alg, valid, found, verified
  <2> QED BY <1>1
<1>3. valid = IF Token!Segment(tok, "claims") THEN Token!DecodePayload(tok.payload.claims, now, leeway) ELSE None
  OBVIOUS
<1>4. verified = IF ~Token!Segment(tok, "sig") THEN Token!Verdict("invalid", None, None)
                 ELSE Token!Verify(Token!Input(tok), tok.sig, IF alg = None THEN "" ELSE alg, pasted, enc,
                                   IF kid = None THEN "" ELSE kid, Token!Named(tok.header, "crit"))
  OBVIOUS
<1> HIDE DEF d, valid, verified
<1> QED BY <1>2, <1>3, <1>4 DEF d, Opened

\* A key that may be tried says what a signed token's owner says.
LEMMA VerdictIsKept ==
    ASSUME NEW q, DecodeRequest(q)
    PROVE  Token!VerdictIsSound(q.token, q.paste, q.enc)
<1> DEFINE tok == q.token
           pasted == q.paste
           enc == q.enc
           d == Token!DecodeJWT(tok, pasted, enc, 0, 0)
           keys == Token!ReadKeys(pasted, enc)
           kid == Token!Member(tok.header, "kid")
           crit == Token!Named(tok.header, "crit")
           Could(k) == k.kind = Token!JwsAlgs[d.alg].kind /\ Token!JwsAlgs[d.alg].curve \in {"", k.curve} /\ k.alg \in {"", d.alg}
           Chosen(k) == \/ kid \in {None, "", k.kid}
                        \/ Cardinality({i \in DOMAIN keys : Could(keys[i])}) < 2
           Shows(k) == Token!Signed(tok, d.alg, k) /\ (~pasted.material \/ Chosen(k))
           plain == d.alg \in Token!Supported /\ Token!Segment(tok, "sig") /\ ~crit /\ pasted.given /\ keys # None
                    /\ (pasted.material \/ Token!JwsAlgs[d.alg].kind = "secret")
<1> SUFFICES ASSUME d # None, tok.parts = 3
             PROVE  d.verification.state = "valid" <=> plain /\ \E i \in DOMAIN keys : Shows(keys[i])
  <2>1. \A S : Token!Cardinality(S) = Cardinality(S)
    BY DEF Token!Cardinality, Cardinality
  <2> QED BY <2>1 DEF Token!VerdictIsSound
<1> DEFINE a == IF d.alg = None THEN "" ELSE d.alg
           named == IF kid = None THEN "" ELSE kid
           right == {i \in Token!Narrowed(Token!Fit(a, keys), keys, pasted, named) :
                        Token!VerifyJWS(Token!JwsAlgs[a], keys[i], Token!Input(tok), tok.sig)}
<1>1. /\ d.alg = Token!Member(tok.header, "alg")
      /\ d.verification = IF ~Token!Segment(tok, "sig") THEN Token!Verdict("invalid", None, None)
                          ELSE Token!Verify(Token!Input(tok), tok.sig, a, pasted, enc, named, crit)
  <2>1. Token!Segment(tok, "header") /\ Token!Segment(tok, "payload") /\ ~Token!Unreadable(tok.header, "alg")
    BY DEF Token!DecodeJWT
  <2> HIDE DEF tok, pasted, enc
  <2>2. Opened(Token!DecodeJWT(tok, pasted, enc, 0, 0), tok, pasted, enc, 0, 0)
    BY <2>1, Decoded
  <2> QED BY <2>2 DEF Opened
<1>2. d.verification.state = "valid" <=>
         /\ Token!Segment(tok, "sig")
         /\ a \notin Token!NoneAlgs /\ pasted.given /\ ~crit /\ a \in Token!Supported
         /\ pasted.material \/ Token!JwsAlgs[a].kind = "secret"
         /\ keys # None /\ right # {}
  <2>1. Token!Verdict("invalid", None, None).state # "valid"
    BY DEF Token!Verdict
  <2>2. crit \in BOOLEAN
    BY DEF Token!Named
  <2>3. Token!Verify(Token!Input(tok), tok.sig, a, pasted, enc, named, crit).state = "valid" <=>
           /\ a \notin Token!NoneAlgs /\ pasted.given /\ ~crit /\ a \in Token!Supported
           /\ pasted.material \/ Token!JwsAlgs[a].kind = "secret"
           /\ keys # None /\ right # {}
    <3> HIDE DEF a, named, crit, tok, pasted, enc
    <3> QED BY <2>2, ValidBy
  <2> HIDE DEF a, named, crit, keys, right, tok, pasted, enc, d
  <2> QED BY <1>1, <2>1, <2>3
<1>3. "" \notin Token!Supported /\ \A x \in Token!Supported : x \notin Token!NoneAlgs
  BY DEF Token!Supported, Token!JwsAlgs, Token!NoneAlgs
<1>4. a \in Token!Supported <=> d.alg \in Token!Supported
  <2> HIDE DEF d
  <2> QED BY <1>3, NoneIsNoAlgorithm
<1>5. ASSUME d.alg \in Token!Supported, keys # None PROVE right # {} <=> \E i \in DOMAIN keys : Shows(keys[i])
  <2> DEFINE fit == Token!Fit(d.alg, keys)
  <2>1. a = d.alg
    <3> HIDE DEF d
    <3> QED BY <1>5, NoneIsNoAlgorithm
  <2>2. fit = {i \in DOMAIN keys : Could(keys[i])}
    <3> HIDE DEF d, keys
    <3> QED BY DEF Token!Fit, Token!JwtKeyFits, Token!Allowed
  <2>3. pasted.material => (~(Cardinality(fit) > 1) <=> Cardinality(fit) < 2)
    <3>1. fit \in SUBSET DOMAIN keys /\ pasted \in Pastes
      BY DEF Token!Fit, DecodeRequest
    <3>2. pasted.material => Cardinality(fit) \in Nat
      <4> HIDE DEF fit, pasted, enc
      <4> QED BY <1>5, <3>1, KeysAreFew
    <3> HIDE DEF fit
    <3> QED BY <3>2
  <2>4. \A i \in fit : i \in Token!Narrowed(fit, keys, pasted, named) <=> ~pasted.material \/ Chosen(keys[i])
    <3>1. \A S : Token!Cardinality(S) = Cardinality(S)
      BY DEF Token!Cardinality, Cardinality
    <3>2. \A i \in fit : Chosen(keys[i]) <=> kid \in {None, "", keys[i].kid} \/ Cardinality(fit) < 2
      BY <2>2
    <3> HIDE DEF fit, Chosen, d, keys, pasted, kid
    <3> QED BY <2>3, <3>1, <3>2 DEF Token!Narrowed
  <2>5. \A i \in DOMAIN keys :
           i \in fit /\ Token!VerifyJWS(Token!JwsAlgs[d.alg], keys[i], Token!Input(tok), tok.sig)
           <=> Token!Signed(tok, d.alg, keys[i])
    <3> HIDE DEF d, keys, tok
    <3> QED BY <2>2 DEF Token!VerifyJWS, Token!SignJWS, Token!Material, Token!Signed
  <2>6. Token!Narrowed(fit, keys, pasted, named) \subseteq fit /\ fit \subseteq DOMAIN keys
    BY DEF Token!Narrowed, Token!Fit
  <2>7. right = {i \in Token!Narrowed(fit, keys, pasted, named) :
                    Token!VerifyJWS(Token!JwsAlgs[d.alg], keys[i], Token!Input(tok), tok.sig)}
    BY <2>1
  <2> HIDE DEF fit, right, Chosen, keys, d, tok, pasted, named
  <2> QED BY <2>4, <2>5, <2>6, <2>7
<1> HIDE DEF right, Shows, keys, d, tok, pasted, enc, crit
<1> QED BY <1>2, <1>3, <1>4, <1>5, NoneIsNoAlgorithm

(* the form that signs one,                                                *)

\* A verifier and its challenge agree, and with nothing else.
LEMMA PkceIsKept ==
    ASSUME NEW q, PkceRequest(q)
    PROVE  Token!PkceHolds(q.length, q.method, q.other)
<1> DEFINE made == Token!RunPKCEGenerate(q.length, q.method, "text")
<1>1. /\ made.verifier = [len |-> q.length, legal |-> TRUE, text |-> "text"]
      /\ made.challenge = Token!PkceChallenge("text", q.method)
  BY DEF Token!RunPKCEGenerate
<1>2. made.verifier.len = q.length /\ made.verifier.legal = TRUE /\ made.verifier.text = "text"
  <2> HIDE DEF made
  <2> QED BY <1>1
<1>4. /\ \A s, t : Token!PkceChallenge(s, "plain") # Token!PkceChallenge(t, "S256")
      /\ \A s, t : Token!PkceChallenge(s, "plain") = Token!PkceChallenge(t, "plain") => s = t
      /\ \A s, t : Token!PkceChallenge(s, "S256") = Token!PkceChallenge(t, "S256") => s = t
  BY DEF Token!PkceChallenge, Token!S256
<1>5. q.length \in Token!PkceMin..Token!PkceMax /\ q.method \in {"S256", "plain"}
  BY DEF PkceRequest
<1> HIDE DEF made
<1> QED BY <1>1, <1>2, <1>4, <1>5 DEF Token!PkceHolds, Token!RunPKCEVerify, made

\* A MAC is found under any reading of the key, and under no other key.
LEMMA MacIsKept ==
    ASSUME NEW q, MacRequest(q)
    PROVE  Token!HmacFinds(q.msg, q.paste, q.enc, q.hash, q.under)
<1> DEFINE msg == q.msg
           pasted == q.paste
           enc == q.enc
           under == q.under
           mac == [hash |-> q.hash, key |-> under, msg |-> msg]
           key == pasted.readings[IF enc = "auto" THEN "utf8" ELSE enc]
           others == Token!OtherReadings(pasted, msg, key, mac)
           other == IF "base64" \in others THEN "base64" ELSE "hex"
           r == Token!RunHMAC(msg, pasted, enc, mac)
<1>1. /\ enc \in {"auto", "utf8", "base64", "hex"} /\ under # None
      /\ pasted.readings \in [{"utf8", "base64", "hex"} -> STRING \cup {None}]
      /\ q.hash \in Token!Hashes
  BY NoneIsNoValue DEF MacRequest, ReadAs, Pastes
<1>2. \A k : mac \in Token!HashDigests(msg, k) <=> k = under
  BY <1>1 DEF Token!HashDigests
<1>3. others = {e \in {"base64", "hex"} : pasted.readings[e] \notin {None, key} /\ pasted.readings[e] = under}
  BY <1>2 DEF Token!OtherReadings
<1>4. r = IF key = None THEN None
          ELSE IF key = under \/ others = {} THEN [key |-> key, match |-> (key = under), hint |-> None]
          ELSE IF enc = "auto" THEN [key |-> pasted.readings[other], match |-> TRUE, hint |-> None]
          ELSE [key |-> key, match |-> FALSE, hint |-> other]
  <2>1. (mac \in Token!HashDigests(msg, key)) = (key = under)
    BY <1>2
  <2> HIDE DEF mac, key, others, other, enc, pasted, msg
  <2> QED BY <2>1 DEF Token!RunHMAC, key, others, other
<1>5. others # {} => other \in others
  BY DEF Token!OtherReadings
<1> SUFFICES ASSUME r # None
             PROVE  /\ r.match => r.key = under
                    /\ enc = "auto" /\ (\E e \in DOMAIN pasted.readings : pasted.readings[e] = under) => r.match
                    /\ r.hint # None => pasted.readings[r.hint] = under
  BY DEF Token!HmacFinds
<1> HIDE DEF r, other, others, mac, msg
<1>6. CASE key = under \/ others = {}
  <2>1. r.key = key /\ r.match = (key = under) /\ r.hint = None
    <3> HIDE DEF key
    <3> QED BY <1>4, <1>6
  <2>2. enc = "auto" /\ (\E e \in DOMAIN pasted.readings : pasted.readings[e] = under) => key = under
    BY <1>1, <1>3, <1>6
  <2> QED BY <2>1, <2>2
<1>7. CASE ~(key = under \/ others = {})
  <2>1. pasted.readings[other] = under
    BY <1>3, <1>5, <1>7
  <2>2. CASE enc = "auto"
    <3>1. r.key = pasted.readings[other] /\ r.match = TRUE /\ r.hint = None
      <4> HIDE DEF key
      <4> QED BY <1>4, <1>7, <2>2
    <3> QED BY <2>1, <3>1
  <2>3. CASE enc # "auto"
    <3>1. r.key = key /\ r.match = FALSE /\ r.hint = other
      <4> HIDE DEF key
      <4> QED BY <1>4, <1>7, <2>3
    <3> QED BY <2>1, <2>3, <3>1
  <2> QED BY <2>2, <2>3
<1> QED BY <1>6, <1>7

\* A member given once, and readable, is the one found.
LEMMA MemberIs ==
    ASSUME NEW members, NEW name, NEW p \in DOMAIN members, p \in Int, members[p].name = name, members[p].value # None,
           \A j \in DOMAIN members : members[j].name = name => j = p
    PROVE  Token!Member(members, name) = members[p].value
<1> DEFINE is == {i \in DOMAIN members : members[i].name = name /\ members[i].value # None}
<1>1. is = {p}
  OBVIOUS
<1>2. (CHOOSE i \in is : \A j \in is : j <= i) = p
  <2>1. \A i \in is : (\A j \in is : j <= i) <=> i = p
    BY <1>1
  <2> HIDE DEF is
  <2> QED BY <1>1, <2>1
<1> HIDE DEF is
<1> QED BY <1>1, <1>2 DEF Token!Member, is

\* What is signed names its algorithm, and nothing critical it was not told to.
LEMMA HeaderSays ==
    ASSUME NEW alg, alg # None, NEW V, NEW extra \in Seq(V), NEW kid
    PROVE  LET h == Token!BuildHeader(alg, extra, kid)
           IN  /\ Token!Member(h, "alg") = alg /\ ~Token!Unreadable(h, "alg")
               /\ Token!Named(h, "crit") => Token!Named(extra, "crit")
<1> DEFINE h == Token!BuildHeader(alg, extra, kid)
           typ == Token!M("typ", IF Token!Member(extra, "typ") = None THEN "JWT" ELSE Token!Member(extra, "typ"))
           own == {p \in {3} : kid # "" /\ ~Token!Named(extra, "kid")}
           kept == {i \in DOMAIN extra : extra[i].name \notin {"alg", "typ"}}
           D == {1, 2} \cup own \cup {i + 3 : i \in kept}
<1>1. h = [p \in D |-> IF p = 1 THEN Token!M("alg", alg) ELSE IF p = 2 THEN typ ELSE IF p = 3 THEN Token!M("kid", kid) ELSE extra[p - 3]]
  BY DEF Token!BuildHeader
<1>2. \A i \in kept : i \in Nat /\ i >= 1 /\ i + 3 - 3 = i /\ i + 3 # 1 /\ i + 3 # 2 /\ i + 3 # 3
  OBVIOUS
<1>3. DOMAIN h = D /\ h[1] = Token!M("alg", alg) /\ h[2] = typ /\ (3 \in D => h[3] = Token!M("kid", kid))
  <2>1. 1 \in D /\ 2 \in D
    OBVIOUS
  <2> HIDE DEF h, typ, D
  <2> QED BY <1>1, <2>1
<1>4. \A i \in kept : h[i + 3] = extra[i]
  <2>1. \A i \in kept : i + 3 \in D
    OBVIOUS
  <2> HIDE DEF h, typ, D, kept
  <2> QED BY <1>1, <1>2, <2>1
<1>5. \A p \in D : \/ p \in {1, 2, 3}
                  \/ \E i \in kept : p = i + 3
  OBVIOUS
<1>6. h[1].name = "alg" /\ h[1].value = alg /\ h[2].name = "typ" /\ (3 \in D => h[3].name = "kid")
  <2> HIDE DEF h, D
  <2> QED BY <1>3 DEF Token!M
<1>7. \A i \in kept : h[i + 3].name \notin {"alg", "typ"}
  <2> HIDE DEF h, D
  <2> QED BY <1>4
<1> HIDE DEF h, D, typ
<1>8. \A p \in DOMAIN h : h[p].name = "alg" => p = 1
  BY <1>3, <1>5, <1>6, <1>7
<1>9. 1 \in DOMAIN h
  BY <1>3 DEF D
<1>10. Token!Member(h, "alg") = alg
  BY <1>6, <1>8, <1>9, MemberIs
<1>11. ~Token!Unreadable(h, "alg")
  BY <1>6, <1>8 DEF Token!Unreadable
<1>12. Token!Named(h, "crit") => Token!Named(extra, "crit")
  <2> SUFFICES ASSUME NEW p \in DOMAIN h, h[p].name = "crit" PROVE Token!Named(extra, "crit")
    BY DEF Token!Named
  <2>1. PICK i \in kept : p = i + 3
    BY <1>3, <1>5, <1>6
  <2> QED BY <1>4, <2>1 DEF Token!Named
<1> QED BY <1>10, <1>11, <1>12 DEF h

SignsWith(key, alg, pasted, enc) ==
    LET secret == pasted.readings[IF enc = "auto" THEN "utf8" ELSE enc]
    IN  /\ pasted.given
        /\ pasted.material => /\ pasted.keys \in Seq(TokenKeys) /\ pasted.keys # None
                              /\ Token!JwtKeyFits(Token!JwsAlgs[alg], key) /\ \E i \in DOMAIN pasted.keys : key = pasted.keys[i]
        /\ ~pasted.material => Token!JwsAlgs[alg].kind = "secret" /\ secret # None /\ key = Token!Secret(secret)

\* The key a token is signed with is one that was given, and fits.
LEMMA SigningKeyIs ==
    ASSUME NEW alg, NEW pasted \in Pastes, NEW enc, NEW kid, Token!SigningKey(alg, pasted, enc, kid) # None
    PROVE  SignsWith(Token!SigningKey(alg, pasted, enc, kid), alg, pasted, enc)
<1> DEFINE key == Token!SigningKey(alg, pasted, enc, kid)
           secret == pasted.readings[IF enc = "auto" THEN "utf8" ELSE enc]
           scheme == Token!JwsAlgs[alg]
           fits == {i \in DOMAIN pasted.keys : Token!JwtKeyFits(scheme, pasted.keys[i])
                                               /\ (kid = "" \/ pasted.keys[i].kid \in {"", kid})}
           first == pasted.keys[Token!FirstOf(fits)]
<1>1. key = IF ~pasted.given THEN None
            ELSE IF ~pasted.material THEN (IF scheme.kind # "secret" \/ secret = None THEN None ELSE Token!Secret(secret))
            ELSE IF pasted.keys = None THEN None
            ELSE IF fits = {} THEN None
            ELSE IF scheme.kind # "secret" /\ ~first.private THEN None ELSE first
  BY DEF Token!SigningKey
<1>2. ASSUME pasted.material, pasted.keys # None, fits # {} PROVE pasted.keys \in Seq(TokenKeys) /\ Token!FirstOf(fits) \in fits
  <2>1. pasted.keys \in Seq(TokenKeys)
    BY <1>2 DEF Pastes
  <2>2. fits \in SUBSET Nat
    <3>1. DOMAIN pasted.keys = 1..Len(pasted.keys)
      BY <2>1
    <3>2. fits \subseteq DOMAIN pasted.keys
      OBVIOUS
    <3> HIDE DEF fits
    <3> QED BY <3>1, <3>2
  <2> HIDE DEF fits
  <2>3. \E i \in fits : \A j \in fits : i <= j
    BY <1>2, <2>2, LeastNat
  <2>4. Token!FirstOf(fits) \in fits
    BY <2>3 DEF Token!FirstOf
  <2> QED BY <2>1, <2>4
<1>3. CASE ~pasted.material
  <2> HIDE DEF key, secret, fits, first, scheme
  <2>1. pasted.given /\ scheme.kind = "secret" /\ secret # None /\ key = Token!Secret(secret)
    BY <1>1, <1>3 DEF key
  <2> QED BY <1>3, <2>1 DEF key, secret, scheme, SignsWith
<1>4. CASE pasted.material
  <2>1. pasted.given /\ pasted.keys # None /\ fits # {} /\ key = first
    <3> HIDE DEF secret, fits, first, scheme, key
    <3> QED BY <1>1, <1>4 DEF key
  <2>2. pasted.keys \in Seq(TokenKeys) /\ Token!FirstOf(fits) \in fits
    BY <1>2, <1>4, <2>1
  <2>3. Token!FirstOf(fits) \in DOMAIN pasted.keys /\ Token!JwtKeyFits(scheme, first)
    BY <2>2
  <2> HIDE DEF key, fits, first
  <2> QED BY <1>4, <2>1, <2>2, <2>3 DEF key, first, SignsWith
<1> QED BY <1>3, <1>4

\* A sequence over a set is one over a larger set.
LEMMA Widened ==
    ASSUME NEW V, NEW T, V \subseteq T, NEW s \in Seq(V)
    PROVE  s \in Seq(T)
OBVIOUS

\* One element, or none.
LEMMA OneLong ==
    ASSUME NEW T, NEW x \in T
    PROVE  /\ <<x>> \in Seq(T) /\ Len(<<x>>) = 1 /\ <<x>>[1] = x /\ DOMAIN <<x>> = {1}
           /\ <<>> \in Seq(T) /\ Len(<<>>) = 0 /\ DOMAIN <<>> = {}
<1>1. <<x>> \in Seq(T) /\ Len(<<x>>) = 1 /\ <<x>>[1] = x /\ <<>> \in Seq(T) /\ Len(<<>>) = 0
  OBVIOUS
<1>2. DOMAIN <<x>> = 1..1 /\ DOMAIN <<>> = 1..0 /\ 1..1 = {1} /\ 1..0 = {}
  BY <1>1
<1> QED BY <1>1, <1>2

\* One sequence after another,
LEMMA Concat ==
    ASSUME NEW T, NEW a \in Seq(T), NEW b \in Seq(T)
    PROVE  /\ a \o b \in Seq(T) /\ Len(a \o b) = Len(a) + Len(b) /\ Len(a) \in Nat /\ Len(b) \in Nat
           /\ DOMAIN (a \o b) = 1..(Len(a) + Len(b))
           /\ \A k \in 1..Len(a) : (a \o b)[k] = a[k]
           /\ \A k \in 1..Len(b) : (a \o b)[Len(a) + k] = b[k]
OBVIOUS

\* and what is at each place of the two.
LEMMA ConcatHas ==
    ASSUME NEW T, NEW a \in Seq(T), NEW b \in Seq(T), NEW k \in DOMAIN (a \o b)
    PROVE  \/ k \in DOMAIN a /\ (a \o b)[k] = a[k]
           \/ \E i \in DOMAIN b : k = Len(a) + i /\ (a \o b)[k] = b[i]
<1>1. /\ k \in 1..(Len(a) + Len(b)) /\ Len(a) \in Nat /\ Len(b) \in Nat /\ DOMAIN a = 1..Len(a) /\ DOMAIN b = 1..Len(b)
      /\ \A j \in 1..Len(a) : (a \o b)[j] = a[j]
      /\ \A j \in 1..Len(b) : (a \o b)[Len(a) + j] = b[j]
  BY Concat
<1>2. CASE k <= Len(a)
  <2>1. k \in 1..Len(a)
    BY <1>1, <1>2
  <2> QED BY <1>1, <2>1
<1>3. CASE ~(k <= Len(a))
  <2>1. k - Len(a) \in 1..Len(b) /\ k = Len(a) + (k - Len(a))
    BY <1>1, <1>3
  <2> QED BY <1>1, <2>1
<1> QED BY <1>2, <1>3

\* A time and a life after it.
LEMMA Later ==
    ASSUME NEW now \in Nat, NEW t \in Nat
    PROVE  now + t \in Nat /\ now + t \in Int /\ now + t >= now
OBVIOUS

\* An expiry put last, after claims of none, is the token's.
LEMMA LastClaim ==
    ASSUME NEW T, NEW b \in Seq(T), NEW x \in T, NEW now \in Nat, NEW life \in Nat, life # None, life >= now,
           \A k \in DOMAIN b : b[k].name \notin {"exp", "nbf"}, x.name = "exp", x.value = life
    PROVE  Token!DecodePayload(b \o <<x>>, now, 60) = "valid"
<1> DEFINE e == <<x>>
           c == b \o e
           p == Len(b) + 1
<1>1. e \in Seq(T) /\ Len(e) = 1 /\ e[1] = x /\ DOMAIN e = {1}
  BY OneLong
<1> HIDE DEF e
<1>2. DOMAIN c = 1..p /\ Len(b) \in Nat /\ DOMAIN b = 1..Len(b) /\ c[p] = x
  BY <1>1, Concat
<1>3. \A k \in DOMAIN c : (k \in DOMAIN b /\ c[k] = b[k]) \/ k = p
  BY <1>1, ConcatHas
<1> HIDE DEF c
<1>4. \A k \in DOMAIN c : c[k].name # "nbf" /\ (c[k].name = "exp" => k = p)
  <2> SUFFICES ASSUME NEW k \in DOMAIN c PROVE c[k].name # "nbf" /\ (c[k].name = "exp" => k = p)
    OBVIOUS
  <2>1. CASE k = p
    <3> HIDE DEF p
    <3> QED BY <1>2, <2>1
  <2>2. CASE k \in DOMAIN b /\ c[k] = b[k]
    <3>1. b[k].name # "nbf" /\ b[k].name # "exp"
      BY <2>2
    <3> QED BY <2>2, <3>1
  <2> QED BY <1>3, <2>1, <2>2
<1>5. Token!Member(c, "exp") = life
  <2>1. p \in DOMAIN c /\ p \in Int /\ c[p].name = "exp" /\ c[p].value # None /\ c[p].value = life
    BY <1>2
  <2> HIDE DEF p
  <2> QED BY <1>4, <2>1, MemberIs
<1>6. Token!Member(c, "nbf") = None
  BY <1>4 DEF Token!Member
<1>7. ~Token!Unreadable(c, "exp")
  BY <1>2, <1>4 DEF Token!Unreadable
<1>8. ~(now > life + 60)
  OBVIOUS
<1> QED BY <1>5, <1>6, <1>7, <1>8 DEF Token!DecodePayload, Token!NumericDate, c, e

\* A life the form adds is the token's.
LEMMA PayloadSays ==
    ASSUME NEW V, NEW claims \in Seq(V), NEW now \in Nat, NEW setIat, NEW preset, preset # "", preset \in DOMAIN Presets,
           ~Token!Named(claims, "exp"), ~Token!Named(claims, "nbf")
    PROVE  Token!DecodePayload(Token!BuildPayload(claims, now, setIat, preset), now, 60) = "valid"
<1> DEFINE issued == Token!M("iat", now)
           I == IF setIat /\ ~Token!Named(claims, "iat") THEN <<issued>> ELSE <<>>
           life == now + Presets[preset]
           x == Token!M("exp", life)
           T == V \cup {issued, x}
           b == claims \o I
<1>1. Token!BuildPayload(claims, now, setIat, preset) = b \o <<x>>
  BY DEF Token!BuildPayload
<1>2. issued.name = "iat" /\ x.name = "exp" /\ x.value = life
  BY DEF Token!M
<1>3. life \in Nat /\ life >= now /\ life # None
  <2>1. PICK t \in Nat : t = Presets[preset]
    BY PresetsAreSeconds
  <2>2. now + t \in Nat /\ now + t \in Int /\ now + t >= now
    BY Later
  <2>3. life = now + t
    BY <2>1
  <2> HIDE DEF life
  <2>4. \A i \in Int : i # None
    BY NoneIsNoValue
  <2> QED BY <2>2, <2>3, <2>4
<1>4. V \subseteq T /\ issued \in T /\ x \in T
  OBVIOUS
<1> HIDE DEF issued, x, life, T
<1>5. claims \in Seq(T)
  BY <1>4, Widened
<1>6. I \in Seq(T) /\ \A k \in DOMAIN I : I[k].name = "iat"
  <2>1. <<issued>> \in Seq(T) /\ <<>> \in Seq(T) /\ DOMAIN <<issued>> = {1} /\ <<issued>>[1] = issued /\ DOMAIN <<>> = {}
    BY <1>4, OneLong
  <2> QED BY <1>2, <2>1
<1> HIDE DEF I
<1>7. \A k \in DOMAIN b : b[k].name \notin {"exp", "nbf"}
  <2> SUFFICES ASSUME NEW k \in DOMAIN b PROVE b[k].name \notin {"exp", "nbf"}
    OBVIOUS
  <2>1. (k \in DOMAIN claims /\ b[k] = claims[k]) \/ \E i \in DOMAIN I : b[k] = I[i]
    <3>1. I \in Seq(T) /\ k \in DOMAIN (claims \o I)
      BY <1>6
    <3>2. (k \in DOMAIN claims /\ (claims \o I)[k] = claims[k])
          \/ \E i \in DOMAIN I : k = Len(claims) + i /\ (claims \o I)[k] = I[i]
      BY ONLY <1>5, <3>1, ConcatHas
    <3> QED BY <3>2
  <2>2. \A i \in DOMAIN claims : claims[i].name # "exp" /\ claims[i].name # "nbf"
    BY DEF Token!Named
  <2> HIDE DEF b
  <2>3. CASE k \in DOMAIN claims /\ b[k] = claims[k]
    BY <2>2, <2>3
  <2>4. CASE \E i \in DOMAIN I : b[k] = I[i]
    <3>1. PICK i \in DOMAIN I : b[k] = I[i]
      BY <2>4
    <3>2. b[k].name = "iat"
      BY <1>6, <3>1
    <3> QED BY <3>2
  <2> QED BY <2>1, <2>3, <2>4
<1>8. b \in Seq(T)
  BY <1>5, <1>6, Concat
<1> HIDE DEF b
<1>9. Token!DecodePayload(b \o <<x>>, now, 60) = "valid"
  BY <1>2, <1>3, <1>4, <1>7, <1>8, LastClaim
<1> QED BY <1>1, <1>9

(* and DPoP proofs.                                                        *)

\* What the sign form gives back when it signs.
LEMMA TokenSigned ==
    ASSUME NEW form, NEW pasted, NEW now, Token!RunJWTSign(form, pasted, now) # None
    PROVE  LET tok == Token!RunJWTSign(form, pasted, now)
               key == Token!SigningKey(form.alg, pasted, form.enc, form.kid)
           IN  /\ form.alg \in Token!Supported /\ key # None /\ form.exp \in DOMAIN Presets \cup {""}
               /\ tok.parts = 3 /\ \A part \in {"header", "payload", "claims", "sig"} : Token!Segment(tok, part)
               /\ tok.header = Token!BuildHeader(form.alg, form.extra, form.kid)
               /\ tok.payload.claims = Token!BuildPayload(form.claims, now, form.iat, form.exp)
               /\ tok.sig = Token!SignJWS(Token!JwsAlgs[form.alg], key, Token!Input(tok))
<1> DEFINE tok == Token!RunJWTSign(form, pasted, now)
           key == Token!SigningKey(form.alg, pasted, form.enc, form.kid)
           header == Token!BuildHeader(form.alg, form.extra, form.kid)
           claims == Token!BuildPayload(form.claims, now, form.iat, form.exp)
           payload == [claims |-> claims]
           input == [header |-> header, payload |-> payload]
           sig == Token!SignJWS(Token!JwsAlgs[form.alg], key, input)
           ways == {"header", "payload", "claims", "sig"}
           made == [parts |-> 3, decodes |-> ways, header |-> header, payload |-> payload, sig |-> sig]
<1>1. tok = IF form.alg \notin Token!Supported THEN None
            ELSE IF key = None \/ form.exp \notin DOMAIN Presets \cup {""} THEN None ELSE made
  BY DEF Token!RunJWTSign
<1>2. payload.claims = claims
  OBVIOUS
<1>3. made.parts = 3 /\ made.decodes = ways /\ made.header = header /\ made.payload = payload /\ made.sig = sig
  <2> HIDE DEF ways, header, payload, sig
  <2> QED OBVIOUS
<1>4. input = Token!Input(made)
  <2> HIDE DEF made, header, payload
  <2> QED BY <1>3 DEF Token!Input, input
<1>5. \A part \in ways : Token!Segment(made, part)
  <2> HIDE DEF made, ways
  <2> QED BY <1>3 DEF Token!Segment
<1> HIDE DEF tok, key, header, claims, payload, made
<1>6. tok = made /\ form.alg \in Token!Supported /\ key # None /\ form.exp \in DOMAIN Presets \cup {""}
  BY <1>1 DEF tok
<1> HIDE DEF input, sig, ways
<1>7. sig = Token!SignJWS(Token!JwsAlgs[form.alg], key, Token!Input(made))
  BY <1>4 DEF sig
<1> QED BY <1>2, <1>3, <1>5, <1>6, <1>7 DEF tok, key, header, claims, ways

\* A sequence of one is a function at the first place.
LEMMA OfOne ==
    ASSUME NEW T, NEW s \in Seq(T), Len(s) = 1
    PROVE  s \in [1..1 -> T] /\ 1..1 \in SUBSET (1..3) /\ DOMAIN s = {1}
<1>1. s \in [1..Len(s) -> T] /\ DOMAIN s = 1..Len(s)
  OBVIOUS
<1>2. 1..1 = {1} /\ 1..1 \in SUBSET (1..3)
  OBVIOUS
<1> QED BY <1>1, <1>2

\* One key is not several.
LEMMA OneIsOne ==
    ASSUME NEW S, S = {1}
    PROVE  ~(Cardinality(S) > 1)
BY FS_Singleton

\* The key a secret signs with is the first of its readings.
LEMMA FirstReading ==
    ASSUME NEW pasted \in Pastes, NEW enc \in ReadAs,
           NEW secret, secret = pasted.readings[IF enc = "auto" THEN "utf8" ELSE enc], secret # None
    PROVE  LET keys == Token!SecretReadings(pasted, enc)
           IN  keys # None /\ 1 \in DOMAIN keys /\ keys[1] = Token!Secret(secret)
<1> DEFINE keys == Token!SecretReadings(pasted, enc)
           As(i) == pasted.readings[Token!Encodings[i]]
           fresh == {i \in 1..3 : As(i) # None /\ \A j \in 1..(i - 1) : As(j) # As(i)}
<1>1. pasted.readings \in [{"utf8", "base64", "hex"} -> STRING \cup {None}] /\ enc \in {"auto", "utf8", "base64", "hex"}
  BY DEF Pastes, ReadAs
<1>2. \A s \in STRING : Token!Secret(s) \in Secrets
  BY DEF Token!Secret, Secrets
<1>3. CASE enc = "auto"
  <2>1. keys = [i \in fresh |-> Token!Secret(As(i))]
    BY <1>3 DEF Token!SecretReadings
  <2>2. As(1) = secret
    BY <1>3 DEF Token!Encodings
  <2>3. 1 \in fresh
    BY <2>2
  <2>4. \A i \in fresh : As(i) \in STRING
    BY <1>1 DEF Token!Encodings
  <2>5. fresh \in SUBSET (1..3)
    OBVIOUS
  <2> HIDE DEF fresh, As, keys
  <2>6. keys \in [fresh -> Secrets]
    BY <1>2, <2>1, <2>4
  <2>7. keys # None
    BY <2>5, <2>6, NoneIsNoReading
  <2> QED BY <2>1, <2>2, <2>3, <2>7 DEF keys
<1>4. CASE enc # "auto"
  <2>1. secret = pasted.readings[enc] /\ secret \in STRING
    BY <1>1, <1>4
  <2>2. keys = <<Token!Secret(secret)>>
    BY <1>4, <2>1 DEF Token!SecretReadings
  <2>3. Token!Secret(secret) \in Secrets
    BY <1>2, <2>1
  <2> HIDE DEF keys
  <2>4. keys \in Seq(Secrets) /\ Len(keys) = 1 /\ keys[1] = Token!Secret(secret) /\ DOMAIN keys = {1}
    BY <2>2, <2>3, OneLong
  <2>5. keys \in [1..1 -> Secrets] /\ 1..1 \in SUBSET (1..3)
    BY <2>4, OfOne
  <2> QED BY <2>4, <2>5, NoneIsNoReading DEF keys
<1> QED BY <1>3, <1>4

\* An algorithm over a secret asks for no curve.
LEMMA SecretsHaveNoCurve ==
    ASSUME NEW alg \in Token!Supported, Token!JwsAlgs[alg].kind = "secret"
    PROVE  Token!JwsAlgs[alg].curve = ""
<1>1. alg \in {"HS256", "HS384", "HS512"} \cup {"RS256", "RS384", "RS512", "PS256", "PS384", "PS512",
                                                  "ES256", "ES384", "ES512", "EdDSA", "Ed25519"}
  BY ZenonT(60) DEF Token!JwsAlgs, Token!Supported
<1>2. Token!JwsAlgs["HS256"].curve = "" /\ Token!JwsAlgs["HS384"].curve = "" /\ Token!JwsAlgs["HS512"].curve = ""
  BY ZenonT(60) DEF Token!JwsAlgs, Token!Scheme
<1>3. /\ Token!JwsAlgs["RS256"].kind = "rsa" /\ Token!JwsAlgs["RS384"].kind = "rsa" /\ Token!JwsAlgs["RS512"].kind = "rsa"
      /\ Token!JwsAlgs["PS256"].kind = "rsa" /\ Token!JwsAlgs["PS384"].kind = "rsa" /\ Token!JwsAlgs["PS512"].kind = "rsa"
      /\ Token!JwsAlgs["ES256"].kind = "ec" /\ Token!JwsAlgs["ES384"].kind = "ec" /\ Token!JwsAlgs["ES512"].kind = "ec"
      /\ Token!JwsAlgs["EdDSA"].kind = "ed25519" /\ Token!JwsAlgs["Ed25519"].kind = "ed25519"
  BY ZenonT(60) DEF Token!JwsAlgs, Token!Scheme
<1> QED BY <1>1, <1>2, <1>3

OneKey(alg, pasted) == ~pasted.material \/ (Len(pasted.keys) = 1 /\ pasted.keys[1].alg \in {"", alg})

Verifies(input, alg, pasted, enc, kid, named, crit) ==
    Token!Verify(input, Token!SignJWS(Token!JwsAlgs[alg], Token!SigningKey(alg, pasted, enc, kid), input),
                 alg, pasted, enc, named, crit).state = "valid"

\* What was signed with the one key given verifies with it.
LEMMA OneKeyVerifies ==
    ASSUME NEW alg \in Token!Supported, NEW pasted \in Pastes, NEW enc \in ReadAs, NEW kid, NEW named, NEW input,
           NEW crit, crit \in BOOLEAN, ~crit, Token!SigningKey(alg, pasted, enc, kid) # None,
           OneKey(alg, pasted)
    PROVE  Verifies(input, alg, pasted, enc, kid, named, crit)
<1> DEFINE key == Token!SigningKey(alg, pasted, enc, kid)
           scheme == Token!JwsAlgs[alg]
           keys == Token!ReadKeys(pasted, enc)
           secret == pasted.readings[IF enc = "auto" THEN "utf8" ELSE enc]
           fit == Token!Fit(alg, keys)
           sig == Token!SignJWS(scheme, key, input)
           tried == Token!Narrowed(fit, keys, pasted, named)
           right == {i \in tried : Token!VerifyJWS(scheme, keys[i], input, sig)}
<1>1. /\ pasted.given
      /\ pasted.material => /\ pasted.keys \in Seq(TokenKeys) /\ pasted.keys # None /\ Token!JwtKeyFits(scheme, key)
                            /\ \E i \in DOMAIN pasted.keys : key = pasted.keys[i]
      /\ ~pasted.material => scheme.kind = "secret" /\ secret # None /\ key = Token!Secret(secret)
  <2>1. pasted \in Pastes /\ Token!SigningKey(alg, pasted, enc, kid) # None
    OBVIOUS
  <2>2. SignsWith(key, alg, pasted, enc)
    BY ONLY <2>1, SigningKeyIs
  <2> HIDE DEF key, scheme
  <2> QED BY <2>2 DEF SignsWith, scheme
<1>2. keys # None /\ 1 \in DOMAIN keys /\ keys[1] = key /\ Token!JwtKeyFits(scheme, key) /\ key.alg \in {"", alg}
      /\ (pasted.material => DOMAIN keys = {1})
  <2>1. CASE pasted.material
    <3>1. keys = pasted.keys
      BY <2>1 DEF Token!ReadKeys
    <3>2. pasted.keys \in Seq(TokenKeys) /\ Len(pasted.keys) = 1 /\ Token!JwtKeyFits(scheme, key)
      BY <1>1, <2>1 DEF OneKey
    <3>6. pasted.keys[1].alg \in {"", alg}
      BY <2>1 DEF OneKey
    <3>3. DOMAIN pasted.keys = {1}
      BY ONLY <3>2, OfOne
    <3>4. key = pasted.keys[1]
      BY <1>1, <2>1, <3>3
    <3>5. pasted.keys # None
      BY <1>1, <2>1
    <3> HIDE DEF keys, key, scheme
    <3> QED BY <2>1, <3>1, <3>2, <3>3, <3>4, <3>5, <3>6
  <2>2. CASE ~pasted.material
    <3>1. keys = Token!SecretReadings(pasted, enc)
      BY <2>2 DEF Token!ReadKeys
    <3>2. scheme.kind = "secret" /\ secret # None /\ key = Token!Secret(secret)
      BY <1>1, <2>2
    <3> HIDE DEF keys, key
    <3>3. keys # None /\ 1 \in DOMAIN keys /\ keys[1] = Token!Secret(secret)
      BY <3>1, <3>2, FirstReading
    <3>4. key.kind = "secret" /\ key.alg = ""
      BY <3>2 DEF Token!Secret
    <3>5. scheme.curve = ""
      BY <3>2, SecretsHaveNoCurve
    <3> HIDE DEF scheme, secret
    <3> QED BY <2>2, <3>2, <3>3, <3>4, <3>5 DEF Token!JwtKeyFits
  <2> QED BY <2>1, <2>2
<1>3. 1 \in fit
  BY <1>2 DEF Token!Fit, Token!Allowed
<1>4. pasted.material => fit = {1}
  BY <1>2, <1>3 DEF Token!Fit
<1>5. 1 \in tried
  <2>1. \A S : Token!Cardinality(S) = Cardinality(S)
    BY DEF Token!Cardinality, Cardinality
  <2>4. pasted.material => ~(Token!Cardinality(fit) > 1)
    BY <1>4, <2>1, OneIsOne
  <2> HIDE DEF fit, keys
  <2> QED BY <1>3, <2>4 DEF Token!Narrowed
<1>6. Token!VerifyJWS(scheme, keys[1], input, sig)
  <2> HIDE DEF keys, scheme, key
  <2> QED BY <1>2 DEF Token!VerifyJWS, Token!JwtKeyFits, sig
<1>7. right # {}
  BY <1>5, <1>6
<1>8. alg \notin Token!NoneAlgs
  BY DEF Token!Supported, Token!JwsAlgs, Token!NoneAlgs
<1>9. pasted.material \/ scheme.kind = "secret"
  BY <1>1
<1>10. crit \in BOOLEAN /\ sig = Token!SignJWS(Token!JwsAlgs[alg], Token!SigningKey(alg, pasted, enc, kid), input)
  OBVIOUS
<1> HIDE DEF sig
<1>11. Token!Verify(input, sig, alg, pasted, enc, named, crit).state = "valid"
       <=> /\ alg \notin Token!NoneAlgs /\ pasted.given /\ ~crit /\ alg \in Token!Supported
           /\ pasted.material \/ scheme.kind = "secret"
           /\ keys # None /\ right # {}
  BY ONLY <1>10, ValidBy
<1>12. Token!Verify(input, sig, alg, pasted, enc, named, crit).state = "valid"
  <2> HIDE DEF right, keys, scheme
  <2> QED BY <1>1, <1>2, <1>7, <1>8, <1>9, <1>11
<1> QED BY <1>10, <1>12 DEF Verifies

\* A token the form signs is verified with the key it was given.
LEMMA SignedIsKept ==
    ASSUME NEW q, SignRequest(q)
    PROVE  Token!SignedVerifies(q.form, q.paste, q.now)
<1> DEFINE form == q.form
           pasted == q.paste
           now == q.now
           tok == Token!RunJWTSign(form, pasted, now)
           d == Token!DecodeJWT(tok, pasted, form.enc, now, 60)
           key == Token!SigningKey(form.alg, pasted, form.enc, form.kid)
           named == IF Token!Member(tok.header, "kid") = None THEN "" ELSE Token!Member(tok.header, "kid")
           crit == Token!Named(tok.header, "crit")
           lasting == form.exp # "" /\ ~Token!Named(form.claims, "exp") /\ ~Token!Named(form.claims, "nbf")
<1> SUFFICES ASSUME tok # None, ~pasted.material \/ (Len(pasted.keys) = 1 /\ pasted.keys[1].alg \in {"", form.alg}),
                    ~Token!Named(form.extra, "crit")
             PROVE  d.alg = form.alg /\ d.verification.state = "valid" /\ (lasting => d.validity = "valid")
  BY DEF Token!SignedVerifies
<1>1. /\ form.alg \in Token!Supported /\ key # None /\ form.exp \in DOMAIN Presets \cup {""}
      /\ tok.parts = 3 /\ \A part \in {"header", "payload", "claims", "sig"} : Token!Segment(tok, part)
      /\ tok.header = Token!BuildHeader(form.alg, form.extra, form.kid)
      /\ tok.payload.claims = Token!BuildPayload(form.claims, now, form.iat, form.exp)
      /\ tok.sig = Token!SignJWS(Token!JwsAlgs[form.alg], key, Token!Input(tok))
  <2> HIDE DEF form, pasted, now
  <2> QED BY TokenSigned
<1>2. /\ form.alg \in Token!Supported /\ key # None /\ tok.parts = 3
      /\ Token!Segment(tok, "header") /\ Token!Segment(tok, "payload") /\ Token!Segment(tok, "claims") /\ Token!Segment(tok, "sig")
  <2> HIDE DEF form, pasted, now, tok, key
  <2> QED BY ONLY <1>1
<1>3. tok.header = Token!BuildHeader(form.alg, form.extra, form.kid)
  <2> HIDE DEF form, pasted, now, tok, key
  <2> QED BY ONLY <1>1
<1>4. tok.payload.claims = Token!BuildPayload(form.claims, now, form.iat, form.exp)
  <2> HIDE DEF form, pasted, now, tok, key
  <2> QED BY ONLY <1>1
<1>5. tok.sig = Token!SignJWS(Token!JwsAlgs[form.alg], key, Token!Input(tok))
  <2> HIDE DEF form, pasted, now, tok, key
  <2> QED BY ONLY <1>1
<1>6. pasted \in Pastes /\ form.enc \in ReadAs /\ now \in Nat
  BY DEF SignRequest
<1>7. /\ form.extra \in Seq([name : STRING, value : STRING \cup {None}])
      /\ form.claims \in Seq([name : STRING, value : Int \cup {None}])
  BY DEF SignRequest
<1>8. form.alg # None
  BY ONLY <1>2, NoneIsNoAlgorithm
<1> HIDE DEF form, pasted, now, tok, d, key
<1>9. /\ Token!Member(tok.header, "alg") = form.alg /\ ~Token!Unreadable(tok.header, "alg")
      /\ ~Token!Named(tok.header, "crit")
  <2>1. LET h == Token!BuildHeader(form.alg, form.extra, form.kid)
        IN  /\ Token!Member(h, "alg") = form.alg /\ ~Token!Unreadable(h, "alg")
            /\ Token!Named(h, "crit") => Token!Named(form.extra, "crit")
    BY ONLY <1>7, <1>8, HeaderSays
  <2> QED BY ONLY <1>3, <2>1, ~Token!Named(form.extra, "crit")
<1>10. /\ d.alg = Token!Member(tok.header, "alg")
       /\ d.validity = IF Token!Segment(tok, "claims") THEN Token!DecodePayload(tok.payload.claims, now, 60) ELSE None
       /\ d.verification = IF ~Token!Segment(tok, "sig") THEN Token!Verdict("invalid", None, None)
                           ELSE Token!Verify(Token!Input(tok), tok.sig,
                                             IF Token!Member(tok.header, "alg") = None THEN "" ELSE Token!Member(tok.header, "alg"),
                                             pasted, form.enc, named, crit)
  <2>1. tok.parts = 3 /\ Token!Segment(tok, "header") /\ Token!Segment(tok, "payload") /\ ~Token!Unreadable(tok.header, "alg")
    BY ONLY <1>2, <1>9
  <2>2. Opened(Token!DecodeJWT(tok, pasted, form.enc, now, 60), tok, pasted, form.enc, now, 60)
    BY ONLY <2>1, Decoded
  <2> HIDE DEF d
  <2> QED BY ONLY <2>2 DEF Opened, d
<1>11. d.alg = form.alg /\ d.validity = Token!DecodePayload(tok.payload.claims, now, 60)
       /\ d.verification = Token!Verify(Token!Input(tok), tok.sig, form.alg, pasted, form.enc, named, crit)
  <2> HIDE DEF crit, named
  <2> QED BY ONLY <1>2, <1>8, <1>9, <1>10
<1>12. crit \in BOOLEAN /\ ~crit
  BY ONLY <1>9 DEF Token!Named
<1>13. d.verification.state = "valid"
  <2> HIDE DEF crit, named
  <2>1. form.alg \in Token!Supported /\ Token!SigningKey(form.alg, pasted, form.enc, form.kid) # None
    BY ONLY <1>2 DEF key
  <2>2. Verifies(Token!Input(tok), form.alg, pasted, form.enc, form.kid, named, crit)
    <3>1. OneKey(form.alg, pasted)
      BY DEF OneKey
    <3> HIDE DEF key
    <3> QED BY ONLY <1>6, <1>12, <2>1, <3>1, OneKeyVerifies
  <2> QED BY ONLY <1>5, <1>11, <2>2 DEF key, Verifies
<1>14. lasting => d.validity = "valid"
  <2> SUFFICES ASSUME lasting PROVE d.validity = "valid"
    OBVIOUS
  <2>1. form.exp \in DOMAIN Presets /\ form.exp # ""
    BY ONLY <1>1, lasting
  <2>2. ~Token!Named(form.claims, "exp") /\ ~Token!Named(form.claims, "nbf")
    BY ONLY lasting
  <2>3. Token!DecodePayload(Token!BuildPayload(form.claims, now, form.iat, form.exp), now, 60) = "valid"
    BY ONLY <1>6, <1>7, <2>1, <2>2, PayloadSays
  <2> QED BY ONLY <1>4, <1>11, <2>3
<1> QED BY <1>11, <1>13, <1>14

\* Leaving a default port out, and putting it in, tell the same ports apart.
LEMMA PortsAgree ==
    ASSUME NEW D, NEW e, NEW x, NEW y
    PROVE  ((IF x = D THEN e ELSE x) = (IF y = D THEN e ELSE y)) <=> ((IF x = e THEN D ELSE x) = (IF y = e THEN D ELSE y))
OBVIOUS

\* An address as it is compared.
LEMMA AddressIs ==
    ASSUME NEW u \in Written, Token!DpopURI(u) # None
    PROVE  LET a == Token!DpopURI(u)
           IN  /\ u.scheme # "" /\ u.host # ""
               /\ a = [scheme |-> u.scheme, host |-> Lower[u.host],
                       port |-> IF u.port = Token!DefaultPort(u.scheme) THEN "" ELSE u.port,
                       path |-> IF u.path = "" THEN "/" ELSE u.path, query |-> FALSE]
<1>1. DOMAIN u = {"scheme", "host", "port", "path", "query"}
  BY DEF Written
<1> QED BY <1>1 DEF Token!DpopURI, Written

Spell(scheme, host, port, path) ==
    [scheme |-> scheme, host |-> host, port |-> port, path |-> path, query |-> FALSE]

\* Two spellings are the same in every part or differ.
LEMMA SpellSame ==
    ASSUME NEW a, NEW b, NEW c, NEW d, NEW x, NEW y, NEW z, NEW w
    PROVE  Spell(a, b, c, d) = Spell(x, y, z, w) <=> a = x /\ b = y /\ c = z /\ d = w
<1>1. /\ Spell(a, b, c, d).scheme = a /\ Spell(a, b, c, d).host = b /\ Spell(a, b, c, d).port = c /\ Spell(a, b, c, d).path = d
      /\ Spell(x, y, z, w).scheme = x /\ Spell(x, y, z, w).host = y /\ Spell(x, y, z, w).port = z /\ Spell(x, y, z, w).path = w
  BY DEF Spell
<1> QED BY <1>1

Plain(port, scheme) == IF port = Token!DefaultPort(scheme) THEN "" ELSE port
Rooted(path) == IF path = "" THEN "/" ELSE path

\* An address that is compared is the one its own spelling is compared as.
LEMMA AddressSettled ==
    ASSUME NEW u \in Written, Token!DpopURI(u) # None
    PROVE  Token!DpopURI(Token!DpopURI(u)) = Token!DpopURI(u) /\ Token!DpopURI(u).query = FALSE
<1> DEFINE a == Token!DpopURI(u)
<1>1. u.scheme # "" /\ u.host # "" /\ a = Spell(u.scheme, Lower[u.host], Plain(u.port, u.scheme), Rooted(u.path))
  BY AddressIs DEF Spell, Plain, Rooted
<1>2. Lower[u.host] # "" /\ Lower[Lower[u.host]] = Lower[u.host]
  BY <1>1, LowerIsSettled DEF Written
<1>3. a.scheme = u.scheme /\ a.host = Lower[u.host] /\ a.port = Plain(u.port, u.scheme) /\ a.path = Rooted(u.path) /\ a.query = FALSE
      /\ DOMAIN a = {"scheme", "host", "port", "path", "query"}
  <2> HIDE DEF a
  <2> QED BY <1>1 DEF Spell
<1>4. Plain(a.port, a.scheme) = a.port /\ Rooted(a.path) = a.path
  <2> HIDE DEF a
  <2> QED BY <1>3 DEF Plain, Rooted
<1>5. Token!DpopURI(a) = [a EXCEPT !.host = Lower[a.host], !.port = Plain(a.port, a.scheme), !.query = FALSE, !.path = Rooted(a.path)]
  <2> HIDE DEF a
  <2> QED BY <1>1, <1>2, <1>3 DEF Token!DpopURI, Plain, Rooted
<1>6. [a EXCEPT !.host = a.host, !.port = a.port, !.query = a.query, !.path = a.path] = a
  <2>1. a = [k \in {"scheme", "host", "port", "path", "query"} |-> a[k]]
    <3> HIDE DEF a
    <3> QED BY <1>1 DEF Spell
  <2> HIDE DEF a
  <2> QED BY <2>1
<1> HIDE DEF a
<1>7. Token!DpopURI(a) = a
  BY <1>2, <1>3, <1>4, <1>5, <1>6
<1> QED BY <1>3, <1>7 DEF a

\* Two addresses are compared alike when no server tells them apart.
LEMMA AddressesAgree ==
    ASSUME NEW u \in Written, NEW v \in Written, Token!DpopURI(u) # None, Token!DpopURI(v) # None
    PROVE  Token!DpopURI(u) = Token!DpopURI(v) <=> Token!SameAddress(u, v)
<1>1. /\ Token!DpopURI(u) = Spell(u.scheme, Lower[u.host], Plain(u.port, u.scheme), Rooted(u.path))
      /\ Token!DpopURI(v) = Spell(v.scheme, Lower[v.host], Plain(v.port, v.scheme), Rooted(v.path))
  BY AddressIs DEF Spell, Plain, Rooted
<1>2. Token!DpopURI(u) = Token!DpopURI(v) <=>
         u.scheme = v.scheme /\ Lower[u.host] = Lower[v.host] /\ Plain(u.port, u.scheme) = Plain(v.port, v.scheme)
         /\ Rooted(u.path) = Rooted(v.path)
  BY <1>1, SpellSame
<1>3. u.scheme = v.scheme =>
         (Plain(u.port, u.scheme) = Plain(v.port, v.scheme) <=>
          (IF u.port = "" THEN Token!DefaultPort(u.scheme) ELSE u.port)
           = (IF v.port = "" THEN Token!DefaultPort(v.scheme) ELSE v.port))
  BY PortsAgree DEF Plain
<1> QED BY <1>2, <1>3 DEF Token!SameAddress, Rooted

Bound(token) == IF token = "" THEN <<>> ELSE Token!S256(token)

\* A hash tells access tokens apart.
LEMMA BoundSame ==
    ASSUME NEW s, NEW t
    PROVE  Bound(s) = Bound(t) <=> s = t
<1>1. /\ \A x, y : Token!S256(x) = Token!S256(y) => x = y
      /\ \A x : Token!S256(x) # <<>>
  BY DEF Token!S256
<1> QED BY <1>1 DEF Bound

\* A request that is compared.
LEMMA RequestIs ==
    ASSUME NEW req, Token!DpopRequest(req) # None
    PROVE  Token!DpopURI(req.htu) # None /\ Token!DpopRequest(req).htm = req.htm /\ Token!DpopRequest(req).htu = Token!DpopURI(req.htu)
<1>1. Token!DpopURI(req.htu) # None /\ Token!DpopRequest(req) = [htm |-> req.htm, htu |-> Token!DpopURI(req.htu)]
  BY DEF Token!DpopRequest
<1> QED BY <1>1

\* What a proof says.
Claims(made, iat) == [jti |-> "random", htm |-> made.htm, htu |-> Token!DpopURI(made.htu), iat |-> iat, ath |-> Bound(made.token)]
HeaderOf(alg, key) == [typ |-> "dpop+jwt", alg |-> alg, jwk |-> Token!PublicHalf(key)]
LEMMA ProofSays ==
    ASSUME NEW made, NEW alg, NEW pasted, NEW fresh, NEW iat, Token!RunDPoPGenerate(made, alg, pasted, fresh, iat) # None
    PROVE  LET proof == Token!RunDPoPGenerate(made, alg, pasted, fresh, iat)
               key == Token!DpopSigningKey(alg, pasted, fresh)
           IN  /\ key # None /\ Token!DpopURI(made.htu) # None
               /\ proof = [decodes |-> {"header", "payload", "sig"}, header |-> HeaderOf(alg, key), payload |-> Claims(made, iat),
                           sig |-> Token!SignJWS(Token!JwsAlgs[alg], key, [header |-> HeaderOf(alg, key), payload |-> Claims(made, iat)])]
<1> DEFINE at == Token!DpopRequest(made)
           key == Token!DpopSigningKey(alg, pasted, fresh)
           claims == [jti |-> "random", htm |-> at.htm, htu |-> at.htu, iat |-> iat, ath |-> Bound(made.token)]
           proof == Token!RunDPoPGenerate(made, alg, pasted, fresh, iat)
           ways == {"header", "payload", "sig"}
<1>1. proof = IF at = None \/ key = None THEN None
              ELSE [decodes |-> ways, header |-> HeaderOf(alg, key), payload |-> claims,
                    sig |-> Token!SignJWS(Token!JwsAlgs[alg], key, [header |-> HeaderOf(alg, key), payload |-> claims])]
  BY DEF Token!RunDPoPGenerate, Bound, HeaderOf
<1>2. at # None /\ key # None
  <2> HIDE DEF proof, at, key, claims
  <2> QED BY <1>1 DEF proof
<1>3. Token!DpopURI(made.htu) # None /\ at.htm = made.htm /\ at.htu = Token!DpopURI(made.htu)
  BY <1>2, RequestIs
<1>4. claims = Claims(made, iat)
  <2> HIDE DEF at
  <2> QED BY <1>3 DEF Claims
<1> HIDE DEF proof, at, key, claims, ways
<1>5. proof = [decodes |-> ways, header |-> HeaderOf(alg, key), payload |-> Claims(made, iat),
               sig |-> Token!SignJWS(Token!JwsAlgs[alg], key, [header |-> HeaderOf(alg, key), payload |-> Claims(made, iat)])]
  BY <1>1, <1>2, <1>4
<1> QED BY <1>2, <1>3, <1>5 DEF proof, key, ways

\* The key of a proof is of its algorithm's kind, and its public half reads as it.
LEMMA ProofKeyIs ==
    ASSUME NEW alg \in Token!Supported, Token!JwsAlgs[alg].kind # "secret", NEW pasted \in Pastes, NEW fresh \in TokenKeys,
           Token!JwtKeyFits(Token!JwsAlgs[alg], fresh), Token!DpopSigningKey(alg, pasted, fresh) # None
    PROVE  LET key == Token!DpopSigningKey(alg, pasted, fresh)
           IN  key \in TokenKeys /\ Token!JwtKeyFits(Token!JwsAlgs[alg], key)
<1> DEFINE key == Token!DpopSigningKey(alg, pasted, fresh)
<1>1. CASE pasted.given
  <2>1. PICK enc, kid : enc = "utf8" /\ kid = ""
    OBVIOUS
  <2>2. key = Token!SigningKey(alg, pasted, enc, kid)
    BY <1>1, <2>1 DEF Token!DpopSigningKey
  <2>3. Token!SigningKey(alg, pasted, enc, kid) # None
    BY <2>2
  <2>4. pasted.material /\ pasted.keys \in Seq(TokenKeys) /\ Token!JwtKeyFits(Token!JwsAlgs[alg], Token!SigningKey(alg, pasted, enc, kid))
        /\ \E i \in DOMAIN pasted.keys : Token!SigningKey(alg, pasted, enc, kid) = pasted.keys[i]
    <3>1. SignsWith(Token!SigningKey(alg, pasted, enc, kid), alg, pasted, enc)
      <4>1. pasted \in Pastes
        OBVIOUS
      <4> QED BY ONLY <2>3, <4>1, SigningKeyIs
    <3> HIDE DEF key
    <3> QED BY <3>1 DEF SignsWith
  <2> HIDE DEF key
  <2> QED BY <2>2, <2>4 DEF key
<1>2. CASE ~pasted.given
  <2>1. key = fresh
    BY <1>2 DEF Token!DpopSigningKey
  <2> QED BY <2>1
<1> QED BY <1>1, <1>2

\* A key's public half reads as a public key with its material.
LEMMA HalfReads ==
    ASSUME NEW key \in TokenKeys
    PROVE  LET jwk == Token!PublicHalf(key)
           IN  jwk.reads /\ ~jwk.leaks /\ jwk.key.kind = key.kind /\ jwk.key.curve = key.curve /\ jwk.key.id = key.id
<1> DEFINE half == [key EXCEPT !.private = FALSE, !.alg = "", !.kid = ""]
<1>1. half.kind = key.kind /\ half.curve = key.curve /\ half.id = key.id
  BY DEF TokenKeys
<1> HIDE DEF half
<1>2. Token!PublicHalf(key) = [reads |-> TRUE, leaks |-> FALSE, key |-> half]
  BY DEF Token!PublicHalf, half
<1>3. Token!PublicHalf(key).reads /\ ~Token!PublicHalf(key).leaks /\ Token!PublicHalf(key).key = half
  BY <1>2
<1> QED BY <1>1, <1>3
\* No check fails only when all of them hold.
Passes(proof, at, token, now, leeway) ==
    LET hdr == proof.header
        claims == proof.payload
        scheme == Token!JwsAlgs[hdr.alg]
    IN  /\ hdr.typ = "dpop+jwt" /\ hdr.alg \in Token!Supported /\ scheme.kind # "secret" /\ Token!DpopHeaderKey(hdr.jwk)
        /\ Token!JwtKeyFits(scheme, hdr.jwk.key) /\ Token!VerifyJWS(scheme, hdr.jwk.key, Token!Input(proof), proof.sig)
        /\ claims.htm = at.htm /\ ~claims.htu.query /\ Token!DpopURI(claims.htu) = at.htu
        /\ claims.iat - now \in -leeway..leeway /\ claims.jti # "" /\ claims.ath = Bound(token)
LEMMA FailsNone ==
    ASSUME NEW proof, NEW at, NEW token, NEW now, NEW leeway
    PROVE  Token!DpopFails(proof, at, token, now, leeway) = {} <=> Passes(proof, at, token, now, leeway)
<1> DEFINE hdr == proof.header
           claims == proof.payload
           scheme == Token!JwsAlgs[hdr.alg]
           F(name, ok) == IF ok THEN {} ELSE {name}
           asymmetric == hdr.alg \in Token!Supported /\ scheme.kind # "secret"
           keyed == Token!DpopHeaderKey(hdr.jwk)
           signed == /\ asymmetric /\ keyed /\ Token!JwtKeyFits(scheme, hdr.jwk.key)
                     /\ Token!VerifyJWS(scheme, hdr.jwk.key, Token!Input(proof), proof.sig)
           c1 == F("typ", hdr.typ = "dpop+jwt")
           c2 == F("alg", asymmetric)
           c3 == F("jwk", keyed)
           c4 == F("signature", signed)
           c5 == F("htm", claims.htm = at.htm)
           c6 == F("htu", ~claims.htu.query /\ Token!DpopURI(claims.htu) = at.htu)
           c7 == F("iat", claims.iat - now \in -leeway..leeway)
           c8 == F("jti", claims.jti # "")
           c9 == F("ath", claims.ath = Bound(token))
<1>1. Token!DpopFails(proof, at, token, now, leeway) = c1 \cup c2 \cup c3 \cup c4 \cup c5 \cup c6 \cup c7 \cup c8 \cup c9
  BY DEF Token!DpopFails, Bound
<1>2. /\ c1 = {} <=> hdr.typ = "dpop+jwt"
      /\ c2 = {} <=> asymmetric
      /\ c3 = {} <=> keyed
      /\ c4 = {} <=> signed
      /\ c5 = {} <=> claims.htm = at.htm
      /\ c6 = {} <=> ~claims.htu.query /\ Token!DpopURI(claims.htu) = at.htu
      /\ c7 = {} <=> claims.iat - now \in -leeway..leeway
      /\ c8 = {} <=> claims.jti # ""
      /\ c9 = {} <=> claims.ath = Bound(token)
  <2> HIDE DEF hdr, claims, asymmetric, keyed, signed
  <2> QED OBVIOUS
<1> HIDE DEF c1, c2, c3, c4, c5, c6, c7, c8, c9
<1>3. Token!DpopFails(proof, at, token, now, leeway) = {} <=>
         c1 = {} /\ c2 = {} /\ c3 = {} /\ c4 = {} /\ c5 = {} /\ c6 = {} /\ c7 = {} /\ c8 = {} /\ c9 = {}
  BY <1>1
<1>4. Token!DpopFails(proof, at, token, now, leeway) = {} <=>
         /\ hdr.typ = "dpop+jwt" /\ asymmetric /\ keyed /\ signed /\ claims.htm = at.htm
         /\ ~claims.htu.query /\ Token!DpopURI(claims.htu) = at.htu
         /\ claims.iat - now \in -leeway..leeway /\ claims.jti # "" /\ claims.ath = Bound(token)
  <2> HIDE DEF hdr, claims, asymmetric, keyed, signed
  <2> QED BY <1>2, <1>3
<1> QED BY <1>4 DEF Passes

Binds(tok, made, asked, iat, now, leeway) ==
    Passes(tok, Token!DpopRequest(asked), asked.token, now, leeway) <=>
        /\ tok.payload = Claims(made, iat) /\ made.htm = asked.htm /\ Token!SameAddress(made.htu, asked.htu)
        /\ made.token = asked.token /\ iat - now \in -leeway..leeway

\* A proof, its payload replaced or not, is accepted for what it was made for.
LEMMA ProofAccepted ==
    ASSUME NEW alg \in Token!Supported, Token!JwsAlgs[alg].kind # "secret", NEW key \in TokenKeys, Token!JwtKeyFits(Token!JwsAlgs[alg], key),
           NEW made \in Shown, NEW asked \in Shown, NEW given, NEW iat, NEW now, NEW leeway,
           Token!DpopURI(made.htu) # None, Token!DpopRequest(asked) # None,
           NEW tok, tok.header = HeaderOf(alg, key), tok.payload = given,
           tok.sig = Token!SignJWS(Token!JwsAlgs[alg], key, [header |-> HeaderOf(alg, key), payload |-> Claims(made, iat)])
    PROVE  Binds(tok, made, asked, iat, now, leeway)
<1> DEFINE header == HeaderOf(alg, key)
           claims == Claims(made, iat)
           at == Token!DpopRequest(asked)
           scheme == Token!JwsAlgs[alg]
           half == Token!PublicHalf(key)
<1>1. header.typ = "dpop+jwt" /\ header.alg = alg /\ header.jwk = half
  BY DEF HeaderOf
<1>2. claims.jti = "random" /\ claims.htm = made.htm /\ claims.htu = Token!DpopURI(made.htu) /\ claims.iat = iat /\ claims.ath = Bound(made.token)
  BY DEF Claims
<1>3. half.reads /\ ~half.leaks /\ half.key.kind = key.kind /\ half.key.curve = key.curve /\ half.key.id = key.id
  BY HalfReads
<1>4. key.kind = scheme.kind /\ key.kind # "secret" /\ (scheme.curve = "" \/ key.curve = scheme.curve)
  BY DEF Token!JwtKeyFits
<1> HIDE DEF header, claims, at, scheme, half
<1>5. Token!DpopHeaderKey(half) /\ Token!JwtKeyFits(scheme, half.key)
  BY <1>3, <1>4 DEF Token!DpopHeaderKey, Token!JwtKeyFits
<1>6. Token!VerifyJWS(scheme, half.key, Token!Input(tok), tok.sig) <=> given = claims
  <2> DEFINE mine == [header |-> header, payload |-> claims]
             shown == [header |-> header, payload |-> given]
  <2>1. mine = shown <=> given = claims
    <3>1. mine.payload = claims /\ shown.payload = given
      OBVIOUS
    <3> HIDE DEF mine, shown
    <3>2. given = claims => mine = shown
      BY DEF mine, shown
    <3> QED BY <3>1, <3>2
  <2>2. Token!Input(tok) = shown
    BY DEF Token!Input, header
  <2> HIDE DEF mine, shown
  <2>3. Token!Material(key, scheme) = key.id /\ Token!Material(half.key, scheme) = key.id
    BY <1>3, <1>4 DEF Token!Material
  <2>4. tok.sig = [scheme |-> scheme, id |-> key.id, input |-> mine]
    BY <2>3 DEF Token!SignJWS, mine, header, claims, scheme
  <2>5. Token!SignJWS(scheme, half.key, Token!Input(tok)) = [scheme |-> scheme, id |-> key.id, input |-> shown]
    BY <2>2, <2>3 DEF Token!SignJWS
  <2>6. tok.sig.input = mine /\ Token!SignJWS(scheme, half.key, Token!Input(tok)).input = shown
    BY <2>4, <2>5
  <2>7. tok.sig = Token!SignJWS(scheme, half.key, Token!Input(tok)) <=> mine = shown
    BY <2>4, <2>5, <2>6
  <2> QED BY <1>3, <1>4, <2>1, <2>7 DEF Token!VerifyJWS
<1>7. at.htm = asked.htm /\ at.htu = Token!DpopURI(asked.htu) /\ Token!DpopURI(asked.htu) # None
  BY RequestIs DEF at
<1>8. made.htu \in Written /\ asked.htu \in Written
  BY DEF Shown
<1>9. /\ Token!DpopURI(claims.htu) = claims.htu /\ claims.htu.query = FALSE
      /\ claims.htu = at.htu <=> Token!SameAddress(made.htu, asked.htu)
  BY <1>2, <1>7, <1>8, AddressSettled, AddressesAgree
<1>10. claims.ath = Bound(asked.token) <=> made.token = asked.token
  BY <1>2, BoundSame
<1>11. claims.jti # ""
  BY <1>2
<1>12. alg \in Token!Supported /\ scheme.kind # "secret" /\ tok.header = header /\ tok.payload = given /\ tok.header.alg = alg
       /\ tok.header.typ = "dpop+jwt" /\ tok.header.jwk = half /\ Token!JwsAlgs[alg] = scheme
  BY <1>1, <1>4 DEF header, scheme
<1>13. Passes(tok, at, asked.token, now, leeway) <=>
          /\ given = claims /\ given.htm = at.htm /\ ~given.htu.query /\ Token!DpopURI(given.htu) = at.htu
          /\ given.iat - now \in -leeway..leeway /\ given.jti # "" /\ given.ath = Bound(asked.token)
  BY ONLY <1>5, <1>6, <1>12 DEF Passes
<1>14. Passes(tok, at, asked.token, now, leeway) <=>
          /\ given = claims /\ made.htm = asked.htm /\ Token!SameAddress(made.htu, asked.htu)
          /\ made.token = asked.token /\ iat - now \in -leeway..leeway
  BY ONLY <1>2, <1>7, <1>9, <1>10, <1>11, <1>13
<1> QED BY <1>14 DEF at, claims, Binds

\* A proof is valid for the request it was made for, and for no other.
LEMMA ProofIsKept ==
    ASSUME NEW q, ProofRequest(q)
    PROVE  Token!ProofBinds(q.made, q.spoilt, q.shown, q.alg, q.paste, q.fresh, q.iat, q.now, q.leeway)
<1> DEFINE proof == Token!RunDPoPGenerate(q.made, q.alg, q.paste, q.fresh, q.iat)
           key == Token!DpopSigningKey(q.alg, q.paste, q.fresh)
           Altered(given) == [proof EXCEPT !.payload = given]
           Agrees(given) == Token!RunDPoPVerify(Altered(given), q.shown, q.now, q.leeway) <=>
                              /\ given = proof.payload /\ q.made.htm = q.shown.htm /\ Token!SameAddress(q.made.htu, q.shown.htu)
                              /\ q.made.token = q.shown.token /\ q.iat - q.now \in -q.leeway..q.leeway
<1> SUFFICES ASSUME proof # None, Token!DpopRequest(q.shown) # None PROVE \A given : Agrees(given)
  BY DEF Token!ProofBinds
<1> SUFFICES ASSUME NEW given PROVE Agrees(given)
  OBVIOUS
<1> DEFINE tok == Altered(given)
<1>1. /\ key # None /\ Token!DpopURI(q.made.htu) # None
      /\ proof = [decodes |-> {"header", "payload", "sig"}, header |-> HeaderOf(q.alg, key), payload |-> Claims(q.made, q.iat),
                  sig |-> Token!SignJWS(Token!JwsAlgs[q.alg], key, [header |-> HeaderOf(q.alg, key), payload |-> Claims(q.made, q.iat)])]
  BY ProofSays
<1>2. /\ q.alg \in Token!Supported /\ Token!JwsAlgs[q.alg].kind # "secret" /\ q.paste \in Pastes /\ q.fresh \in TokenKeys
      /\ Token!JwtKeyFits(Token!JwsAlgs[q.alg], q.fresh) /\ q.made \in Shown /\ q.shown \in Shown
  BY DEF ProofRequest
<1>3. key \in TokenKeys /\ Token!JwtKeyFits(Token!JwsAlgs[q.alg], key)
  BY ONLY <1>1, <1>2, ProofKeyIs
<1>4. /\ proof.payload = Claims(q.made, q.iat) /\ tok.decodes = {"header", "payload", "sig"} /\ tok.header = HeaderOf(q.alg, key)
      /\ tok.payload = given
      /\ tok.sig = Token!SignJWS(Token!JwsAlgs[q.alg], key, [header |-> HeaderOf(q.alg, key), payload |-> Claims(q.made, q.iat)])
  <2> DEFINE sig == Token!SignJWS(Token!JwsAlgs[q.alg], key, [header |-> HeaderOf(q.alg, key), payload |-> Claims(q.made, q.iat)])
  <2> HIDE DEF sig, proof, key
  <2>1. proof = [decodes |-> {"header", "payload", "sig"}, header |-> HeaderOf(q.alg, key), payload |-> Claims(q.made, q.iat), sig |-> sig]
    BY <1>1 DEF sig
  <2>2. /\ proof.payload = Claims(q.made, q.iat) /\ tok.decodes = {"header", "payload", "sig"} /\ tok.header = HeaderOf(q.alg, key)
        /\ tok.payload = given /\ tok.sig = sig
    BY <2>1
  <2> QED BY <2>2 DEF sig
<1> HIDE DEF tok, key, proof
<1>5. Token!Segment(tok, "sig")
  BY <1>4 DEF Token!Segment
<1>6. Token!RunDPoPVerify(tok, q.shown, q.now, q.leeway) = (Token!DpopFails(tok, Token!DpopRequest(q.shown), q.shown.token, q.now, q.leeway) = {})
  BY <1>5 DEF Token!RunDPoPVerify
<1>7. Passes(tok, Token!DpopRequest(q.shown), q.shown.token, q.now, q.leeway) <=>
         /\ given = Claims(q.made, q.iat) /\ q.made.htm = q.shown.htm /\ Token!SameAddress(q.made.htu, q.shown.htu)
         /\ q.made.token = q.shown.token /\ q.iat - q.now \in -q.leeway..q.leeway
  <2>1. Token!DpopURI(q.made.htu) # None /\ Token!DpopRequest(q.shown) # None
    BY <1>1
  <2>2. q.alg \in Token!Supported /\ Token!JwsAlgs[q.alg].kind # "secret" /\ q.made \in Shown /\ q.shown \in Shown
    BY <1>2
  <2>3. /\ tok.header = HeaderOf(q.alg, key) /\ tok.payload = given
        /\ tok.sig = Token!SignJWS(Token!JwsAlgs[q.alg], key, [header |-> HeaderOf(q.alg, key), payload |-> Claims(q.made, q.iat)])
    BY <1>4
  <2>4. Binds(tok, q.made, q.shown, q.iat, q.now, q.leeway)
    BY ONLY <1>3, <2>1, <2>2, <2>3, ProofAccepted
  <2> QED BY ONLY <2>3, <2>4 DEF Binds
<1> QED BY <1>4, <1>6, <1>7, FailsNone DEF tok

-----------------------------------------------------------------------------
(* One-time passwords: the codes of a moment,                              *)


(* and the address of an account.                                          *)

\* Whole periods and what is left of one.
LEMMA PeriodOf ==
    ASSUME NEW now \in Nat, NEW p \in Nat \ {0}
    PROVE  LET n == now \div p IN
           n \in 0..now /\ now \in n * p..(n + 1) * p - 1 /\ now + (p - (now % p)) = (n + 1) * p
<1> DEFINE n == now \div p
           m == now % p
<1>1. n \in Int /\ m \in 0..p - 1 /\ now = p * n + m
  OBVIOUS
<1> HIDE DEF n, m
<1>2. n >= 0
  <2> SUFFICES ASSUME n <= -1 PROVE FALSE
    BY <1>1
  <2>1. p * n <= p * (-1)
    BY <1>1
  <2> QED BY <1>1, <2>1
<1>3. n <= now
  <2>1. n <= p * n
    BY <1>1, <1>2
  <2> QED BY <1>1, <2>1
<1>4. n * p = p * n /\ (n + 1) * p = p * n + p
  BY <1>1
<1>5. n \in 0..now /\ now \in n * p..(n + 1) * p - 1
  <2>1. n * p \in Int /\ (n + 1) * p \in Int
    BY <1>1, <1>4
  <2> QED BY <1>1, <1>2, <1>3, <1>4, <2>1
<1>6. now + (p - m) = (n + 1) * p
  BY <1>1, <1>4
<1> QED BY <1>5, <1>6 DEF n, m

\* The codes shown are those of the moment's step and of the steps next to it.
LEMMA CodesShown ==
    ASSUME NEW s \in Settings, NEW now \in Int, now <= MaxCounter,
           Otp!OtpParams(s, s.counter) = s, Otp!RunTOTP(s, now) # None
    PROVE  LET r == Otp!RunTOTP(s, now) IN
           /\ r.counter \in 0..MaxCounter
           /\ DOMAIN r.codes = IF r.counter = 0 THEN 0..1 ELSE -1..1
           /\ \A o \in DOMAIN r.codes : r.codes[o].code = Otp!HOTP(s, r.counter + o)
           /\ s.type = "totp" => /\ now \in r.counter * s.period..(r.counter + 1) * s.period - 1
                                 /\ now + r.remaining = (r.counter + 1) * s.period
<1> DEFINE r == Otp!RunTOTP(s, now)
           counter == IF s.type = "totp" THEN now \div s.period ELSE s.counter
           first == IF counter = 0 THEN 0 ELSE -1
           rest == IF s.type = "totp" THEN s.period - (now % s.period) ELSE 0
<1>1. /\ s.type = "totp" => s.period \in MinPeriod..300
      /\ s.type = "hotp" => s.counter \in 0..MaxCounter
  BY NoneIsNoSettings DEF Otp!OtpParams, Settings
<1>2. r = [counter |-> counter, remaining |-> rest, code |-> Otp!HOTP(s, counter),
           codes |-> [o \in first..1 |-> [counter |-> counter + o, code |-> Otp!HOTP(s, counter + o)]]]
      /\ (s.type = "totp" => now >= 0)
  BY DEF Otp!RunTOTP
<1>3. s.type = "totp" => /\ counter \in 0..now /\ now \in counter * s.period..(counter + 1) * s.period - 1
                         /\ now + rest = (counter + 1) * s.period
  <2> SUFFICES ASSUME s.type = "totp"
               PROVE  /\ counter \in 0..now /\ now \in counter * s.period..(counter + 1) * s.period - 1
                      /\ now + rest = (counter + 1) * s.period
    OBVIOUS
  <2>1. s.period \in Nat \ {0} /\ now \in Nat
    BY <1>1, <1>2, PeriodsAreNumbers
  <2>2. counter = now \div s.period /\ rest = s.period - (now % s.period)
    OBVIOUS
  <2> HIDE DEF counter, rest
  <2> QED BY <2>1, <2>2, PeriodOf
<1>4. counter \in 0..MaxCounter
  <2>1. s.type = "totp" \/ s.type = "hotp"
    BY DEF Settings
  <2>2. s.type = "hotp" => counter = s.counter
    OBVIOUS
  <2> HIDE DEF counter, rest
  <2> QED BY <1>1, <1>3, <2>1, <2>2, PeriodsAreNumbers
<1> HIDE DEF counter, rest, r
<1>5. r.counter = counter /\ r.remaining = rest
      /\ r.codes = [o \in first..1 |-> [counter |-> counter + o, code |-> Otp!HOTP(s, counter + o)]]
  BY <1>2
<1>6. first..1 = IF counter = 0 THEN 0..1 ELSE -1..1
  OBVIOUS
<1>7. DOMAIN r.codes = first..1 /\ \A o \in DOMAIN r.codes : r.codes[o].code = Otp!HOTP(s, r.counter + o)
  <2> HIDE DEF first
  <2> QED BY <1>5
<1> HIDE DEF first
<1> QED BY <1>3, <1>4, <1>5, <1>6, <1>7 DEF r

\* A code is of the moment it is said to be of.
LEMMA CodeIsKept ==
    ASSUME NEW s \in Settings, NEW now \in Int, now <= MaxCounter, NEW counter \in Nat
    PROVE  Otp!CodesAreOfTheMoment(s, now, counter)
<1> DEFINE r == Otp!RunTOTP(s, now)
           C(k) == Otp!HOTP(s, k)
           off == Otp!Check(r, C(counter))
<1> SUFFICES ASSUME Otp!OtpParams(s, s.counter) = s, r # None
             PROVE  /\ off # None => C(counter) = C(r.counter + off) /\ r.counter + off \in 0..MaxCounter + 1
                    /\ Otp!Check(r, C(r.counter)) = 0
                    /\ counter \in r.counter - 1..r.counter + 1 => off # None
                    /\ s.type = "totp" =>
                        /\ now \in r.counter * s.period..(r.counter + 1) * s.period - 1
                        /\ now + r.remaining = (r.counter + 1) * s.period
  BY DEF Otp!CodesAreOfTheMoment
<1>1. /\ r.counter \in 0..MaxCounter
      /\ DOMAIN r.codes = IF r.counter = 0 THEN 0..1 ELSE -1..1
      /\ \A o \in DOMAIN r.codes : r.codes[o].code = C(r.counter + o)
      /\ s.type = "totp" => /\ now \in r.counter * s.period..(r.counter + 1) * s.period - 1
                            /\ now + r.remaining = (r.counter + 1) * s.period
  BY CodesShown
<1> HIDE DEF r
<1>2. DOMAIN r.codes \subseteq -1..1 /\ 0 \in DOMAIN r.codes /\ \A o \in DOMAIN r.codes : r.counter + o \in 0..MaxCounter + 1
  BY <1>1, PeriodsAreNumbers
<1>3. ASSUME NEW code, Otp!Matches(r, code) # {}
      PROVE  /\ Otp!Winner(Otp!Matches(r, code)) \in Otp!Matches(r, code)
             /\ Otp!Check(r, code) = Otp!Winner(Otp!Matches(r, code))
  <2> DEFINE those == Otp!Matches(r, code)
  <2>1. those \subseteq -1..1 /\ those # {}
    BY <1>2, <1>3 DEF Otp!Matches
  <2> HIDE DEF those
  <2>2. \E o \in those : \A p \in those : o <= p
    <3>0. \A o \in those : o = -1 \/ o = 0 \/ o = 1
      BY <2>1
    <3>1. CASE -1 \in those
      <4>1. \A p \in those : -1 <= p
        BY <3>0
      <4> QED BY <3>1, <4>1
    <3>2. CASE -1 \notin those /\ 0 \in those
      <4>1. \A p \in those : 0 <= p
        BY <3>0, <3>2
      <4> QED BY <3>2, <4>1
    <3>3. CASE -1 \notin those /\ 0 \notin those
      <4>1. 1 \in those /\ \A p \in those : 1 <= p
        <5>1. \A p \in those : p = 1
          BY <3>0, <3>3
        <5>2. PICK p \in those : TRUE
          BY <2>1
        <5>3. 1 \in those
          BY <5>1, <5>2
        <5> QED BY <5>1, <5>3
      <4> QED BY <4>1
    <3> QED BY <3>1, <3>2, <3>3
  <2>3. Otp!Winner(those) \in those
    BY <2>2 DEF Otp!Winner
  <2> QED BY <1>3, <2>3 DEF those, Otp!Check
<1>4. ASSUME off # None PROVE C(counter) = C(r.counter + off) /\ r.counter + off \in 0..MaxCounter + 1
  <2>1. Otp!Matches(r, C(counter)) # {}
    BY <1>4 DEF Otp!Check
  <2>2. off \in Otp!Matches(r, C(counter))
    BY <1>3, <2>1
  <2>3. off \in DOMAIN r.codes /\ r.codes[off].code = C(counter)
    BY <2>2 DEF Otp!Matches
  <2> HIDE DEF off
  <2> QED BY <1>1, <1>2, <2>3
<1>5. Otp!Check(r, C(r.counter)) = 0
  <2>1. r.counter + 0 = r.counter
    BY <1>1
  <2>2. 0 \in Otp!Matches(r, C(r.counter))
    <3>1. r.codes[0].code = C(r.counter)
      BY <1>1, <1>2, <2>1
    <3> QED BY <1>2, <3>1 DEF Otp!Matches
  <2> QED BY <2>2 DEF Otp!Check, Otp!Winner
<1>6. ASSUME counter \in r.counter - 1..r.counter + 1 PROVE off # None
  <2>1. PICK o \in -1..1 : o = counter - r.counter
    BY <1>1, <1>6, PeriodsAreNumbers
  <2>2. o \in DOMAIN r.codes /\ r.counter + o = counter
    BY <1>1, <1>6, <2>1, PeriodsAreNumbers
  <2>3. o \in Otp!Matches(r, C(counter))
    <3>1. r.codes[o].code = C(counter)
      BY <1>1, <2>2
    <3> QED BY <2>2, <3>1 DEF Otp!Matches
  <2>4. off \in Otp!Matches(r, C(counter))
    BY <1>3, <2>3
  <2>5. off \in Int
    BY <1>2, <2>4 DEF Otp!Matches
  <2> HIDE DEF off
  <2> QED BY <2>5, NoneIsNoValue
<1> QED BY <1>1, <1>4, <1>5, <1>6

\* What a label is made of.
Chars == STRING \cup {":", " ", "%3A", "%3a", "%20"}

\* The first place of some characters.
LEMMA AtIs ==
    ASSUME NEW text \in Seq(Chars), NEW cs
    PROVE  /\ (\A i \in DOMAIN text : text[i] \notin cs) => Otp!At(text, cs) = 0
           /\ \A k \in DOMAIN text : text[k] \in cs /\ (\A i \in DOMAIN text : i < k => text[i] \notin cs) => Otp!At(text, cs) = k
<1> DEFINE I == {i \in 1..Len(text) : text[i] \in cs}
<1>1. Otp!At(text, cs) = IF I # {} THEN Otp!Min(I) ELSE 0
  BY DEF Otp!At, Otp!SelectInSeq
<1>2. ASSUME NEW k \in DOMAIN text, text[k] \in cs, \A i \in DOMAIN text : i < k => text[i] \notin cs
      PROVE  Otp!Min(I) = k /\ I # {}
  <2>1. k \in I /\ \A i \in I : k <= i /\ i \in Int
    BY <1>2
  <2>2. \A x \in I : (\A y \in I : x <= y) => x = k
    BY <2>1
  <2> HIDE DEF I
  <2> QED BY <2>1, <2>2 DEF Otp!Min
<1>3. (\A i \in DOMAIN text : text[i] \notin cs) => I = {}
  OBVIOUS
<1> HIDE DEF I
<1> QED BY <1>1, <1>2, <1>3

\* An escaped name has no ':' and no space, and reads back.
LEMMA EscapedBack ==
    ASSUME NEW name \in Names
    PROVE  /\ Otp!Escape(name) \in Seq(Chars) /\ Len(Otp!Escape(name)) = Len(name)
           /\ \A i \in DOMAIN Otp!Escape(name) : Otp!Escape(name)[i] # ":"
           /\ (\A i \in DOMAIN name : name[i] # ":") =>
                 \A i \in DOMAIN Otp!Escape(name) : Otp!Escape(name)[i] \notin {"%3A", "%3a"}
           /\ Otp!Unescape(Otp!Escape(name)) = name
<1> DEFINE text == Otp!Escape(name)
<1>1. name \in Seq(STRING) /\ \A i \in DOMAIN name : name[i] \in STRING /\ name[i] # "%3A" /\ name[i] # "%3a" /\ name[i] # "%20"
  BY DEF Names
<1>2. text = [i \in DOMAIN name |-> CASE name[i] = ":" -> "%3A" [] name[i] = " " -> "%20" [] OTHER -> name[i]]
  BY DEF Otp!Escape
<1>3. DOMAIN text = DOMAIN name /\ \A i \in DOMAIN name :
        /\ name[i] = ":" => text[i] = "%3A"
        /\ name[i] = " " => text[i] = "%20"
        /\ name[i] # ":" /\ name[i] # " " => text[i] = name[i]
  BY <1>2
<1>4. text \in Seq(Chars) /\ Len(text) = Len(name)
  <2>1. \A i \in DOMAIN name : text[i] \in Chars
    BY <1>1, <1>3 DEF Chars
  <2>2. DOMAIN name = 1..Len(name) /\ Len(name) \in Nat
    BY <1>1
  <2>3. text = [i \in 1..Len(name) |-> text[i]]
    BY <1>2, <2>2
  <2> HIDE DEF text
  <2> QED BY <2>1, <2>2, <2>3
<1> HIDE DEF text
<1>5. Otp!Unescape(text) = [i \in DOMAIN name |-> CASE text[i] \in {"%3A", "%3a"} -> ":" [] text[i] = "%20" -> " " [] OTHER -> text[i]]
  BY <1>3 DEF Otp!Unescape
<1>6. \A i \in DOMAIN name : (CASE text[i] \in {"%3A", "%3a"} -> ":" [] text[i] = "%20" -> " " [] OTHER -> text[i]) = name[i]
  BY <1>1, <1>3
<1>7. Otp!Unescape(text) = name
  <2>1. name = [i \in DOMAIN name |-> name[i]]
    BY <1>1
  <2> QED BY <1>5, <1>6, <2>1
<1>8. \A i \in DOMAIN text : text[i] # ":"
  BY <1>1, <1>3
<1>9. (\A i \in DOMAIN name : name[i] # ":") => \A i \in DOMAIN text : text[i] \notin {"%3A", "%3a"}
  BY <1>1, <1>3
<1> QED BY <1>4, <1>7, <1>8, <1>9 DEF text

\* A label that begins and ends with no ':' is left as it is, and a ':' at its
\* beginning alone goes.
LEMMA TrimmedIs ==
    ASSUME NEW text \in Seq(Chars), text # <<>>, text[Len(text)] # ":"
    PROVE  /\ text[1] # ":" => Otp!Trimmed(text) = text
           /\ Otp!Trimmed(<<":">> \o text) = text
<1>1. text # <<>> /\ Len(text) \in Nat /\ Head(text) = text[1] /\ Otp!Last(text) = text[Len(text)]
  BY DEF Otp!Last
<1>2. text[1] # ":" => Otp!Trimmed(text) = text
  BY <1>1 DEF Otp!Trimmed
<1>3. PICK long : long = <<":">> \o text
  OBVIOUS
<1>4. long # <<>> /\ Head(long) = ":" /\ Tail(long) = text
  <2>1. long \in Seq(Chars) /\ Len(long) = Len(text) + 1 /\ long[1] = ":"
        /\ \A i \in 1..Len(text) : long[1 + i] = text[i]
    <3>1. PICK c \in Chars : c = ":"
      BY DEF Chars
    <3>2. <<c>> \in Seq(Chars) /\ Len(<<c>>) = 1 /\ <<c>>[1] = c
      BY <3>1
    <3>3. long = <<c>> \o text
      BY <1>3, <3>1
    <3>4. long \in Seq(Chars) /\ Len(long) = Len(<<c>>) + Len(text)
          /\ (\A k \in 1..Len(<<c>>) : long[k] = <<c>>[k]) /\ \A k \in 1..Len(text) : long[Len(<<c>>) + k] = text[k]
      BY ONLY <3>2, <3>3, Concat, text \in Seq(Chars)
    <3> QED BY <3>1, <3>2, <3>4
  <2>2. Tail(long) \in Seq(Chars) /\ Len(Tail(long)) = Len(text) /\ \A i \in 1..Len(text) : Tail(long)[i] = long[i + 1]
    BY <2>1
  <2>3. Tail(long) = text
    BY <2>1, <2>2
  <2> QED BY <2>1, <2>3
<1>5. Otp!Trimmed(long) = text
  BY <1>1, <1>4 DEF Otp!Trimmed
<1> QED BY <1>2, <1>3, <1>5

-----------------------------------------------------------------------------
(* Keys: what a key is, and what a JWK says of one.                        *)

\* What a name is.
LEMMA NameIs ==
    ASSUME NEW name \in Names
    PROVE  /\ name \in Seq(Chars) /\ Len(name) \in Nat /\ DOMAIN name = 1..Len(name)
           /\ name # <<>> => Len(name) # 0 /\ 1 \in DOMAIN name /\ Head(name) = name[1]
<1>1. DOMAIN name = 1..Len(name) /\ Len(name) \in Nat /\ \A i \in 1..Len(name) : name[i] \in STRING
  BY DEF Names
<1>2. \A i \in 1..Len(name) : name[i] \in Chars
  BY <1>1 DEF Chars
<1>3. name = [i \in 1..Len(name) |-> name[i]]
  BY DEF Names
<1>4. name \in Seq(Chars)
  BY <1>1, <1>2, <1>3
<1>5. name # <<>> => Len(name) # 0
  BY <1>4
<1> QED BY <1>1, <1>4, <1>5

\* A name that begins with no space keeps what it begins with.
Beginning(name, blank) ==
    LET from == {i \in DOMAIN name : name[i] # blank}
    IN  IF from = {} THEN <<>> ELSE SubSeq(name, CHOOSE i \in from : \A j \in from : i <= j, Len(name))
LEMMA Beginnings ==
    ASSUME NEW name \in Names, name # <<>>, NEW blank, Head(name) # blank
    PROVE  Beginning(name, blank) = name
<1> DEFINE from == {i \in DOMAIN name : name[i] # blank}
<1>1. name \in Seq(Chars) /\ DOMAIN name = 1..Len(name) /\ Len(name) \in Nat \ {0} /\ name[1] # blank
  BY NameIs
<1>2. 1 \in from /\ \A i \in from : 1 <= i /\ i \in Int
  BY <1>1
<1>3. \A i \in from : (\A j \in from : i <= j) => i = 1
  <2> HIDE DEF from
  <2> QED BY <1>2
<1> HIDE DEF from
<1>4. (CHOOSE i \in from : \A j \in from : i <= j) = 1 /\ from # {}
  BY <1>2, <1>3
<1>5. Beginning(name, blank) = SubSeq(name, 1, Len(name))
  BY <1>4 DEF Beginning, from
<1>6. SubSeq(name, 1, Len(name)) = name
  BY <1>1
<1> QED BY <1>5, <1>6
LEMMA NotTrimmed ==
    ASSUME NEW name \in Names, name # <<>>, Head(name) # " "
    PROVE  Otp!LeftTrim(name) = name
<1>1. Beginning(name, " ") = name
  BY Beginnings, Zenon
<1>2. Otp!LeftTrim(name) = Beginning(name, " ")
  BY Zenon DEF Otp!LeftTrim, Beginning
<1> QED BY <1>1, <1>2, Zenon

\* The label of an account alone is the account.
LEMMA LabelOfOne ==
    ASSUME NEW name \in Names, name # <<>>, \A i \in DOMAIN name : name[i] # ":"
    PROVE  LET text == Otp!Escape(name) IN
           /\ Otp!Trimmed(<<>> \o <<":">> \o text) = text /\ Otp!Separator(text) = text
           /\ Otp!At(text, {":"}) = 0 /\ Otp!Unescape(text) = name
<1> DEFINE text == Otp!Escape(name)
<1>1. /\ text \in Seq(Chars) /\ Len(text) = Len(name) /\ Otp!Unescape(text) = name
      /\ \A i \in DOMAIN text : text[i] # ":" /\ text[i] \notin {"%3A", "%3a"}
  BY EscapedBack
<1> HIDE DEF text
<1>2. text # <<>> /\ Len(text) \in DOMAIN text
  BY <1>1 DEF Names
<1>3. Otp!Trimmed(<<":">> \o text) = text
  BY <1>1, <1>2, TrimmedIs
<1>4. <<>> \o <<":">> = <<":">>
  OBVIOUS
<1>5. Otp!At(text, {":"}) = 0 /\ Otp!At(text, {"%3A", "%3a"}) = 0
  <2>1. \A i \in DOMAIN text : text[i] \notin {":"}
    BY <1>1
  <2> QED BY <1>1, <2>1, AtIs
<1>6. Otp!Separator(text) = text
  BY <1>5 DEF Otp!Separator
<1>7. Otp!Trimmed(<<>> \o <<":">> \o text) = text
  BY <1>3, <1>4
<1> QED BY <1>1, <1>5, <1>6, <1>7 DEF text

\* The label of both names is cut between them.
LEMMA LabelOfBoth ==
    ASSUME NEW one \in Names, NEW two \in Names, one # <<>>, two # <<>>
    PROVE  LET text == Otp!Escape(one) \o <<":">> \o Otp!Escape(two)
               cut == Otp!At(text, {":"})
           IN  /\ Otp!Trimmed(text) = text /\ Otp!Separator(text) = text /\ cut # 0
               /\ Otp!Unescape(SubSeq(text, 1, cut - 1)) = one
               /\ Otp!Unescape(SubSeq(text, cut + 1, Len(text))) = two
<1> DEFINE a == Otp!Escape(one)
           b == Otp!Escape(two)
           text == a \o <<":">> \o b
           cut == Otp!At(text, {":"})
<1>1. /\ a \in Seq(Chars) /\ Len(a) = Len(one) /\ Otp!Unescape(a) = one /\ \A i \in DOMAIN a : a[i] # ":"
      /\ b \in Seq(Chars) /\ Len(b) = Len(two) /\ Otp!Unescape(b) = two /\ \A i \in DOMAIN b : b[i] # ":"
  BY EscapedBack
<1>2. Len(a) \in Nat \ {0} /\ Len(b) \in Nat \ {0}
  BY <1>1 DEF Names
<1> HIDE DEF a, b
<1>3. PICK c \in Chars : c = ":"
  BY DEF Chars
<1>4. <<c>> \in Seq(Chars) /\ Len(<<c>>) = 1 /\ <<c>>[1] = c
  BY <1>3
<1>5. PICK t : t = text
  OBVIOUS
<1>6. /\ t \in Seq(Chars) /\ Len(t) = Len(a) + 1 + Len(b) /\ t[Len(a) + 1] = ":"
      /\ (\A i \in 1..Len(a) : t[i] = a[i]) /\ \A i \in 1..Len(b) : t[Len(a) + 1 + i] = b[i]
  <2>1. PICK h : h = a \o <<c>>
    OBVIOUS
  <2>2. h \in Seq(Chars) /\ Len(h) = Len(a) + 1 /\ (\A i \in 1..Len(a) : h[i] = a[i]) /\ h[Len(a) + 1] = c
    <3>1. h \in Seq(Chars) /\ Len(h) = Len(a) + Len(<<c>>) /\ (\A i \in 1..Len(a) : h[i] = a[i])
          /\ \A i \in 1..Len(<<c>>) : h[Len(a) + i] = <<c>>[i]
      BY ONLY <1>1, <1>4, <2>1, Concat
    <3>2. 1 \in 1..Len(<<c>>)
      BY <1>4
    <3> QED BY <1>4, <3>1, <3>2
  <2>3. t = h \o b
    BY <1>3, <1>5, <2>1
  <2>4. t \in Seq(Chars) /\ Len(t) = Len(h) + Len(b) /\ (\A i \in 1..Len(h) : t[i] = h[i])
        /\ \A i \in 1..Len(b) : t[Len(h) + i] = b[i]
    <3>1. h \in Seq(Chars) /\ b \in Seq(Chars)
      BY <1>1, <2>2
    <3> QED BY ONLY <2>3, <3>1, Concat
  <2> QED BY <1>2, <1>3, <2>2, <2>4
<1> HIDE DEF text
<1>7. t # <<>> /\ DOMAIN t = 1..(Len(a) + 1 + Len(b)) /\ t[1] # ":" /\ t[Len(t)] # ":"
  <2>1. 1 \in 1..Len(a) /\ 1 \in DOMAIN a /\ Len(b) \in 1..Len(b) /\ Len(b) \in DOMAIN b
    BY <1>1, <1>2
  <2>2. t[1] = a[1] /\ t[Len(a) + 1 + Len(b)] = b[Len(b)]
    BY <1>6, <2>1
  <2> QED BY <1>1, <1>2, <1>6, <2>1, <2>2
<1>8. Otp!Trimmed(t) = t
  BY <1>6, <1>7, TrimmedIs
<1>9. Otp!At(t, {":"}) = Len(a) + 1
  <2>1. Len(a) + 1 \in DOMAIN t /\ t[Len(a) + 1] \in {":"}
    BY <1>2, <1>6, <1>7
  <2>2. \A i \in DOMAIN t : i < Len(a) + 1 => t[i] \notin {":"}
    <3> SUFFICES ASSUME NEW i \in DOMAIN t, i < Len(a) + 1 PROVE t[i] # ":"
      OBVIOUS
    <3>1. i \in 1..Len(a) /\ i \in DOMAIN a
      BY <1>1, <1>2, <1>7
    <3> QED BY <1>1, <1>6, <3>1
  <2> QED BY <1>6, <2>1, <2>2, AtIs
<1>10. Otp!Separator(t) = t
  BY <1>2, <1>9 DEF Otp!Separator
<1>11. SubSeq(t, 1, Len(a) + 1 - 1) = a
  <2>1. Len(a) + 1 - 1 = Len(a) /\ Len(a) \in 1..Len(t)
    BY <1>2, <1>6
  <2>2. SubSeq(t, 1, Len(a)) \in Seq(Chars) /\ Len(SubSeq(t, 1, Len(a))) = Len(a)
        /\ \A i \in 1..Len(a) : SubSeq(t, 1, Len(a))[i] = t[i]
    BY <1>2, <1>6, <2>1
  <2>3. SubSeq(t, 1, Len(a)) = a
    BY <1>1, <1>6, <2>2
  <2> QED BY <2>1, <2>3
<1>12. SubSeq(t, Len(a) + 1 + 1, Len(t)) = b
  <2>1. PICK d : d = SubSeq(t, Len(a) + 1 + 1, Len(t))
    OBVIOUS
  <2>2. d \in Seq(Chars) /\ Len(d) = Len(b) /\ \A i \in 1..Len(b) : d[i] = t[Len(a) + 1 + i]
    BY <1>2, <1>6, <2>1
  <2>3. \A i \in 1..Len(b) : d[i] = b[i]
    BY <1>6, <2>2
  <2>4. b \in Seq(Chars)
    BY <1>1
  <2>5. d = b
    BY ONLY <2>2, <2>3, <2>4
  <2> QED BY <2>1, <2>5
<1>13. cut = Len(a) + 1 /\ cut # 0
  BY <1>2, <1>5, <1>9
<1> HIDE DEF cut
<1>14. /\ Otp!Trimmed(text) = text /\ Otp!Separator(text) = text /\ cut # 0
       /\ Otp!Unescape(SubSeq(text, 1, cut - 1)) = one
       /\ Otp!Unescape(SubSeq(text, cut + 1, Len(text))) = two
  <2>1. text = t /\ cut - 1 = Len(a) + 1 - 1 /\ cut + 1 = Len(a) + 1 + 1
    BY <1>5, <1>13
  <2>2. Otp!Unescape(SubSeq(text, 1, cut - 1)) = one
    BY <1>1, <1>11, <2>1
  <2>3. Otp!Unescape(SubSeq(text, cut + 1, Len(text))) = two
    BY <1>1, <1>12, <2>1
  <2> QED BY <1>8, <1>10, <1>13, <2>1, <2>2, <2>3
<1> QED BY <1>14 DEF text, cut, a, b

\* An account reads back from its URI.
LEMMA UriIsKept ==
    ASSUME NEW s \in Settings
    PROVE  Otp!UriReadsBack(s)
<1> DEFINE u == Otp!BuildOTPURI(s)
           back == Otp!ParseOTPURI(u)
           label == Otp!Separator(u.label)
           cut == Otp!At(label, {":"})
           prefix == IF cut = 0 THEN <<>> ELSE Otp!Unescape(SubSeq(label, 1, cut - 1))
           account == IF cut = 0 THEN Otp!Unescape(label) ELSE Otp!LeftTrim(Otp!Unescape(SubSeq(label, cut + 1, Len(label))))
           issuer == IF u.issuer = <<>> THEN prefix ELSE u.issuer
           written == [type |-> u.type, account |-> account, issuer |-> issuer, algorithm |-> u.algorithm,
                       digits |-> u.digits, period |-> u.period, counter |-> 0, secret |-> u.secret]
           read == Otp!OtpParams(written, IF u.counter = None THEN 0 ELSE u.counter)
           said == {n \in {"issuer from the label"} : u.issuer = <<>> /\ prefix # <<>>}
                   \cup {n \in {"two issuers"} : u.issuer # <<>> /\ cut # 0 /\ prefix # u.issuer}
                   \cup {n \in {"no counter"} : u.type = "hotp" /\ u.counter = None}
<1>0. s.account \in Names
  BY DEF Settings
<1> SUFFICES ASSUME Otp!OtpParams(s, s.counter) = s, s.account # <<>>, s.issuer # <<>> \/ Otp!At(s.account, {":"}) = 0,
                    Otp!LeftTrim(s.account) = s.account
             PROVE  back # None /\ back.settings = s /\ back.notes = {}
  <2> HIDE DEF back
  <2> SUFFICES ASSUME Otp!OtpParams(s, s.counter) = s, s.account # <<>>, s.issuer # <<>> \/ Otp!At(s.account, {":"}) = 0,
                      Head(s.account) # " "
               PROVE  back # None /\ back.settings = s /\ back.notes = {}
    BY Zenon DEF Otp!UriReadsBack, back, u
  <2>1. Otp!LeftTrim(s.account) = s.account
    BY <1>0, NotTrimmed, Zenon
  <2> QED BY <2>1, Zenon
<1>1. /\ s.type \in {"totp", "hotp"} /\ s.account \in Names /\ s.issuer \in Names /\ s.counter \in Nat /\ s.secret \in STRING
      /\ s = [type |-> s.type, account |-> s.account, issuer |-> s.issuer, algorithm |-> s.algorithm,
              digits |-> s.digits, period |-> s.period, counter |-> s.counter, secret |-> s.secret]
  BY DEF Settings
<1>2. /\ u.type = s.type /\ u.issuer = s.issuer /\ u.algorithm = s.algorithm /\ u.digits = s.digits /\ u.period = s.period
      /\ u.counter = s.counter /\ u.secret = s.secret
      /\ u.label = Otp!Trimmed(Otp!Escape(s.issuer) \o <<":">> \o Otp!Escape(s.account))
  BY DEF Otp!BuildOTPURI
<1>3. back = IF u.type \notin {"totp", "hotp"} \/ u.secret = None \/ read = None THEN None
             ELSE [settings |-> read, notes |-> said]
  BY DEF Otp!ParseOTPURI
<1> HIDE DEF u
<1>4. account = s.account /\ prefix = s.issuer
  <2>1. CASE s.issuer # <<>>
    <3>2. PICK text : text = Otp!Escape(s.issuer) \o <<":">> \o Otp!Escape(s.account)
      OBVIOUS
    <3>3. Otp!Trimmed(text) = text /\ Otp!Separator(text) = text /\ Otp!At(text, {":"}) # 0
          /\ Otp!Unescape(SubSeq(text, 1, Otp!At(text, {":"}) - 1)) = s.issuer
          /\ Otp!Unescape(SubSeq(text, Otp!At(text, {":"}) + 1, Len(text))) = s.account
      BY <1>1, <2>1, <3>2, LabelOfBoth
    <3>4. label = text
      BY <1>2, <3>2, <3>3
    <3> QED BY <2>1, <3>3, <3>4
  <2>2. CASE s.issuer = <<>>
    <3>1. \A i \in DOMAIN s.account : s.account[i] # ":"
      <4> SUFFICES ASSUME NEW k \in DOMAIN s.account, s.account[k] = ":" PROVE FALSE
        OBVIOUS
      <4>1. s.account \in Seq(Chars)
        <5> QED BY <1>1, NameIs
      <4>2. DOMAIN s.account \in SUBSET Nat /\ {i \in DOMAIN s.account : s.account[i] = ":"} # {}
        BY <4>1
      <4>3. PICK i \in {j \in DOMAIN s.account : s.account[j] = ":"} : \A j \in {j \in DOMAIN s.account : s.account[j] = ":"} : i <= j
        <5> DEFINE T == {j \in DOMAIN s.account : s.account[j] = ":"}
        <5>1. T \in SUBSET Nat /\ T # {}
          BY <4>2
        <5> HIDE DEF T
        <5>2. \E i \in T : \A j \in T : i <= j
          BY <5>1, LeastNat
        <5> QED BY <5>2 DEF T
      <4>4. i \in DOMAIN s.account /\ s.account[i] \in {":"} /\ \A j \in DOMAIN s.account : j < i => s.account[j] \notin {":"}
        BY <4>1, <4>3
      <4>5. Otp!At(s.account, {":"}) = i /\ i \in Nat \ {0}
        BY <4>1, <4>4, AtIs
      <4> QED BY <2>2, <4>5
    <3>2. PICK text : text = Otp!Escape(s.account)
      OBVIOUS
    <3>3. /\ Otp!Trimmed(<<>> \o <<":">> \o text) = text /\ Otp!Separator(text) = text
          /\ Otp!At(text, {":"}) = 0 /\ Otp!Unescape(text) = s.account
      BY <1>1, <3>1, <3>2, LabelOfOne
    <3>4. Otp!Escape(s.issuer) = <<>>
      BY <2>2 DEF Otp!Escape
    <3>5. label = text
      BY <1>2, <3>2, <3>3, <3>4
    <3> QED BY <2>2, <3>3, <3>5
  <2> QED BY <2>1, <2>2
<1>5. u.counter # None /\ u.secret # None
  BY <1>1, <1>2, NoneIsNoValue
<1> HIDE DEF label, cut, account, prefix
<1>6. issuer = s.issuer
  BY <1>2, <1>4
<1>7. written = [s EXCEPT !.counter = 0]
  BY <1>1, <1>2, <1>4, <1>6
<1>8. read = s
  <2>1. read = Otp!OtpParams([s EXCEPT !.counter = 0], s.counter)
    BY <1>2, <1>5, <1>7
  <2>2. Otp!OtpParams([s EXCEPT !.counter = 0], s.counter) = Otp!OtpParams(s, s.counter)
    <3>1. /\ [s EXCEPT !.counter = 0].algorithm = s.algorithm /\ [s EXCEPT !.counter = 0].digits = s.digits
          /\ [s EXCEPT !.counter = 0].type = s.type /\ [s EXCEPT !.counter = 0].period = s.period
          /\ [[s EXCEPT !.counter = 0] EXCEPT !.counter = 0] = [s EXCEPT !.counter = 0]
          /\ [[s EXCEPT !.counter = 0] EXCEPT !.counter = s.counter, !.period = 0] = [s EXCEPT !.counter = s.counter, !.period = 0]
      BY <1>1
    <3> QED BY <3>1 DEF Otp!OtpParams
  <2> QED BY <2>1, <2>2
<1>9. said = {}
  BY <1>2, <1>4, <1>5
<1> HIDE DEF read, said
<1>10. back = [settings |-> s, notes |-> {}]
  BY <1>1, <1>2, <1>3, <1>5, <1>8, <1>9, NoneIsNoSettings
<1>11. [settings |-> s, notes |-> {}] \in [settings : Settings, notes : SUBSET STRING]
  OBVIOUS
<1> HIDE DEF back
<1> QED BY <1>10, <1>11, NoneIsNoSettings

\* A public key that can sign, of a type, and whether its private half may follow.
Rsa(pub) == pub.type = "rsa" /\ pub.curve = "" /\ pub.bits \in Nat /\ pub.bits <= MaxRSABits /\ pub.e \in Nat /\ pub.id \in Nat
Ec(pub, private) ==
    pub.type = "ec" /\ pub.curve \in STRING /\ pub.bits = 0 /\ pub.e = 0 /\ pub.id \in Nat \ {0} /\ (private => pub.id \in 1..Order - 1)
Ed(pub) == pub.type = "ed25519" /\ pub.curve = "" /\ pub.bits = 0 /\ pub.e = 0 /\ pub.id \in Nat
Fits(pub, private) ==
    /\ pub = Keys!Public(pub.type, pub.curve, pub.bits, pub.e, pub.id)
    /\ Rsa(pub) \/ Ec(pub, private) \/ Ed(pub)

\* What a JWK's members say of a public key.
Spells(j, pub) ==
    \/ Rsa(pub) /\ pub.bits # 0 /\ j.kty = "RSA" /\ j.crv = "" /\ j.has["n"] = Keys!Part(pub.bits, pub.id) /\ j.has["e"] = Keys!Part(3, pub.e)
    \/ /\ Ec(pub, FALSE) /\ pub.curve \in DOMAIN Keys!Size /\ j.kty = "EC" /\ j.crv = pub.curve
       /\ j.has["x"] = Keys!Part(Keys!Size[pub.curve], pub.id) /\ j.has["y"] = j.has["x"]
    \/ Ed(pub) /\ j.kty = "OKP" /\ j.crv = "Ed25519" /\ j.has["x"] = Keys!Part(32, pub.id)

\* A part has a length and an owner, and is something.
LEMMA PartIs ==
    ASSUME NEW len \in Nat, NEW of \in Nat
    PROVE  /\ Keys!Part(len, of) \in Parts /\ Keys!Part(len, of) # Junk /\ Keys!Part(len, of) # None
           /\ Keys!Part(len, of).len = len /\ Keys!Part(len, of).of = of
<1>1. Keys!Part(len, of) = [len |-> len, of |-> of]
  BY DEF Keys!Part
<1>2. [len |-> len, of |-> of] \in Parts
  BY DEF Parts
<1> QED BY <1>1, <1>2, NoneIsNoKey

\* The curves that have a size.
LEMMA SizeIs ==
    /\ DOMAIN Keys!Size = {"P-256", "P-384", "P-521"}
    /\ \A c \in DOMAIN Keys!Size : Keys!Size[c] \in Nat
BY DEF Keys!Size

\* What the members spell is read, unless its exponent is out of range.
LEMMA Spelt ==
    ASSUME NEW j, NEW pub, Fits(pub, FALSE), Spells(j, pub)
    PROVE  Keys!PublicOf(j) = IF Keys!JwkTakes(pub) THEN pub ELSE None
<1>1. pub = Keys!Public(pub.type, pub.curve, pub.bits, pub.e, pub.id)
  BY DEF Fits
<1>2. CASE Rsa(pub) /\ j.kty = "RSA" /\ j.has["n"] = Keys!Part(pub.bits, pub.id) /\ j.has["e"] = Keys!Part(3, pub.e)
  <2>1. j.has["n"] # Junk /\ j.has["n"] # None /\ j.has["n"].len = pub.bits /\ j.has["n"].of = pub.id
        /\ j.has["e"] # Junk /\ j.has["e"] # None /\ j.has["e"].of = pub.e
    <3>1. pub.bits \in Nat /\ pub.id \in Nat /\ pub.e \in Nat /\ 3 \in Nat
      BY <1>2 DEF Rsa
    <3> QED BY <1>2, <3>1, PartIs
  <2>2. Keys!Number(j, "n") = j.has["n"] /\ Keys!Number(j, "e") = j.has["e"] /\ Keys!Decodes(j, {"n", "e"})
    BY <2>1 DEF Keys!Number, Keys!Decodes
  <2>3. Keys!PublicOf(j) = IF pub.e \in 3..MaxExponent THEN Keys!Public("rsa", "", pub.bits, pub.e, pub.id) ELSE None
    BY <1>2, <2>1, <2>2 DEF Keys!PublicOf, Rsa
  <2> QED BY <1>1, <1>2, <2>3 DEF Rsa, Keys!JwkTakes
<1>3. CASE /\ Ec(pub, FALSE) /\ pub.curve \in DOMAIN Keys!Size /\ j.kty = "EC" /\ j.crv = pub.curve
           /\ j.has["x"] = Keys!Part(Keys!Size[pub.curve], pub.id) /\ j.has["y"] = j.has["x"]
  <2>1. j.has["x"] # Junk /\ j.has["x"] # None /\ j.has["x"].len = Keys!Size[pub.curve] /\ j.has["x"].of = pub.id /\ pub.id # 0
    BY <1>3, PartIs, SizeIs DEF Ec
  <2>2. Keys!Number(j, "x") = j.has["x"] /\ Keys!Number(j, "y") = j.has["x"] /\ Keys!Decodes(j, {"x", "y"})
    BY <1>3, <2>1 DEF Keys!Number, Keys!Decodes
  <2>3. Keys!PublicOf(j) = Keys!Public("ec", pub.curve, 0, 0, pub.id)
    BY <1>3, <2>1, <2>2, SizeIs DEF Keys!PublicOf
  <2> QED BY <1>1, <1>3, <2>3 DEF Ec, Keys!JwkTakes
<1>4. CASE Ed(pub) /\ j.kty = "OKP" /\ j.crv = "Ed25519" /\ j.has["x"] = Keys!Part(32, pub.id)
  <2>1. j.has["x"] # Junk /\ j.has["x"] # None /\ j.has["x"].len = 32 /\ j.has["x"].of = pub.id
    <3>1. pub.id \in Nat /\ 32 \in Nat
      BY <1>4 DEF Ed
    <3> QED BY <1>4, <3>1, PartIs
  <2>2. Keys!Number(j, "x") = j.has["x"]
    BY <2>1 DEF Keys!Number
  <2>3. Keys!PublicOf(j) = Keys!Public("ed25519", "", 0, 0, pub.id)
    BY <1>4, <2>1, <2>2 DEF Keys!PublicOf, Keys!Ed25519Size
  <2> QED BY <1>1, <1>4, <2>3 DEF Ed, Keys!JwkTakes
<1> QED BY <1>2, <1>3, <1>4 DEF Spells

\* The public JWK of a key spells it, has no private member, and is of words and parts.
Wrote(j, pub) ==
    /\ Spells(j, pub) /\ j = [kty |-> j.kty, crv |-> j.crv, kid |-> "", alg |-> "", use |-> "", has |-> j.has]
    /\ j.has \in [Keys!JwkMembers -> Parts \cup {None}] /\ j.kty \in {"RSA", "EC", "OKP"} /\ j.crv \in Words
LEMMA PublicSpells ==
    ASSUME NEW pub, NEW private, private \in BOOLEAN, Fits(pub, private), Keys!JWKThumbprint(Keys!PublicJWK(pub)) # None
    PROVE  /\ Wrote(Keys!PublicJWK(pub), pub)
           /\ \A m \in Keys!PrivateMembers : Keys!PublicJWK(pub).has[m] = None
<1> DEFINE j == Keys!PublicJWK(pub)
           Has(members) == [m \in Keys!JwkMembers |-> IF m \in DOMAIN members THEN members[m] ELSE None]
<1>0. Keys!JwkMembers = {"n", "e", "x", "y", "k", "d", "p", "q"} /\ Keys!PrivateMembers = {"d", "p", "q", "k"}
  BY DEF Keys!JwkMembers, Keys!PrivateMembers
<1>1. CASE Rsa(pub)
  <2> DEFINE members == [n |-> IF pub.bits = 0 THEN None ELSE Keys!Part(pub.bits, pub.id), e |-> Keys!Part(3, pub.e)]
  <2>1. j = [kty |-> "RSA", crv |-> "", kid |-> "", alg |-> "", use |-> "", has |-> Has(members)]
    BY <1>1 DEF Keys!PublicJWK, Keys!Jwk, Rsa
  <2>2. DOMAIN members = {"n", "e"} /\ members["n"] = (IF pub.bits = 0 THEN None ELSE Keys!Part(pub.bits, pub.id))
        /\ members["e"] = Keys!Part(3, pub.e)
    OBVIOUS
  <2> HIDE DEF members, j
  <2>3. /\ j.kty = "RSA" /\ j.crv = "" /\ j.has = Has(members)
        /\ j.has["n"] = (IF pub.bits = 0 THEN None ELSE Keys!Part(pub.bits, pub.id)) /\ j.has["e"] = Keys!Part(3, pub.e)
        /\ \A m \in {"x", "y", "k", "d", "p", "q"} : j.has[m] = None
    BY <1>0, <2>1, <2>2
  <2>4. j.has["n"] # None
    BY <2>3 DEF Keys!JWKThumbprint, j
  <2>5. pub.bits # 0 /\ j.has["n"] = Keys!Part(pub.bits, pub.id)
    BY <2>3, <2>4
  <2>6. Keys!Part(pub.bits, pub.id) \in Parts /\ Keys!Part(3, pub.e) \in Parts
    <3>1. pub.bits \in Nat /\ pub.id \in Nat /\ pub.e \in Nat /\ 3 \in Nat
      BY <1>1 DEF Rsa
    <3> QED BY ONLY <3>1, PartIs
  <2>7. Has(members) \in [Keys!JwkMembers -> Parts \cup {None}]
    BY <1>0, <2>2, <2>6
  <2>8. Spells(j, pub)
    BY <1>1, <2>3, <2>5 DEF Spells
  <2>9. j.crv \in Words /\ \A m \in Keys!PrivateMembers : j.has[m] = None
    BY <1>0, <2>3 DEF Words
  <2> HIDE DEF Has
  <2> QED BY <2>1, <2>3, <2>7, <2>8, <2>9 DEF Wrote, j
<1>2. CASE Ec(pub, private)
  <2> DEFINE part == IF pub.curve \in DOMAIN Keys!Size THEN Keys!Part(Keys!Size[pub.curve], pub.id) ELSE None
             members == [x |-> part, y |-> part]
  <2>1. j = [kty |-> "EC", crv |-> pub.curve, kid |-> "", alg |-> "", use |-> "", has |-> Has(members)]
    BY <1>2 DEF Keys!PublicJWK, Keys!Jwk, Ec
  <2>2. DOMAIN members = {"x", "y"} /\ members["x"] = part /\ members["y"] = part
    OBVIOUS
  <2> HIDE DEF members, j
  <2>3. /\ j.kty = "EC" /\ j.crv = pub.curve /\ j.has = Has(members) /\ j.has["x"] = part /\ j.has["y"] = part
        /\ \A m \in {"n", "e", "k", "d", "p", "q"} : j.has[m] = None
    BY <1>0, <2>1, <2>2
  <2>4. part # None
    BY <2>3 DEF Keys!JWKThumbprint, j
  <2>5. pub.curve \in DOMAIN Keys!Size /\ part = Keys!Part(Keys!Size[pub.curve], pub.id)
    BY <2>4
  <2> HIDE DEF part
  <2>6. part \in Parts
    BY <1>2, <2>5, PartIs, SizeIs DEF Ec
  <2>7. Has(members) \in [Keys!JwkMembers -> Parts \cup {None}]
    BY <1>0, <2>2, <2>6
  <2>8. Spells(j, pub)
    BY <1>2, <2>3, <2>5 DEF Spells, Ec
  <2>9. j.crv \in Words /\ \A m \in Keys!PrivateMembers : j.has[m] = None
    BY <1>0, <2>3, <2>5, SizeIs DEF Words
  <2> HIDE DEF Has
  <2> QED BY <2>1, <2>3, <2>7, <2>8, <2>9 DEF Wrote, j
<1>3. CASE Ed(pub)
  <2> DEFINE part == Keys!Part(32, pub.id)
             members == [x |-> part]
  <2>1. j = [kty |-> "OKP", crv |-> "Ed25519", kid |-> "", alg |-> "", use |-> "", has |-> Has(members)]
    BY <1>3 DEF Keys!PublicJWK, Keys!Jwk, Ed, Keys!Ed25519Size
  <2>2. DOMAIN members = {"x"} /\ members["x"] = part
    OBVIOUS
  <2> HIDE DEF members, j
  <2>3. /\ j.kty = "OKP" /\ j.crv = "Ed25519" /\ j.has = Has(members) /\ j.has["x"] = part
        /\ \A m \in {"n", "e", "y", "k", "d", "p", "q"} : j.has[m] = None
    BY <1>0, <2>1, <2>2
  <2>6. part \in Parts
    BY <1>3, PartIs DEF Ed
  <2>7. Has(members) \in [Keys!JwkMembers -> Parts \cup {None}]
    <3> HIDE DEF part
    <3> QED BY <1>0, <2>2, <2>6
  <2>8. Spells(j, pub)
    BY <1>3, <2>3 DEF Spells
  <2>9. j.crv \in Words /\ \A m \in Keys!PrivateMembers : j.has[m] = None
    BY <1>0, <2>3 DEF Words
  <2> HIDE DEF Has
  <2> QED BY <2>1, <2>3, <2>7, <2>8, <2>9 DEF Wrote, j
<1> QED BY <1>1, <1>2, <1>3 DEF Fits

(* What a paste is read as,                                                *)

\* A key that fits is one, whether or not its private half follows.
LEMMA FitsIsAKey ==
    ASSUME NEW pub, NEW private, private \in BOOLEAN, Fits(pub, private)
    PROVE  pub # None /\ Fits(pub, FALSE)
<1>1. CASE Rsa(pub)
  <2>1. pub = Keys!Public(pub.type, pub.curve, pub.bits, pub.e, pub.id)
    BY DEF Fits
  <2>2. pub.type = "rsa" /\ pub.curve \in Words /\ pub.bits \in Nat /\ pub.e \in Nat /\ pub.id \in Nat
    BY <1>1 DEF Rsa, Words
  <2>4. pub = [type |-> pub.type, curve |-> pub.curve, bits |-> pub.bits, e |-> pub.e, id |-> pub.id]
    BY ONLY <2>1 DEF Keys!Public
  <2>5. pub.type \in {"rsa", "ec", "ed25519"}
    BY ONLY <2>2
  <2>6. pub \in [type : {"rsa", "ec", "ed25519"}, curve : Words, bits : Nat, e : Nat, id : Nat]
    BY ONLY <2>2, <2>4, <2>5
  <2>7. pub # None
    BY <2>6, NoneIsNoKey
  <2> QED BY <1>1, <2>1, <2>7 DEF Fits
<1>2. CASE Ec(pub, private)
  <2>1. pub = Keys!Public(pub.type, pub.curve, pub.bits, pub.e, pub.id)
    BY DEF Fits
  <2>2. pub.type = "ec" /\ pub.curve \in Words /\ pub.bits = 0 /\ pub.e = 0 /\ pub.id \in Nat
    BY <1>2 DEF Ec, Words
  <2>4. pub = [type |-> pub.type, curve |-> pub.curve, bits |-> pub.bits, e |-> pub.e, id |-> pub.id]
    BY ONLY <2>1 DEF Keys!Public
  <2>5. pub.type \in {"rsa", "ec", "ed25519"} /\ pub.bits \in Nat /\ pub.e \in Nat
    BY ONLY <2>2
  <2>6. pub \in [type : {"rsa", "ec", "ed25519"}, curve : Words, bits : Nat, e : Nat, id : Nat]
    BY ONLY <2>2, <2>4, <2>5
  <2>7. pub # None
    BY <2>6, NoneIsNoKey
  <2>8. Ec(pub, FALSE)
    BY <1>2 DEF Ec
  <2> QED BY <2>1, <2>7, <2>8 DEF Fits
<1>3. CASE Ed(pub)
  <2>1. pub = Keys!Public(pub.type, pub.curve, pub.bits, pub.e, pub.id)
    BY DEF Fits
  <2>2. pub.type = "ed25519" /\ pub.curve \in Words /\ pub.bits = 0 /\ pub.e = 0 /\ pub.id \in Nat
    BY <1>3 DEF Ed, Words
  <2>4. pub = [type |-> pub.type, curve |-> pub.curve, bits |-> pub.bits, e |-> pub.e, id |-> pub.id]
    BY ONLY <2>1 DEF Keys!Public
  <2>5. pub.type \in {"rsa", "ec", "ed25519"} /\ pub.bits \in Nat /\ pub.e \in Nat
    BY ONLY <2>2
  <2>6. pub \in [type : {"rsa", "ec", "ed25519"}, curve : Words, bits : Nat, e : Nat, id : Nat]
    BY ONLY <2>2, <2>4, <2>5
  <2>7. pub # None
    BY <2>6, NoneIsNoKey
  <2> QED BY <1>3, <2>1, <2>7 DEF Fits
<1> QED BY <1>1, <1>2, <1>3 DEF Fits

\* A key under labels, those of a JWK, and none.
Named(k, kid, alg, use) == [k EXCEPT !.kid = kid, !.alg = alg, !.use = use]
Labelled(k, j) == Named(k, j.kid, j.alg, j.use)
Bare(k) == Named(k, "", "", "")

\* A JWK that spells a key whose exponent is out of range reads as none;
LEMMA ReadsNone ==
    ASSUME NEW pub, NEW j, Fits(pub, FALSE), Spells(j, pub), ~Keys!JwkTakes(pub)
    PROVE  Keys!KeyFromJWK(j) = None
<1>1. Keys!PublicOf(j) = None
  BY Spelt
<1>2. j.kty \in {"RSA", "EC", "OKP"}
  BY DEF Spells
<1>3. j.kty # "oct"
  BY ONLY <1>2
<1> QED BY <1>1, <1>3 DEF Keys!KeyFromJWK

\* one that spells a public key and no private half reads as that key,
LEMMA ReadsPublic ==
    ASSUME NEW pub, NEW j, Fits(pub, FALSE), Spells(j, pub), Keys!JwkTakes(pub), j.has["d"] = None
    PROVE  Keys!KeyFromJWK(j) = Labelled(Keys!Key(pub, FALSE), j)
<1>1. Keys!PublicOf(j) = pub
  BY Spelt
<1>2. pub # None
  BY FitsIsAKey
<1>3. j.kty \in {"RSA", "EC", "OKP"}
  BY DEF Spells
<1>4. j.kty # "oct"
  BY ONLY <1>3
<1> QED BY <1>1, <1>2, <1>4 DEF Keys!KeyFromJWK, Labelled, Named

\* and with the private half that belongs to it as the whole key.
Halves(j, pub) ==
    /\ j.has["d"] = Keys!Part(IF pub.type = "rsa" THEN pub.bits ELSE IF pub.type = "ec" THEN Keys!Size[pub.curve] ELSE 32, pub.id)
    /\ pub.type = "rsa" => /\ j.has["p"] = Keys!Part(pub.bits \div 2, pub.id)
                           /\ j.has["q"] = Keys!Part(pub.bits \div 2, pub.id)
LEMMA ReadsPrivate ==
    ASSUME NEW pub, NEW j, Fits(pub, TRUE), Spells(j, pub), Halves(j, pub), Keys!JwkTakes(pub), ~Keys!HasManyPrimes(pub)
    PROVE  Keys!KeyFromJWK(j) = Labelled(Keys!Key(pub, TRUE), j)
<1>0. Fits(pub, FALSE) /\ pub # None
  BY FitsIsAKey
<1>1. Keys!PublicOf(j) = pub
  BY <1>0, Spelt
<1>2. CASE Rsa(pub)
  <2>1. pub.type = "rsa" /\ pub.bits \in Nat /\ pub.id \in Nat /\ j.kty = "RSA"
    BY <1>2 DEF Spells, Rsa, Ec, Ed
  <2>2. pub.bits \div 2 \in Nat /\ pub.bits \div 2 <= pub.bits
    BY <2>1
  <2>3. /\ j.has["d"] = Keys!Part(pub.bits, pub.id)
        /\ j.has["p"] = Keys!Part(pub.bits \div 2, pub.id) /\ j.has["q"] = Keys!Part(pub.bits \div 2, pub.id)
    BY <2>1 DEF Halves
  <2>4. /\ \A m \in {"d", "p", "q"} : j.has[m] # None /\ j.has[m] # Junk /\ j.has[m].of = pub.id
        /\ j.has["p"].len = pub.bits \div 2 /\ j.has["q"].len = pub.bits \div 2
    BY ONLY <2>1, <2>2, <2>3, PartIs
  <2>5. Keys!PrivateOf(j, pub)
    BY ONLY <2>1, <2>2, <2>4, ~Keys!HasManyPrimes(pub) DEF Keys!PrivateOf, Keys!Decodes, Keys!Belongs
  <2>6. j.kty # "oct" /\ j.has["d"] # None
    BY ONLY <2>1, <2>4
  <2> QED BY <1>0, <1>1, <2>5, <2>6 DEF Keys!KeyFromJWK, Labelled, Named
<1>3. CASE Ec(pub, TRUE)
  <2>1. pub.type = "ec" /\ pub.curve \in DOMAIN Keys!Size /\ pub.id \in Nat /\ pub.id \in 1..Order - 1 /\ j.kty = "EC" /\ j.crv = pub.curve
    BY <1>3 DEF Spells, Rsa, Ec, Ed
  <2>2. Keys!Size[pub.curve] \in Nat
    BY <2>1, SizeIs
  <2>3. j.has["d"] = Keys!Part(Keys!Size[pub.curve], pub.id)
    BY <2>1 DEF Halves
  <2>4. j.has["d"] # None /\ j.has["d"] # Junk /\ j.has["d"].of = pub.id /\ j.has["d"].len = Keys!Size[pub.curve]
    BY ONLY <2>1, <2>2, <2>3, PartIs
  <2>5. Keys!PrivateOf(j, pub)
    BY ONLY <2>1, <2>2, <2>4 DEF Keys!PrivateOf, Keys!Belongs
  <2>6. j.kty # "oct" /\ j.has["d"] # None
    BY ONLY <2>1, <2>4
  <2> QED BY <1>0, <1>1, <2>5, <2>6 DEF Keys!KeyFromJWK, Labelled, Named
<1>4. CASE Ed(pub)
  <2>1. pub.type = "ed25519" /\ pub.id \in Nat /\ j.kty = "OKP" /\ 32 \in Nat
    BY <1>4 DEF Spells, Rsa, Ec, Ed
  <2>3. j.has["d"] = Keys!Part(32, pub.id)
    BY <2>1 DEF Halves
  <2>4. j.has["d"] # None /\ j.has["d"] # Junk /\ j.has["d"].of = pub.id /\ j.has["d"].len = 32
    BY ONLY <2>1, <2>3, PartIs
  <2>5. Keys!PrivateOf(j, pub)
    BY ONLY <2>1, <2>4 DEF Keys!PrivateOf, Keys!Belongs, Keys!Ed25519Size
  <2>6. j.kty # "oct" /\ j.has["d"] # None
    BY ONLY <2>1, <2>4
  <2> QED BY <1>0, <1>1, <2>5, <2>6 DEF Keys!KeyFromJWK, Labelled, Named
<1> QED BY <1>2, <1>3, <1>4 DEF Fits

\* A key that was read: a secret, or a public key and perhaps its private half.
Whole(k) ==
    /\ k = [kind |-> k.kind, public |-> k.public, private |-> k.private, secret |-> k.secret, kid |-> k.kid, alg |-> k.alg, use |-> k.use]
    /\ k.private \in BOOLEAN /\ k.kid \in Words /\ k.alg \in Words /\ k.use \in Words
    /\ \/ k.kind = "secret" /\ k.private = FALSE /\ k.secret \in Parts
       \/ k.kind = k.public.type /\ k.secret = None /\ Fits(k.public, k.private)

\* A key of a public half that fits is whole.
LEMMA KeyIs ==
    ASSUME NEW pub, NEW private, private \in BOOLEAN, Fits(pub, private)
    PROVE  Whole(Keys!Key(pub, private)) /\ Keys!Key(pub, private).private = private /\ Keys!Key(pub, private).public = pub
<1> DEFINE k == Keys!Key(pub, private)
<1>1. k = [kind |-> pub.type, public |-> pub, private |-> private, secret |-> None, kid |-> "", alg |-> "", use |-> ""]
  BY DEF Keys!Key
<1>2. k.kind = pub.type /\ k.public = pub /\ k.private = private /\ k.secret = None /\ k.kid = "" /\ k.alg = "" /\ k.use = ""
  <2> HIDE DEF k
  <2> QED BY ONLY <1>1
<1> HIDE DEF k
<1>3. "" \in Words
  BY DEF Words
<1>4. k = [kind |-> k.kind, public |-> k.public, private |-> k.private, secret |-> k.secret, kid |-> k.kid, alg |-> k.alg, use |-> k.use]
  BY ONLY <1>1, <1>2
<1>5. k.kid \in Words /\ k.alg \in Words /\ k.use \in Words /\ k.private \in BOOLEAN
  BY <1>2, <1>3
<1>6. k.kind = k.public.type /\ k.secret = None /\ Fits(k.public, k.private)
  BY <1>2
<1> QED BY <1>2, <1>4, <1>5, <1>6 DEF Whole, k

\* Labels change nothing else.
LEMMA NamedIs ==
    ASSUME NEW k, NEW kind, NEW public, NEW private, NEW secret, NEW id, NEW al, NEW us, NEW kid, NEW alg, NEW use,
           k = [kind |-> kind, public |-> public, private |-> private, secret |-> secret, kid |-> id, alg |-> al, use |-> us]
    PROVE  Named(k, kid, alg, use)
             = [kind |-> kind, public |-> public, private |-> private, secret |-> secret, kid |-> kid, alg |-> alg, use |-> use]
<1> DEFINE kidded == [k EXCEPT !.kid = kid]
           titled == [kidded EXCEPT !.alg = alg]
<1>1. kidded = [kind |-> kind, public |-> public, private |-> private, secret |-> secret, kid |-> kid, alg |-> al, use |-> us]
  OBVIOUS
<1>2. Named(k, kid, alg, use) = [titled EXCEPT !.use = use]
  BY ONLY DEF Named
<1> HIDE DEF kidded
<1>3. titled = [kind |-> kind, public |-> public, private |-> private, secret |-> secret, kid |-> kid, alg |-> alg, use |-> us]
  BY ONLY <1>1
<1> HIDE DEF titled
<1>4. [titled EXCEPT !.use = use]
        = [kind |-> kind, public |-> public, private |-> private, secret |-> secret, kid |-> kid, alg |-> alg, use |-> use]
  BY ONLY <1>3
<1> QED BY <1>2, <1>4

\* A key keeps what it is under another's labels.
LEMMA LabelsKeep ==
    ASSUME NEW k, Whole(k), NEW j, j.kid \in Words, j.alg \in Words, j.use \in Words
    PROVE  /\ Whole(Labelled(k, j))
           /\ Labelled(k, j).kind = k.kind /\ Labelled(k, j).public = k.public /\ Labelled(k, j).private = k.private
           /\ Labelled(k, j).secret = k.secret
<1> DEFINE l == Labelled(k, j)
<1>1. l = [kind |-> k.kind, public |-> k.public, private |-> k.private, secret |-> k.secret, kid |-> j.kid, alg |-> j.alg, use |-> j.use]
  <2>1. k = [kind |-> k.kind, public |-> k.public, private |-> k.private, secret |-> k.secret, kid |-> k.kid, alg |-> k.alg, use |-> k.use]
    BY DEF Whole
  <2>2. Named(k, j.kid, j.alg, j.use)
          = [kind |-> k.kind, public |-> k.public, private |-> k.private, secret |-> k.secret, kid |-> j.kid, alg |-> j.alg, use |-> j.use]
    BY ONLY <2>1, NamedIs
  <2> QED BY <2>2 DEF Labelled
<1> HIDE DEF l
<1>2. l.kind = k.kind /\ l.public = k.public /\ l.private = k.private /\ l.secret = k.secret /\ l.kid = j.kid /\ l.alg = j.alg /\ l.use = j.use
  BY <1>1
<1>3. l = [kind |-> l.kind, public |-> l.public, private |-> l.private, secret |-> l.secret, kid |-> l.kid, alg |-> l.alg, use |-> l.use]
  BY ONLY <1>1, <1>2
<1>4. l.private \in BOOLEAN /\ l.kid \in Words /\ l.alg \in Words /\ l.use \in Words
  BY <1>2 DEF Whole
<1>5. \/ l.kind = "secret" /\ l.private = FALSE /\ l.secret \in Parts
      \/ l.kind = l.public.type /\ l.secret = None /\ Fits(l.public, l.private)
  BY <1>2 DEF Whole
<1> QED BY <1>2, <1>3, <1>4, <1>5 DEF Whole, l

\* The key in a block or on a line, if it can sign, is one,
LEMMA SigningFits ==
    ASSUME NEW pub \in Publics, Keys!Signs(pub), NEW private, private \in BOOLEAN
    PROVE  Fits(pub, private)
<1>1. CASE pub \in [type : {"rsa"}, curve : {""}, bits : Nat, e : Nat \ {0}, id : Nat]
  <2>1. pub = [type |-> pub.type, curve |-> pub.curve, bits |-> pub.bits, e |-> pub.e, id |-> pub.id]
    BY <1>1
  <2>2. Rsa(pub)
    BY <1>1 DEF Rsa, Keys!Signs
  <2> QED BY <2>1, <2>2 DEF Fits, Keys!Public
<1>2. CASE pub \in [type : {"ec"}, curve : STRING, bits : {0}, e : {0}, id : 1..Order - 1]
  <2>1. pub = [type |-> pub.type, curve |-> pub.curve, bits |-> pub.bits, e |-> pub.e, id |-> pub.id]
    BY <1>2
  <2>2. pub.type = "ec" /\ pub.curve \in STRING /\ pub.bits = 0 /\ pub.e = 0 /\ pub.id \in 1..Order - 1
    BY <1>2
  <2>3. pub.id \in Nat \ {0}
    BY ONLY <2>2, KeyLimitsAreNumbers
  <2>4. Ec(pub, private)
    BY <2>2, <2>3 DEF Ec
  <2> QED BY <2>1, <2>4 DEF Fits, Keys!Public
<1>3. CASE pub \in [type : {"ed25519", "ecdh"}, curve : {""}, bits : {0}, e : {0}, id : Nat]
  <2>1. pub = [type |-> pub.type, curve |-> pub.curve, bits |-> pub.bits, e |-> pub.e, id |-> pub.id]
    BY <1>3
  <2>2. Ed(pub)
    BY <1>3 DEF Ed, Keys!Signs
  <2> QED BY <2>1, <2>2 DEF Fits, Keys!Public
<1> QED BY <1>1, <1>2, <1>3 DEF Publics

\* alone
LEMMA PublicReads ==
    ASSUME NEW pub \in Publics, Keys!KeyFromPublic(pub) # None
    PROVE  Whole(Keys!KeyFromPublic(pub))
<1>1. Keys!Signs(pub) /\ Keys!KeyFromPublic(pub) = Keys!Key(pub, FALSE)
  BY DEF Keys!KeyFromPublic
<1>2. Fits(pub, FALSE)
  BY <1>1, SigningFits
<1>3. Whole(Keys!Key(pub, FALSE))
  BY <1>2, KeyIs
<1> QED BY <1>1, <1>3

\* or with its private half:
LEMMA PrivateReads ==
    ASSUME NEW pub \in Publics, Keys!KeyFromPrivate(pub) # None
    PROVE  Whole(Keys!KeyFromPrivate(pub))
<1>1. Keys!Signs(pub) /\ Keys!KeyFromPrivate(pub) = Keys!Key(pub, TRUE)
  BY DEF Keys!KeyFromPrivate
<1>2. Fits(pub, TRUE)
  BY <1>1, SigningFits
<1>3. Whole(Keys!Key(pub, TRUE))
  BY <1>2, KeyIs
<1> QED BY <1>1, <1>3

\* so in a PEM block
LEMMA PemReads ==
    ASSUME NEW b \in [type : STRING, encrypted : BOOLEAN, len : Nat, holds : Publics \cup {None}],
           Keys!KeyFromPEM(b) # None, Keys!KeyFromPEM(b).kind # Keys!Skipped
    PROVE  Whole(Keys!KeyFromPEM(b))
<1>1. b.holds \in Publics /\ (Keys!KeyFromPEM(b) = Keys!KeyFromPrivate(b.holds) \/ Keys!KeyFromPEM(b) = Keys!KeyFromPublic(b.holds))
  BY DEF Keys!KeyFromPEM
<1> QED BY <1>1, PublicReads, PrivateReads

\* and on an authorized_keys line,
LEMMA SshReads ==
    ASSUME NEW line \in [type : STRING, holds : Publics \cup {None}], Keys!KeyFromOpenSSH(line) # None
    PROVE  Whole(Keys!KeyFromOpenSSH(line))
<1>1. line.holds \in Publics /\ Keys!KeyFromOpenSSH(line) = Keys!KeyFromPublic(line.holds)
  BY DEF Keys!KeyFromOpenSSH
<1> QED BY <1>1, PublicReads

(* what a JWK is under labels and with a private half,                     *)

\* A member of a JWK that decodes is a part.
LEMMA NumberIs ==
    ASSUME NEW j \in Jwks, NEW m \in Keys!JwkMembers, j.has[m] # Junk
    PROVE  Keys!Number(j, m) \in Parts /\ Keys!Number(j, m).len \in Nat /\ Keys!Number(j, m).of \in Nat
           /\ (j.has[m] # None => Keys!Number(j, m) = j.has[m])
<1>1. j.has[m] \in Parts \cup {None}
  BY DEF Jwks
<1>2. Keys!Part(0, 0) \in Parts
  BY PartIs
<1>3. Keys!Number(j, m) \in Parts
  BY <1>1, <1>2 DEF Keys!Number
<1>4. \A p \in Parts : p.len \in Nat /\ p.of \in Nat
  BY DEF Parts
<1> QED BY <1>3, <1>4 DEF Keys!Number

\* What the members of a JWK are read as is a public key that can sign,
LEMMA MembersFit ==
    ASSUME NEW j \in Jwks, Keys!PublicOf(j) # None
    PROVE  Fits(Keys!PublicOf(j), FALSE) /\ Keys!PublicOf(j).id \in Nat
           /\ Keys!PublicOf(j).type = (IF j.kty = "RSA" THEN "rsa" ELSE IF j.kty = "EC" THEN "ec" ELSE "ed25519")
           /\ j.kty \in {"RSA", "EC", "OKP"}
<1> DEFINE pub == Keys!PublicOf(j)
           n == Keys!Number(j, "n")
           e == Keys!Number(j, "e")
           x == Keys!Number(j, "x")
<1>0. Keys!JwkMembers = {"n", "e", "x", "y", "k", "d", "p", "q"}
  BY DEF Keys!JwkMembers
<1>1. CASE j.kty = "RSA"
  <2>1. /\ Keys!Decodes(j, {"n", "e"}) /\ e.of \in 3..MaxExponent /\ n.len <= MaxRSABits
        /\ pub = Keys!Public("rsa", "", n.len, e.of, n.of)
    BY <1>1 DEF Keys!PublicOf
  <2>2. n.len \in Nat /\ n.of \in Nat
    BY <1>0, <2>1, NumberIs DEF Keys!Decodes
  <2>3. pub = [type |-> "rsa", curve |-> "", bits |-> n.len, e |-> e.of, id |-> n.of]
    BY <2>1 DEF Keys!Public
  <2> HIDE DEF pub, n, e
  <2>4. pub.type = "rsa" /\ pub.curve = "" /\ pub.bits = n.len /\ pub.e = e.of /\ pub.id = n.of
    BY ONLY <2>3
  <2>5. Rsa(pub)
    <3>0. pub.e \in 3..MaxExponent
      BY <2>1, <2>4
    <3>1. pub.e \in Nat
      BY ONLY <3>0, KeyLimitsAreNumbers
    <3> QED BY <2>1, <2>2, <2>4, <3>1 DEF Rsa
  <2>6. pub = Keys!Public(pub.type, pub.curve, pub.bits, pub.e, pub.id)
    BY <2>3, <2>4 DEF Keys!Public
  <2>7. Fits(pub, FALSE)
    BY <2>5, <2>6 DEF Fits
  <2> QED BY <1>1, <2>2, <2>4, <2>7 DEF pub
<1>2. CASE j.kty = "EC"
  <2>1. /\ Keys!Decodes(j, {"x", "y"}) /\ x.of # 0 /\ pub = Keys!Public("ec", j.crv, 0, 0, x.of)
    BY <1>2 DEF Keys!PublicOf
  <2>2. x.of \in Nat \ {0}
    BY <1>0, <2>1, NumberIs DEF Keys!Decodes
  <2>3. pub = [type |-> "ec", curve |-> j.crv, bits |-> 0, e |-> 0, id |-> x.of] /\ j.crv \in STRING
    BY <2>1 DEF Keys!Public, Jwks
  <2> HIDE DEF pub, x
  <2>4. pub.type = "ec" /\ pub.curve = j.crv /\ pub.bits = 0 /\ pub.e = 0 /\ pub.id = x.of
    BY ONLY <2>3
  <2>5. Ec(pub, FALSE)
    BY <2>2, <2>3, <2>4 DEF Ec
  <2>6. pub = Keys!Public(pub.type, pub.curve, pub.bits, pub.e, pub.id)
    BY <2>3, <2>4 DEF Keys!Public
  <2>7. Fits(pub, FALSE)
    BY <2>5, <2>6 DEF Fits
  <2> QED BY <1>2, <2>2, <2>4, <2>7 DEF pub
<1>3. CASE j.kty = "OKP"
  <2>1. /\ j.has["x"] # Junk /\ pub = Keys!Public("ed25519", "", 0, 0, x.of)
    <3>1. Keys!Number(j, "x") # Junk
      BY <1>3 DEF Keys!PublicOf
    <3>2. j.has["x"] # Junk
      BY <3>1, NoneIsNoKey DEF Keys!Number
    <3> QED BY <1>3, <3>2 DEF Keys!PublicOf
  <2>2. x.of \in Nat
    BY <1>0, <2>1, NumberIs
  <2>3. pub = [type |-> "ed25519", curve |-> "", bits |-> 0, e |-> 0, id |-> x.of]
    BY <2>1 DEF Keys!Public
  <2> HIDE DEF pub, x
  <2>4. pub.type = "ed25519" /\ pub.curve = "" /\ pub.bits = 0 /\ pub.e = 0 /\ pub.id = x.of
    BY ONLY <2>3
  <2>5. Ed(pub)
    BY <2>2, <2>4 DEF Ed
  <2>6. pub = Keys!Public(pub.type, pub.curve, pub.bits, pub.e, pub.id)
    BY <2>3, <2>4 DEF Keys!Public
  <2>7. Fits(pub, FALSE)
    BY <2>5, <2>6 DEF Fits
  <2> QED BY <1>3, <2>2, <2>4, <2>7 DEF pub
<1>4. j.kty \in {"RSA", "EC", "OKP"}
  BY DEF Keys!PublicOf
<1> QED BY <1>1, <1>2, <1>3, <1>4

\* and the private half that is let through is its own.
LEMMA HalvesFit ==
    ASSUME NEW j \in Jwks, Keys!PublicOf(j) # None, j.has["d"] # None, Keys!PrivateOf(j, Keys!PublicOf(j))
    PROVE  Fits(Keys!PublicOf(j), TRUE) /\ j.has["d"].of = Keys!PublicOf(j).id
<1> DEFINE pub == Keys!PublicOf(j)
<1>1. Fits(pub, FALSE) /\ pub.type = (IF j.kty = "RSA" THEN "rsa" ELSE IF j.kty = "EC" THEN "ec" ELSE "ed25519") /\ j.kty \in {"RSA", "EC", "OKP"}
  BY MembersFit
<1> HIDE DEF pub
<1>2. Keys!PrivateOf(j, pub)
  BY DEF pub
<1>3. j.has["d"].of = pub.id /\ (j.kty = "EC" => j.has["d"].of \in 1..Order - 1)
  BY <1>1, <1>2 DEF Keys!PrivateOf, Keys!Belongs
<1>4. Rsa(pub) \/ Ec(pub, FALSE) \/ Ed(pub)
  BY <1>1 DEF Fits
<1>5. Ec(pub, FALSE) => Ec(pub, TRUE)
  BY <1>1, <1>3 DEF Ec
<1>6. Fits(pub, TRUE)
  BY <1>1, <1>4, <1>5 DEF Fits
<1> QED BY <1>3, <1>6 DEF pub

\* A JWK that reads is a key, whose private half is its own.
LEMMA JwkReads ==
    ASSUME NEW j \in Jwks, Keys!KeyFromJWK(j) # None
    PROVE  /\ Whole(Keys!KeyFromJWK(j)) /\ Keys!KeyFromJWK(j).kind # Keys!Skipped
           /\ Keys!KeyFromJWK(j).private => j.has["d"].of = Keys!KeyFromJWK(j).public.id
<1> DEFINE pub == Keys!PublicOf(j)
<1>0. j.kid \in Words /\ j.alg \in Words /\ j.use \in Words
  BY DEF Jwks, Words
<1>1. CASE j.kty = "oct"
  <2> DEFINE secret == Keys!Number(j, "k")
             none == Keys!Public("secret", "", 0, 0, 0)
             base == Keys!Key(Keys!Public("secret", "", 0, 0, 0), FALSE)
             k == [base EXCEPT !.secret = secret]
             no == FALSE
             blank == ""
  <2>1. j.has["k"] # Junk /\ Keys!KeyFromJWK(j) = Labelled(k, j)
    BY <1>1 DEF Keys!KeyFromJWK, Labelled, Named
  <2>2. secret \in Parts
    BY <2>1, NumberIs DEF Keys!JwkMembers
  <2>3. base = [kind |-> "secret", public |-> none, private |-> no, secret |-> None, kid |-> blank, alg |-> blank, use |-> blank]
    BY DEF Keys!Key, Keys!Public
  <2> HIDE DEF base, secret, none, no, blank
  <2>4. k = [kind |-> "secret", public |-> none, private |-> no, secret |-> secret, kid |-> blank, alg |-> blank, use |-> blank]
    BY ONLY <2>3
  <2> HIDE DEF k
  <2>5. k.kind = "secret" /\ k.public = none /\ k.private = no /\ k.secret = secret /\ k.kid = blank /\ k.alg = blank /\ k.use = blank
    BY ONLY <2>4
  <2>6. k = [kind |-> k.kind, public |-> k.public, private |-> k.private, secret |-> k.secret, kid |-> k.kid, alg |-> k.alg, use |-> k.use]
    BY ONLY <2>4, <2>5
  <2>7. k.kid \in Words /\ k.alg \in Words /\ k.use \in Words /\ k.private \in BOOLEAN
    BY <2>5 DEF Words, no, blank
  <2>8. Whole(k) /\ k.private = FALSE
    BY <2>2, <2>5, <2>6, <2>7 DEF Whole, no
  <2>9. Whole(Labelled(k, j)) /\ Labelled(k, j).kind = k.kind /\ Labelled(k, j).private = k.private
    BY <1>0, <2>8, LabelsKeep
  <2> QED BY <2>1, <2>5, <2>8, <2>9 DEF Keys!Skipped
<1>2. CASE j.kty # "oct" /\ j.has["d"] = None
  <2>1. pub # None /\ Keys!KeyFromJWK(j) = Labelled(Keys!Key(pub, FALSE), j)
    BY <1>2 DEF Keys!KeyFromJWK, Labelled, Named
  <2>2. Fits(pub, FALSE) /\ pub.type # Keys!Skipped
    BY <2>1, MembersFit DEF Keys!Skipped
  <2> HIDE DEF pub
  <2> DEFINE k == Keys!Key(pub, FALSE)
  <2>3. Whole(k) /\ k.private = FALSE
    BY <2>2, KeyIs
  <2>4. k.kind = pub.type
    BY DEF Keys!Key
  <2> HIDE DEF k
  <2>9. Whole(Labelled(k, j)) /\ Labelled(k, j).kind = k.kind /\ Labelled(k, j).private = k.private
    BY <1>0, <2>3, LabelsKeep
  <2> QED BY <2>1, <2>2, <2>3, <2>4, <2>9 DEF k
<1>3. CASE j.kty # "oct" /\ j.has["d"] # None
  <2>1. pub # None /\ Keys!PrivateOf(j, pub) /\ Keys!KeyFromJWK(j) = Labelled(Keys!Key(pub, TRUE), j)
    BY <1>3 DEF Keys!KeyFromJWK, Labelled, Named
  <2>2. pub.type # Keys!Skipped
    BY <2>1, MembersFit DEF Keys!Skipped
  <2>3. Fits(pub, TRUE) /\ j.has["d"].of = pub.id
    BY <1>3, <2>1, HalvesFit
  <2> HIDE DEF pub
  <2> DEFINE k == Keys!Key(pub, TRUE)
  <2>4. Whole(k) /\ k.public = pub
    BY <2>3, KeyIs
  <2>5. k.kind = pub.type
    BY DEF Keys!Key
  <2> HIDE DEF k
  <2>9. Whole(Labelled(k, j)) /\ Labelled(k, j).kind = k.kind /\ Labelled(k, j).public = k.public
    BY <1>0, <2>4, LabelsKeep
  <2> QED BY <2>1, <2>2, <2>3, <2>4, <2>5, <2>9 DEF k
<1> QED BY <1>1, <1>2, <1>3

\* A JWK with nothing said of it, under labels.
Titled(j, kid, alg, use) == [j EXCEPT !.kid = kid, !.alg = alg, !.use = use]
Untitled(j) == j = [kty |-> j.kty, crv |-> j.crv, kid |-> j.kid, alg |-> j.alg, use |-> j.use, has |-> j.has]

\* Labels change nothing else.
LEMMA TitledIs ==
    ASSUME NEW j, Untitled(j), NEW kid, NEW alg, NEW use
    PROVE  LET l == Titled(j, kid, alg, use) IN
           /\ l = [kty |-> j.kty, crv |-> j.crv, kid |-> kid, alg |-> alg, use |-> use, has |-> j.has]
           /\ l.kty = j.kty /\ l.crv = j.crv /\ l.has = j.has /\ l.kid = kid /\ l.alg = alg /\ l.use = use
<1> DEFINE l == Titled(j, kid, alg, use)
           kidded == [j EXCEPT !.kid = kid]
           named == [kidded EXCEPT !.alg = alg]
<1>1. j = [kty |-> j.kty, crv |-> j.crv, kid |-> j.kid, alg |-> j.alg, use |-> j.use, has |-> j.has]
  BY DEF Untitled
<1>2. kidded = [kty |-> j.kty, crv |-> j.crv, kid |-> kid, alg |-> j.alg, use |-> j.use, has |-> j.has]
  BY ONLY <1>1
<1>5. l = [named EXCEPT !.use = use]
  BY ONLY DEF Titled
<1> HIDE DEF kidded
<1>3. named = [kty |-> j.kty, crv |-> j.crv, kid |-> kid, alg |-> alg, use |-> j.use, has |-> j.has]
  BY ONLY <1>2
<1> HIDE DEF named
<1>4. [named EXCEPT !.use = use] = [kty |-> j.kty, crv |-> j.crv, kid |-> kid, alg |-> alg, use |-> use, has |-> j.has]
  BY ONLY <1>3
<1> HIDE DEF l
<1>6. l = [kty |-> j.kty, crv |-> j.crv, kid |-> kid, alg |-> alg, use |-> use, has |-> j.has]
  BY ONLY <1>4, <1>5
<1>7. l.kty = j.kty /\ l.crv = j.crv /\ l.has = j.has /\ l.kid = kid /\ l.alg = alg /\ l.use = use
  BY ONLY <1>6
<1> QED BY <1>6, <1>7 DEF l

\* The members that make a key make its thumbprint.
LEMMA ThumbprintOf ==
    ASSUME NEW j, NEW l, l.kty = j.kty, l.crv = j.crv, \A m \in {"n", "e", "x", "y", "k"} : l.has[m] = j.has[m]
    PROVE  Keys!JWKThumbprint(l) = Keys!JWKThumbprint(j)
<1> DEFINE Members(kty) == CASE kty = "RSA" -> {"e", "n"} [] kty = "EC" -> {"x", "y"} [] kty = "OKP" -> {"x"} [] OTHER -> {"k"}
           members == Members(j.kty)
<1>1. members \subseteq {"n", "e", "x", "y", "k"}
  OBVIOUS
<1>2. Keys!JWKThumbprint(j) = IF \E m \in members : j.has[m] = None THEN None ELSE <<j.kty, j.crv, [m \in members |-> j.has[m]]>>
  BY DEF Keys!JWKThumbprint
<1>3. Keys!JWKThumbprint(l) = IF \E m \in members : l.has[m] = None THEN None ELSE <<l.kty, l.crv, [m \in members |-> l.has[m]]>>
  BY DEF Keys!JWKThumbprint
<1> HIDE DEF members
<1>4. \A m \in members : l.has[m] = j.has[m]
  BY <1>1
<1>5. [m \in members |-> l.has[m]] = [m \in members |-> j.has[m]]
  BY <1>4
<1> QED BY <1>2, <1>3, <1>4, <1>5

\* A thumbprint is of words and parts.
LEMMA ThumbprintType ==
    ASSUME NEW j, NEW pub, Wrote(j, pub), Keys!JWKThumbprint(j) # None
    PROVE  Keys!JWKThumbprint(j) \in Thumbprints
<1> DEFINE members == CASE j.kty = "RSA" -> {"e", "n"} [] j.kty = "EC" -> {"x", "y"} [] j.kty = "OKP" -> {"x"} [] OTHER -> {"k"}
<1>1. members \in SUBSET Keys!JwkMembers
  BY DEF Keys!JwkMembers
<1>2. Keys!JWKThumbprint(j) = <<j.kty, j.crv, [m \in members |-> j.has[m]]>> /\ \A m \in members : j.has[m] # None
  BY DEF Keys!JWKThumbprint
<1>3. j.has \in [Keys!JwkMembers -> Parts \cup {None}] /\ j.kty \in {"RSA", "EC", "OKP"} /\ j.crv \in Words
  BY DEF Wrote
<1>4. j.kty \in Words
  BY ONLY <1>3 DEF Words
<1> HIDE DEF members
<1>5. [m \in members |-> j.has[m]] \in [members -> Parts]
  BY <1>1, <1>2, <1>3
<1>6. [m \in members |-> j.has[m]] \in UNION {[S -> Parts] : S \in SUBSET Keys!JwkMembers}
  BY <1>1, <1>5
<1> QED BY <1>2, <1>3, <1>4, <1>6 DEF Thumbprints

\* Under labels a JWK spells the same key and has its thumbprint.
LEMMA TitledSpells ==
    ASSUME NEW j, NEW pub, Wrote(j, pub), NEW kid \in Words \cup Thumbprints, NEW alg \in Words, NEW use \in Words
    PROVE  LET l == Titled(j, kid, alg, use) IN
           /\ l # None /\ Spells(l, pub) /\ l.has = j.has /\ Keys!JWKThumbprint(l) = Keys!JWKThumbprint(j)
           /\ Halves(j, pub) => Halves(l, pub)
<1> DEFINE l == Titled(j, kid, alg, use)
<1>1. /\ j = [kty |-> j.kty, crv |-> j.crv, kid |-> "", alg |-> "", use |-> "", has |-> j.has] /\ Spells(j, pub)
      /\ j.has \in [Keys!JwkMembers -> Parts \cup {None}] /\ j.kty \in {"RSA", "EC", "OKP"} /\ j.crv \in Words
  BY DEF Wrote
<1>2. Untitled(j)
  <2>1. \A a, b, c, d, e, f :
           LET r == [kty |-> a, crv |-> b, kid |-> c, alg |-> d, use |-> e, has |-> f] IN Untitled(r)
    BY DEF Untitled
  <2> QED BY <1>1, <2>1
<1>3. /\ l = [kty |-> j.kty, crv |-> j.crv, kid |-> kid, alg |-> alg, use |-> use, has |-> j.has]
      /\ l.kty = j.kty /\ l.crv = j.crv /\ l.has = j.has
  BY <1>2, TitledIs
<1> HIDE DEF l
<1>4. j.kty \in Words
  BY ONLY <1>1 DEF Words
<1>5. l \in [kty : Words, crv : Words, kid : Words \cup Thumbprints, alg : Words, use : Words, has : [Keys!JwkMembers -> Parts \cup {None}]]
  BY ONLY <1>1, <1>3, <1>4
<1>6. l # None
  BY <1>5, NoneIsNoKey
<1>7. Spells(l, pub)
  BY <1>1, <1>3 DEF Spells
<1>8. Keys!JWKThumbprint(l) = Keys!JWKThumbprint(j)
  BY <1>3, ThumbprintOf
<1>9. Halves(j, pub) => Halves(l, pub)
  BY <1>3 DEF Halves
<1> QED BY <1>3, <1>6, <1>7, <1>8, <1>9 DEF l

(* and what a key is shown as.                                             *)

\* A JWK with one member written over, and with three.
Over(j, m, x) == [j EXCEPT !.has = [j.has EXCEPT ![m] = x]]
LEMMA MemberWritten ==
    ASSUME NEW j, Untitled(j), NEW m, NEW x
    PROVE  LET l == Over(j, m, x) IN
           /\ Untitled(l) /\ l.kty = j.kty /\ l.crv = j.crv /\ l.kid = j.kid /\ l.alg = j.alg /\ l.use = j.use
           /\ l.has = [j.has EXCEPT ![m] = x]
<1> DEFINE has == [j.has EXCEPT ![m] = x]
           l == Over(j, m, x)
<1>1. j = [kty |-> j.kty, crv |-> j.crv, kid |-> j.kid, alg |-> j.alg, use |-> j.use, has |-> j.has]
  BY DEF Untitled
<1>2. l = [j EXCEPT !.has = has]
  BY ONLY DEF Over
<1> HIDE DEF has, l
<1>3. l = [kty |-> j.kty, crv |-> j.crv, kid |-> j.kid, alg |-> j.alg, use |-> j.use, has |-> has]
  BY ONLY <1>1, <1>2
<1>4. l.kty = j.kty /\ l.crv = j.crv /\ l.kid = j.kid /\ l.alg = j.alg /\ l.use = j.use /\ l.has = has
  BY ONLY <1>3
<1>5. l = [kty |-> l.kty, crv |-> l.crv, kid |-> l.kid, alg |-> l.alg, use |-> l.use, has |-> l.has]
  BY ONLY <1>3, <1>4
<1> QED BY <1>4, <1>5 DEF Untitled, has, l

Values == Parts \cup {None}
Filled(j, d, p, q) == [j EXCEPT !.has["d"] = d, !.has["p"] = p, !.has["q"] = q]

\* Three members are written, the others kept.
LEMMA MembersWritten ==
    ASSUME NEW j, Untitled(j), j.has \in [Keys!JwkMembers -> Values],
           NEW d \in Values, NEW p \in Values, NEW q \in Values
    PROVE  LET l == Filled(j, d, p, q) IN
           /\ Untitled(l) /\ l.kty = j.kty /\ l.crv = j.crv /\ l.kid = j.kid /\ l.alg = j.alg /\ l.use = j.use
           /\ l.has \in [Keys!JwkMembers -> Values] /\ l.has["d"] = d /\ l.has["p"] = p /\ l.has["q"] = q
           /\ \A m \in {"n", "e", "x", "y", "k"} : l.has[m] = j.has[m]
<1> DEFINE l == Filled(j, d, p, q)
           a == Over(j, "d", d)
           b == Over(a, "p", p)
           c == Over(b, "q", q)
<1>1. l = c
  BY ONLY Zenon DEF Over, Filled
<1>0. Keys!JwkMembers = {"n", "e", "x", "y", "k", "d", "p", "q"}
  BY DEF Keys!JwkMembers
<1>2. /\ Untitled(a) /\ a.kty = j.kty /\ a.crv = j.crv /\ a.kid = j.kid /\ a.alg = j.alg /\ a.use = j.use
      /\ a.has = [j.has EXCEPT !["d"] = d]
  BY MemberWritten
<1> HIDE DEF a, l
<1>3. /\ Untitled(b) /\ b.kty = a.kty /\ b.crv = a.crv /\ b.kid = a.kid /\ b.alg = a.alg /\ b.use = a.use
      /\ b.has = [a.has EXCEPT !["p"] = p]
  BY ONLY <1>2, MemberWritten
<1> HIDE DEF b
<1>4. /\ Untitled(c) /\ c.kty = b.kty /\ c.crv = b.crv /\ c.kid = b.kid /\ c.alg = b.alg /\ c.use = b.use
      /\ c.has = [b.has EXCEPT !["q"] = q]
  <2>1. Untitled(b)
    BY <1>3
  <2> QED BY ONLY <2>1, MemberWritten
<1> HIDE DEF c
<1>5. a.has \in [Keys!JwkMembers -> Values] /\ a.has["d"] = d /\ \A m \in Keys!JwkMembers \ {"d"} : a.has[m] = j.has[m]
  BY ONLY <1>0, <1>2, j.has \in [Keys!JwkMembers -> Values], d \in Values
<1>6. b.has \in [Keys!JwkMembers -> Values] /\ b.has["p"] = p /\ \A m \in Keys!JwkMembers \ {"p"} : b.has[m] = a.has[m]
  BY ONLY <1>0, <1>3, <1>5, p \in Values
<1>7. c.has \in [Keys!JwkMembers -> Values] /\ c.has["q"] = q /\ \A m \in Keys!JwkMembers \ {"q"} : c.has[m] = b.has[m]
  BY ONLY <1>0, <1>4, <1>6, q \in Values
<1>8. c.has["d"] = d /\ c.has["p"] = p /\ \A m \in {"n", "e", "x", "y", "k"} : c.has[m] = j.has[m]
  BY ONLY <1>0, <1>5, <1>6, <1>7
<1>9. /\ Untitled(l) /\ l.kty = j.kty /\ l.crv = j.crv /\ l.kid = j.kid /\ l.alg = j.alg /\ l.use = j.use
      /\ l.has \in [Keys!JwkMembers -> Values] /\ l.has["d"] = d /\ l.has["p"] = p /\ l.has["q"] = q
      /\ \A m \in {"n", "e", "x", "y", "k"} : l.has[m] = j.has[m]
  BY ONLY <1>1, <1>2, <1>3, <1>4, <1>7, <1>8
<1> QED BY <1>9 DEF l

\* The private JWK of a key spells its public half and carries the private one.
LEMMA PrivateSpells ==
    ASSUME NEW pub, Fits(pub, TRUE), Keys!JWKThumbprint(Keys!PublicJWK(pub)) # None, ~Keys!HasManyPrimes(pub)
    PROVE  /\ Wrote(Keys!PrivateJWK(pub), pub) /\ Halves(Keys!PrivateJWK(pub), pub)
           /\ Keys!JWKThumbprint(Keys!PrivateJWK(pub)) = Keys!JWKThumbprint(Keys!PublicJWK(pub))
<1> DEFINE j == Keys!PublicJWK(pub)
           l == Keys!PrivateJWK(pub)
           d == Keys!Part(CASE pub.type = "rsa" -> pub.bits [] pub.type = "ec" -> Keys!Size[pub.curve] [] OTHER -> Keys!Ed25519Size, pub.id)
           prime == IF pub.type = "rsa" THEN Keys!Part(pub.bits \div 2, pub.id) ELSE None
<1>1. Wrote(j, pub)
  BY PublicSpells
<1>2. /\ j = [kty |-> j.kty, crv |-> j.crv, kid |-> "", alg |-> "", use |-> "", has |-> j.has] /\ Spells(j, pub)
      /\ j.has \in [Keys!JwkMembers -> Values] /\ j.kty \in {"RSA", "EC", "OKP"} /\ j.crv \in Words
  BY <1>1 DEF Wrote, Values
<1>3. l = Filled(j, d, prime, prime)
  BY DEF Keys!PrivateJWK, Filled
<1>4. d = Keys!Part(IF pub.type = "rsa" THEN pub.bits ELSE IF pub.type = "ec" THEN Keys!Size[pub.curve] ELSE 32, pub.id)
  BY DEF Keys!Ed25519Size
<1>5. d \in Parts /\ prime \in Values
  <2>1. CASE Rsa(pub)
    <3>1. pub.type = "rsa" /\ pub.bits \in Nat /\ pub.id \in Nat
      BY <2>1 DEF Rsa
    <3>2. pub.bits \div 2 \in Nat
      BY ONLY <3>1
    <3> QED BY ONLY <1>4, <3>1, <3>2, PartIs DEF Values
  <2>2. CASE Ec(pub, TRUE)
    <3>1. pub.type = "ec" /\ pub.id \in Nat /\ pub.curve \in DOMAIN Keys!Size
      BY <1>2, <2>2 DEF Spells, Rsa, Ec, Ed
    <3> QED BY ONLY <1>4, <3>1, SizeIs, PartIs DEF Values
  <2>3. CASE Ed(pub)
    <3>1. pub.type = "ed25519" /\ pub.id \in Nat /\ 32 \in Nat
      BY <2>3 DEF Ed
    <3> QED BY ONLY <1>4, <3>1, PartIs DEF Values
  <2> QED BY <2>1, <2>2, <2>3 DEF Fits
<1> HIDE DEF j, d, prime
<1>6. Untitled(j) /\ j.kid = "" /\ j.alg = "" /\ j.use = ""
  <2> DEFINE blank == ""
  <2>1. j = [kty |-> j.kty, crv |-> j.crv, kid |-> blank, alg |-> blank, use |-> blank, has |-> j.has]
    BY <1>2
  <2> HIDE DEF blank
  <2>2. j.kid = blank /\ j.alg = blank /\ j.use = blank
    BY ONLY <2>1
  <2>3. j = [kty |-> j.kty, crv |-> j.crv, kid |-> j.kid, alg |-> j.alg, use |-> j.use, has |-> j.has]
    BY ONLY <2>1, <2>2
  <2> QED BY <2>2, <2>3 DEF Untitled, blank
<1> HIDE DEF l
<1>7. /\ Untitled(l) /\ l.kty = j.kty /\ l.crv = j.crv /\ l.kid = j.kid /\ l.alg = j.alg /\ l.use = j.use
      /\ l.has \in [Keys!JwkMembers -> Values] /\ l.has["d"] = d /\ l.has["p"] = prime /\ l.has["q"] = prime
      /\ \A m \in {"n", "e", "x", "y", "k"} : l.has[m] = j.has[m]
  <2>1. d \in Values /\ prime \in Values
    BY <1>5 DEF Values
  <2>2. j.has \in [Keys!JwkMembers -> Values] /\ Untitled(j)
    BY <1>2, <1>6
  <2> QED BY ONLY <1>3, <2>1, <2>2, MembersWritten, SMTT(30)
<1>8. l.kid = "" /\ l.alg = "" /\ l.use = ""
  BY <1>6, <1>7
<1>9. l = [kty |-> l.kty, crv |-> l.crv, kid |-> "", alg |-> "", use |-> "", has |-> l.has]
  <2> DEFINE blank == ""
  <2>1. l.kid = blank /\ l.alg = blank /\ l.use = blank
    BY <1>8
  <2> HIDE DEF blank
  <2>2. l = [kty |-> l.kty, crv |-> l.crv, kid |-> blank, alg |-> blank, use |-> blank, has |-> l.has]
    BY <1>7, <2>1 DEF Untitled
  <2> QED BY <2>2 DEF blank
<1>10. Spells(l, pub)
  BY <1>2, <1>7 DEF Spells
<1>11. Wrote(l, pub)
  BY <1>2, <1>7, <1>9, <1>10 DEF Wrote, Values
<1>12. Halves(l, pub)
  BY <1>4, <1>7 DEF Halves, prime
<1>13. Keys!JWKThumbprint(l) = Keys!JWKThumbprint(j)
  BY <1>7, ThumbprintOf
<1> QED BY <1>11, <1>12, <1>13 DEF l, j

\* What was written is something.
LEMMA WroteIs ==
    ASSUME NEW j, NEW pub, Wrote(j, pub)
    PROVE  j # None
<1> DEFINE blank == ""
<1>1. j = [kty |-> j.kty, crv |-> j.crv, kid |-> blank, alg |-> blank, use |-> blank, has |-> j.has]
      /\ j.has \in [Keys!JwkMembers -> Parts \cup {None}] /\ j.kty \in Words /\ j.crv \in Words /\ blank \in Words
  BY DEF Wrote, Words
<1> HIDE DEF blank
<1>2. j \in [kty : Words, crv : Words, kid : Words \cup Thumbprints, alg : Words, use : Words,
              has : [Keys!JwkMembers -> Parts \cup {None}]]
  BY ONLY <1>1
<1> QED BY <1>2, NoneIsNoKey

\* The usual algorithm of a key that fits is a word.
LEMMA UsualIs ==
    ASSUME NEW pub, Fits(pub, FALSE)
    PROVE  Keys!UsualAlg(pub) \in Words
<1>1. pub.type \in {"rsa", "ec", "ed25519"}
  BY DEF Fits, Rsa, Ec, Ed
<1>2. {"RS256", "EdDSA", "ES256", "ES384", "ES512"} \subseteq Words
  BY DEF Words
<1>3. Keys!UsualAlg(pub) \in {"RS256", "EdDSA", "ES256", "ES384", "ES512"}
  BY ONLY <1>1 DEF Keys!UsualAlg
<1> QED BY <1>2, <1>3

\* A JWK that reads as a key, or as none if its exponent is out of range.
Says(j, pub, private) ==
    j # None /\ Keys!KeyFromJWK(j) = IF Keys!JwkTakes(pub) THEN Labelled(Keys!Key(pub, private), j) ELSE None

\* What a key is shown as.
LEMMA SecretView ==
    ASSUME NEW k, k.kind = "secret"
    PROVE  Keys!ViewKey(k).publicJWK = None /\ Keys!ViewKey(k).privateJWK = None
BY DEF Keys!ViewKey

\* The public form reads as the public half, the private one as the whole key.
LEMMA ViewIs ==
    ASSUME NEW k, Whole(k), k.kind # "secret", Keys!ViewKey(k) # None
    PROVE  LET v == Keys!ViewKey(k)
               thumbprint == Keys!JWKThumbprint(Keys!PublicJWK(k.public))
           IN  /\ Fits(k.public, k.private) /\ thumbprint # None /\ v.thumbprint = thumbprint
               /\ Says(v.publicJWK, k.public, FALSE) /\ Keys!JWKThumbprint(v.publicJWK) = thumbprint
               /\ \A m \in Keys!PrivateMembers : v.publicJWK.has[m] = None
               /\ k.private = FALSE \/ Keys!HasManyPrimes(k.public) => v.privateJWK = None
               /\ k.private = TRUE /\ ~Keys!HasManyPrimes(k.public) =>
                      Says(v.privateJWK, k.public, TRUE) /\ Keys!JWKThumbprint(v.privateJWK) = thumbprint
<1> DEFINE v == Keys!ViewKey(k)
           pub == k.public
           j == Keys!PublicJWK(pub)
           p == Keys!PrivateJWK(pub)
           thumbprint == Keys!JWKThumbprint(j)
           kid == IF k.kid = "" THEN thumbprint ELSE k.kid
           alg == IF k.alg = "" THEN Keys!UsualAlg(pub) ELSE k.alg
           shown == Titled(j, kid, alg, k.use)
           own == IF k.private THEN p ELSE None
           priv == IF own # None THEN Titled(own, kid, alg, k.use) ELSE None
<1>1. /\ thumbprint # None
      /\ v = [publicJWK |-> shown, thumbprint |-> thumbprint, privateJWK |-> priv, pem |-> k.private, openssh |-> shown # None]
  BY DEF Keys!ViewKey, Titled
<1>2. v.publicJWK = shown /\ v.thumbprint = thumbprint /\ v.privateJWK = priv
  <2> HIDE DEF v, shown, thumbprint, priv
  <2> QED BY ONLY <1>1
<1>3. Fits(pub, k.private) /\ k.private \in BOOLEAN /\ k.kid \in Words /\ k.alg \in Words /\ k.use \in Words
  BY DEF Whole
<1>4. Fits(pub, FALSE)
  BY ONLY <1>3, FitsIsAKey
<1>5. Keys!UsualAlg(pub) \in Words
  BY <1>4, UsualIs
<1>6. Wrote(j, pub) /\ \A m \in Keys!PrivateMembers : j.has[m] = None
  BY ONLY <1>1, <1>4, PublicSpells
<1>7. thumbprint \in Thumbprints
  BY ONLY <1>1, <1>6, ThumbprintType
<1>8. kid \in Words \cup Thumbprints /\ alg \in Words
  BY <1>3, <1>5, <1>7
<1> HIDE DEF kid, alg, pub, j, p, thumbprint, v
<1>9. /\ shown # None /\ Spells(shown, pub) /\ shown.has = j.has /\ Keys!JWKThumbprint(shown) = thumbprint
  BY ONLY <1>3, <1>6, <1>8, TitledSpells DEF thumbprint
<1> HIDE DEF shown
<1>10. Says(shown, pub, FALSE)
  <2>1. "d" \in Keys!PrivateMembers
    BY DEF Keys!PrivateMembers
  <2>2. shown.has["d"] = None
    BY <1>6, <1>9, <2>1
  <2> QED BY <1>4, <1>9, <2>2, ReadsPublic, ReadsNone DEF Says
<1>11. ASSUME k.private = TRUE, ~Keys!HasManyPrimes(pub) PROVE Says(priv, pub, TRUE) /\ Keys!JWKThumbprint(priv) = thumbprint
  <2> DEFINE l == Titled(p, kid, alg, k.use)
  <2>1. Fits(pub, TRUE)
    BY <1>3, <1>11
  <2>2. Wrote(p, pub) /\ Halves(p, pub) /\ Keys!JWKThumbprint(p) = thumbprint
    BY <1>1, <1>11, <2>1, PrivateSpells DEF p, j, thumbprint
  <2>3. l # None /\ Spells(l, pub) /\ Keys!JWKThumbprint(l) = thumbprint /\ Halves(l, pub)
    BY ONLY <1>3, <1>8, <2>2, TitledSpells
  <2> HIDE DEF l
  <2>4. Says(l, pub, TRUE)
    BY <1>4, <1>11, <2>1, <2>3, ReadsPrivate, ReadsNone DEF Says
  <2>5. p # None
    BY <2>2, WroteIs
  <2>6. priv = l
    BY <1>11, <2>5 DEF l
  <2> QED BY <2>3, <2>4, <2>6
<1>12. k.private = FALSE \/ Keys!HasManyPrimes(pub) => priv = None
  <2>1. Keys!HasManyPrimes(pub) => p = None
    BY DEF Keys!PrivateJWK, p
  <2> QED BY <2>1
<1> HIDE DEF priv
<1> QED BY <1>1, <1>2, <1>3, <1>6, <1>9, <1>10, <1>11, <1>12 DEF v, thumbprint, j, pub

(* A paste of several.                                                     *)

\* Without its labels a key that is read is the key,
LEMMA BareIs ==
    ASSUME NEW k, Whole(k), k.kind # "secret"
    PROVE  Bare(k) = Keys!Key(k.public, k.private)
<1> DEFINE blank == ""
<1>1. k = [kind |-> k.kind, public |-> k.public, private |-> k.private, secret |-> k.secret, kid |-> k.kid, alg |-> k.alg, use |-> k.use]
  BY DEF Whole
<1>2. k.kind = k.public.type /\ k.secret = None
  BY DEF Whole
<1>3. Keys!Key(k.public, k.private)
        = [kind |-> k.public.type, public |-> k.public, private |-> k.private, secret |-> None, kid |-> blank, alg |-> blank, use |-> blank]
  BY DEF Keys!Key
<1>4. Bare(k) = Named(k, blank, blank, blank)
  BY DEF Bare
<1> HIDE DEF blank
<1>5. Named(k, blank, blank, blank)
        = [kind |-> k.kind, public |-> k.public, private |-> k.private, secret |-> k.secret, kid |-> blank, alg |-> blank, use |-> blank]
  BY ONLY <1>1, NamedIs
<1> QED BY ONLY <1>2, <1>3, <1>4, <1>5

\* whatever they were,
LEMMA BareOfLabelled ==
    ASSUME NEW pub, NEW private, NEW j
    PROVE  Bare(Labelled(Keys!Key(pub, private), j)) = Keys!Key(pub, private)
<1> DEFINE k == Keys!Key(pub, private)
           blank == ""
           l == Labelled(k, j)
<1>1. k = [kind |-> pub.type, public |-> pub, private |-> private, secret |-> None, kid |-> blank, alg |-> blank, use |-> blank]
  BY DEF Keys!Key
<1>2. Bare(l) = Named(l, blank, blank, blank)
  BY DEF Bare
<1> HIDE DEF k, blank
<1>3. l = [kind |-> pub.type, public |-> pub, private |-> private, secret |-> None, kid |-> j.kid, alg |-> j.alg, use |-> j.use]
  BY ONLY <1>1, NamedIs DEF Labelled
<1> HIDE DEF l
<1>4. Named(l, blank, blank, blank)
        = [kind |-> pub.type, public |-> pub, private |-> private, secret |-> None, kid |-> blank, alg |-> blank, use |-> blank]
  BY ONLY <1>3, NamedIs
<1>5. Bare(l) = k
  BY ONLY <1>1, <1>2, <1>4
<1> QED BY <1>5 DEF l, k

\* and with or without its private half.
LEMMA BareSecret ==
    ASSUME NEW k, Whole(k)
    PROVE  Bare(k).private = k.private /\ Bare(k).public = k.public
<1> DEFINE blank == ""
<1>1. k = [kind |-> k.kind, public |-> k.public, private |-> k.private, secret |-> k.secret, kid |-> k.kid, alg |-> k.alg, use |-> k.use]
  BY DEF Whole
<1>2. Bare(k) = Named(k, blank, blank, blank)
  BY DEF Bare
<1> HIDE DEF blank
<1>3. Named(k, blank, blank, blank)
        = [kind |-> k.kind, public |-> k.public, private |-> k.private, secret |-> k.secret, kid |-> blank, alg |-> blank, use |-> blank]
  BY ONLY <1>1, NamedIs
<1> DEFINE b == Bare(k)
<1>4. b = [kind |-> k.kind, public |-> k.public, private |-> k.private, secret |-> k.secret, kid |-> blank, alg |-> blank, use |-> blank]
  BY ONLY <1>2, <1>3
<1> HIDE DEF b
<1>5. b.private = k.private /\ b.public = k.public
  BY ONLY <1>4
<1> QED BY <1>5 DEF b

\* The public half of a key is its public key.
LEMMA PublicHalf ==
    ASSUME NEW pub, NEW private
    PROVE  [Keys!Key(pub, private) EXCEPT !.private = FALSE] = Keys!Key(pub, FALSE)
<1> DEFINE k == Keys!Key(pub, private)
           blank == ""
           no == FALSE
<1>1. k = [kind |-> pub.type, public |-> pub, private |-> private, secret |-> None, kid |-> blank, alg |-> blank, use |-> blank]
  BY DEF Keys!Key
<1>2. Keys!Key(pub, no) = [kind |-> pub.type, public |-> pub, private |-> no, secret |-> None, kid |-> blank, alg |-> blank, use |-> blank]
  BY DEF Keys!Key
<1> HIDE DEF k, blank, no
<1>3. [k EXCEPT !.private = no] = [kind |-> pub.type, public |-> pub, private |-> no, secret |-> None, kid |-> blank, alg |-> blank, use |-> blank]
  BY ONLY <1>1
<1>4. [k EXCEPT !.private = no] = Keys!Key(pub, no)
  BY ONLY <1>2, <1>3
<1> QED BY <1>4 DEF k, no

\* Made with a passphrase a key is shown without its private half.
LEMMA GeneratedIs ==
    ASSUME NEW pub, Fits(pub, TRUE), Keys!JWKThumbprint(Keys!PublicJWK(pub)) # None
    PROVE  LET made == Keys!RunKeysGenerate(pub, "passphrase") IN
           ~made.pem /\ made.privateJWK = None /\ made.publicJWK = Keys!RunKeysGenerate(pub, "").publicJWK
<1> DEFINE k == Keys!KeyFromPrivate(pub)
           view == Keys!ViewKey(k)
           made == Keys!RunKeysGenerate(pub, "passphrase")
<1>1. Keys!Signs(pub)
  BY DEF Fits, Rsa, Ec, Ed, Keys!Signs
<1>2. k.kind = pub.type /\ k.public = pub
  BY <1>1 DEF Keys!KeyFromPrivate, Keys!Key
<1>3. pub.type # "secret"
  BY DEF Fits, Rsa, Ec, Ed
<1> HIDE DEF k
<1>4. PICK p, t, priv, pem, openssh : view = [publicJWK |-> p, thumbprint |-> t, privateJWK |-> priv, pem |-> pem, openssh |-> openssh]
  BY <1>2, <1>3 DEF Keys!ViewKey
<1>5. Keys!RunKeysGenerate(pub, "") = view
  BY DEF Keys!RunKeysGenerate, k
<1> DEFINE no == FALSE
<1>6. made = [view EXCEPT !.pem = no, !.privateJWK = None]
  BY DEF Keys!RunKeysGenerate, k
<1> HIDE DEF view, made, no
<1>7. made.pem = no /\ made.privateJWK = None /\ made.publicJWK = p /\ view.publicJWK = p
  BY ONLY <1>4, <1>6
<1> QED BY <1>5, <1>7 DEF made, no

\* The instance counts as the module does.
LEMMA SizesAgree == \A S : Keys!Cardinality(S) = Cardinality(S)
BY DEF Cardinality, Keys!Cardinality

\* The n-th of some places is one of them,
LEMMA PlacesInOrder ==
    ASSUME NEW L \in Nat, NEW at \in SUBSET (1..L), NEW n \in 1..Cardinality(at)
    PROVE  Keys!Nth(at, n) \in at /\ Cardinality({j \in at : j < Keys!Nth(at, n)}) = n - 1
<1> DEFINE Below(s, i) == {j \in s : j < i}
           Ordered(s) == \A k \in 1..Cardinality(s) : \E i \in s : Cardinality(Below(s, i)) = k - 1
           F == {s \in SUBSET (1..L) : Ordered(s)}
<1>0. IsFiniteSet(1..L)
  BY FS_Interval
<1>1. \A s \in SUBSET (1..L) : (\A t \in SUBSET s : t # s => t \in F) => s \in F
  <2> SUFFICES ASSUME NEW s \in SUBSET (1..L), \A t \in SUBSET s : t # s => t \in F PROVE Ordered(s)
    OBVIOUS
  <2> SUFFICES ASSUME NEW k \in 1..Cardinality(s) PROVE \E i \in s : Cardinality(Below(s, i)) = k - 1
    OBVIOUS
  <2>0. IsFiniteSet(s) /\ Cardinality(s) \in Nat
    BY <1>0, FS_Subset, FS_CardinalityType
  <2>1. s # {}
    BY <2>0, FS_EmptySet
  <2>2. PICK m \in s : \A i \in s : i <= m
    <3>1. s \in SUBSET (0..L)
      OBVIOUS
    <3> QED BY <2>1, <3>1, GreatestNat
  <2> DEFINE t == s \ {m}
  <2>3. IsFiniteSet(t) /\ Cardinality(t) = Cardinality(s) - 1
    BY <2>0, FS_RemoveElement
  <2>4. Ordered(t)
    BY <2>2
  <2>5. CASE k = Cardinality(s)
    <3>0. \A j \in s : j < m <=> j # m
      BY <2>2
    <3>1. Below(s, m) = t
      BY <3>0
    <3> QED BY <2>2, <2>3, <2>5, <3>1
  <2>6. CASE k # Cardinality(s)
    <3>1. k \in 1..Cardinality(t)
      BY <2>0, <2>3, <2>6
    <3>2. PICK i \in t : Cardinality(Below(t, i)) = k - 1
      BY <2>4, <3>1
    <3>3. Below(s, i) = Below(t, i)
      BY <2>2
    <3> QED BY <3>2, <3>3
  <2> QED BY <2>5, <2>6
<1>2. F = SUBSET (1..L)
  <2> HIDE DEF F
  <2> F \in SUBSET SUBSET (1..L)
    BY DEF F
  <2> QED BY <1>0, <1>1, SetInduction
<1>3. \E i \in at : Cardinality({j \in at : j < i}) = n - 1
  BY <1>2
<1> DEFINE P(i) == Keys!Cardinality({j \in at : j < i}) = n - 1
<1>4. Keys!Nth(at, n) = CHOOSE i \in at : P(i)
  BY DEF Keys!Nth
<1>5. \E i \in at : P(i)
  BY <1>3, SizesAgree
<1> HIDE DEF P
<1>6. Keys!Nth(at, n) \in at /\ P(Keys!Nth(at, n))
  BY <1>4, <1>5
<1> QED BY <1>6, SizesAgree DEF P

\* and the n-th of the first places is the n-th.
LEMMA FirstPlaces ==
    ASSUME NEW L \in Nat, NEW n \in 1..L
    PROVE  Keys!Nth(1..L, n) = n
<1> DEFINE i == Keys!Nth(1..L, n)
<1>1. Cardinality(1..L) = L
  BY FS_Interval
<1>2. i \in 1..L /\ Cardinality({j \in 1..L : j < i}) = n - 1
  BY <1>1, PlacesInOrder
<1> HIDE DEF i
<1>3. {j \in 1..L : j < i} = 1..i - 1 /\ i - 1 \in Nat
  BY <1>2
<1>4. Cardinality(1..i - 1) = i - 1
  BY <1>2, <1>3, FS_Interval
<1>5. i \in Int /\ n \in Int /\ i - 1 = n - 1
  <2>1. i \in Int /\ n \in Int
    BY ONLY <1>2, n \in 1..L
  <2> QED BY <1>2, <1>3, <1>4, <2>1
<1>6. i = n
  BY ONLY <1>5
<1> QED BY <1>6 DEF i

\* A JWK reads as a key, or as none if its exponent is out of range.
ReadsAs(j, k) == IF Keys!JwkTakes(k.public) THEN Bare(Keys!KeyFromJWK(j)) = k ELSE Keys!KeyFromJWK(j) = None

\* What is shown of a key is the key.
ShownAs(k, v) ==
    LET b == Bare(k)
        made == Keys!RunKeysGenerate(b.public, "passphrase")
    IN  /\ v.publicJWK # None =>
             /\ \A m \in Keys!PrivateMembers : v.publicJWK.has[m] = None
             /\ ReadsAs(v.publicJWK, [b EXCEPT !.private = FALSE])
             /\ Keys!JWKThumbprint(v.publicJWK) = v.thumbprint
        /\ v.privateJWK # None <=> b.private /\ ~Keys!HasManyPrimes(b.public)
        /\ v.privateJWK # None => ReadsAs(v.privateJWK, b) /\ Keys!JWKThumbprint(v.privateJWK) = v.thumbprint
        /\ b.private => /\ ~made.pem /\ made.privateJWK = None
                        /\ made.publicJWK = Keys!RunKeysGenerate(b.public, "").publicJWK

\* That is what it is shown as.
LEMMA KeyShown ==
    ASSUME NEW k, Whole(k), Keys!ViewKey(k) # None
    PROVE  ShownAs(k, Keys!ViewKey(k))
<1> DEFINE v == Keys!ViewKey(k)
           b == Bare(k)
           thumbprint == Keys!JWKThumbprint(Keys!PublicJWK(k.public))
<1>1. b.private = k.private /\ b.public = k.public /\ k.private \in BOOLEAN
  BY BareSecret DEF Whole
<1>2. CASE k.kind = "secret"
  <2>1. v.publicJWK = None /\ v.privateJWK = None
    BY <1>2, SecretView
  <2>2. k.private = FALSE
    BY <1>2 DEF Whole, Fits, Rsa, Ec, Ed
  <2> HIDE DEF v, b
  <2> QED BY <1>1, <2>1, <2>2 DEF v, b, ShownAs
<1>3. CASE k.kind # "secret"
  <2>1. /\ Fits(k.public, k.private) /\ thumbprint # None /\ v.thumbprint = thumbprint
        /\ Says(v.publicJWK, k.public, FALSE) /\ Keys!JWKThumbprint(v.publicJWK) = thumbprint
        /\ \A m \in Keys!PrivateMembers : v.publicJWK.has[m] = None
        /\ k.private = FALSE \/ Keys!HasManyPrimes(k.public) => v.privateJWK = None
        /\ k.private = TRUE /\ ~Keys!HasManyPrimes(k.public) =>
               Says(v.privateJWK, k.public, TRUE) /\ Keys!JWKThumbprint(v.privateJWK) = thumbprint
    BY <1>3, ViewIs
  <2>2. b = Keys!Key(k.public, k.private)
    BY <1>3, BareIs
  <2>3. [b EXCEPT !.private = FALSE] = Keys!Key(k.public, FALSE)
    BY <2>2, PublicHalf
  <2>4. \A private : Keys!Key(k.public, private).public = k.public
    BY DEF Keys!Key
  <2>5. ReadsAs(v.publicJWK, Keys!Key(k.public, FALSE))
    BY <2>1, <2>4, BareOfLabelled DEF Says, ReadsAs
  <2>6. ASSUME k.private = TRUE, ~Keys!HasManyPrimes(k.public)
        PROVE  v.privateJWK # None /\ ReadsAs(v.privateJWK, b) /\ Keys!JWKThumbprint(v.privateJWK) = thumbprint
    <3>1. Says(v.privateJWK, k.public, TRUE) /\ b = Keys!Key(k.public, TRUE)
      BY <2>1, <2>2, <2>6
    <3>2. /\ Bare(Labelled(Keys!Key(k.public, TRUE), v.privateJWK)) = Keys!Key(k.public, TRUE)
          /\ Keys!Key(k.public, TRUE).public = k.public
      BY <2>4, BareOfLabelled
    <3> HIDE DEF v, b
    <3>3. v.privateJWK # None /\ ReadsAs(v.privateJWK, Keys!Key(k.public, TRUE))
      BY ONLY <3>1, <3>2 DEF Says, ReadsAs
    <3> QED BY <2>1, <2>6, <3>1, <3>3
  <2>7. ASSUME k.private = TRUE
        PROVE  LET made == Keys!RunKeysGenerate(k.public, "passphrase") IN
               ~made.pem /\ made.privateJWK = None /\ made.publicJWK = Keys!RunKeysGenerate(k.public, "").publicJWK
    BY <2>1, <2>7, GeneratedIs
  <2> HIDE DEF v, b, thumbprint
  <2>8. v.publicJWK # None =>
          /\ \A m \in Keys!PrivateMembers : v.publicJWK.has[m] = None
          /\ ReadsAs(v.publicJWK, [b EXCEPT !.private = FALSE])
          /\ Keys!JWKThumbprint(v.publicJWK) = v.thumbprint
    BY <2>1, <2>3, <2>5
  <2>9. /\ v.privateJWK # None <=> b.private /\ ~Keys!HasManyPrimes(b.public)
        /\ v.privateJWK # None => ReadsAs(v.privateJWK, b) /\ Keys!JWKThumbprint(v.privateJWK) = v.thumbprint
    BY <1>1, <2>1, <2>6
  <2> QED BY <1>1, <2>7, <2>8, <2>9 DEF v, b, ShownAs
<1> QED BY <1>2, <1>3
\* What is picked of a sequence is in it.
LEMMA ThoseAre ==
    ASSUME NEW L \in Nat, NEW at \in SUBSET (1..L), NEW s
    PROVE  /\ DOMAIN Keys!Those(s, at) = 1..Cardinality(at) /\ Cardinality(at) \in Nat
           /\ \A n \in DOMAIN Keys!Those(s, at) : Keys!Nth(at, n) \in at /\ Keys!Those(s, at)[n] = s[Keys!Nth(at, n)]
<1>1. Keys!Those(s, at) = [n \in 1..Cardinality(at) |-> s[Keys!Nth(at, n)]]
  BY SizesAgree DEF Keys!Those
<1>2. Cardinality(at) \in Nat
  <2>1. IsFiniteSet(1..L)
    BY FS_Interval
  <2>2. IsFiniteSet(at)
    BY <2>1, FS_Subset
  <2> QED BY <2>2, FS_CardinalityType
<1>3. \A n \in 1..Cardinality(at) : Keys!Nth(at, n) \in at
  BY PlacesInOrder
<1> QED BY <1>1, <1>2, <1>3

\* One item of a paste, if it reads, reads as a key or is skipped.
LEMMA ItemReads ==
    ASSUME NEW q, KeysRequest(q), q.form \in {"jwk", "pem", "ssh"}, NEW i \in DOMAIN q.items,
           NEW k, k = Keys!ReadItem(q.form, q.items[i]), k # None
    PROVE  /\ k.kind # Keys!Skipped => Whole(k)
           /\ q.form = "jwk" => k.kind # Keys!Skipped /\ (k.private => q.items[i].has["d"].of = k.public.id)
<1>1. CASE q.form = "jwk"
  <2>1. q.items[i] \in Jwks
    BY <1>1 DEF KeysRequest
  <2>2. k = Keys!KeyFromJWK(q.items[i])
    BY <1>1 DEF Keys!ReadItem
  <2> QED BY <2>1, <2>2, JwkReads
<1>2. CASE q.form = "pem"
  <2>1. q.items[i] \in [type : STRING, encrypted : BOOLEAN, len : Nat, holds : Publics \cup {None}]
    <3>1. q.items \in Seq([type : STRING, encrypted : BOOLEAN, len : Nat, holds : Publics \cup {None}])
      BY <1>2 DEF KeysRequest
    <3> DEFINE S == [type : STRING, encrypted : BOOLEAN, len : Nat, holds : Publics \cup {None}]
    <3>2. q.items \in Seq(S)
      BY <3>1
    <3> HIDE DEF S
    <3>3. q.items[i] \in S
      BY <3>2
    <3> QED BY <3>3 DEF S
  <2>2. k = Keys!KeyFromPEM(q.items[i])
    BY <1>2 DEF Keys!ReadItem
  <2> QED BY <1>2, <2>1, <2>2, PemReads
<1>3. CASE q.form = "ssh"
  <2>1. q.items[i] \in [type : STRING, holds : Publics \cup {None}]
    <3>1. q.items \in Seq([type : STRING, holds : Publics \cup {None}])
      BY <1>3 DEF KeysRequest
    <3> DEFINE S == [type : STRING, holds : Publics \cup {None}]
    <3>2. q.items \in Seq(S)
      BY <3>1
    <3> HIDE DEF S
    <3>3. q.items[i] \in S
      BY <3>2
    <3> QED BY <3>3 DEF S
  <2>2. k = Keys!KeyFromOpenSSH(q.items[i])
    BY <1>3 DEF Keys!ReadItem
  <2> QED BY <1>3, <2>1, <2>2, SshReads
<1> QED BY <1>1, <1>2, <1>3

\* Every key read of a paste is a key, and of its JWK, in their order, the JWK's.
LEMMA PasteOfKeys ==
    ASSUME NEW q, KeysRequest(q), Keys!ParseKeys(q) # None
    PROVE  LET keys == Keys!ParseKeys(q) IN
           \E L \in Nat :
               /\ DOMAIN keys = 1..L
               /\ \A n \in 1..L : Whole(keys[n]) /\ (q.form = "jwk" /\ keys[n].private => q.items[n].has["d"].of = keys[n].public.id)
<1> DEFINE entries == Keys!Entries(q)
           at == {i \in DOMAIN q.items : entries[i].kind # Keys!Skipped}
           keys == Keys!ParseKeys(q)
           size == Len(q.items)
<1>1. /\ q.form \in {"jwk", "pem", "ssh"} /\ keys = Keys!Those(entries, at)
      /\ \A i \in DOMAIN q.items : entries[i] # None
  BY DEF Keys!ParseKeys, Keys!LooksLikeKeyMaterial, Keys!Readable
<1>2. size \in Nat /\ DOMAIN q.items = 1..size
  BY <1>1 DEF KeysRequest
<1>3. \A i \in DOMAIN q.items : entries[i] = Keys!ReadItem(q.form, q.items[i])
  BY DEF Keys!Entries
<1> HIDE DEF entries
<1>4. \A i \in DOMAIN q.items :
          /\ entries[i].kind # Keys!Skipped => Whole(entries[i])
          /\ q.form = "jwk" => entries[i].kind # Keys!Skipped /\ (entries[i].private => q.items[i].has["d"].of = entries[i].public.id)
  BY <1>1, <1>3, ItemReads
<1>5. at \in SUBSET (1..size)
  BY <1>2
<1>6. \A i \in at : i \in DOMAIN q.items /\ entries[i].kind # Keys!Skipped
  OBVIOUS
<1>7. q.form = "jwk" => at = 1..size
  BY <1>2, <1>4
<1> HIDE DEF at, keys, size
<1>8. /\ DOMAIN keys = 1..Cardinality(at) /\ Cardinality(at) \in Nat
      /\ \A n \in DOMAIN keys : Keys!Nth(at, n) \in at /\ keys[n] = entries[Keys!Nth(at, n)]
  BY ONLY <1>1, <1>2, <1>5, ThoseAre
<1>9. \A n \in DOMAIN keys : Whole(keys[n])
  BY <1>4, <1>6, <1>8
<1>10. ASSUME q.form = "jwk", NEW n \in DOMAIN keys, keys[n].private PROVE q.items[n].has["d"].of = keys[n].public.id
  <2>1. at = 1..size /\ Cardinality(at) = size
    BY <1>2, <1>7, <1>10, FS_Interval
  <2>2. Keys!Nth(at, n) = n /\ n \in DOMAIN q.items
    BY <1>2, <1>8, <2>1, FirstPlaces
  <2> QED BY <1>4, <1>8, <1>10, <2>2
<1> QED BY <1>8, <1>9, <1>10 DEF keys

\* What is shown of a paste is the keys in it.
LEMMA KeysAreKept ==
    ASSUME NEW q, KeysRequest(q)
    PROVE  Keys!KeyIsWhole(q, Keys!ParseKeys(q), Keys!RunKeysInspect(q))
<1> DEFINE keys == Keys!ParseKeys(q)
           r == Keys!RunKeysInspect(q)
           views == [i \in DOMAIN keys |-> Keys!ViewKey(keys[i])]
           public == [i \in DOMAIN keys |-> views[i].publicJWK]
           at == {i \in DOMAIN keys : public[i] # None}
           Shows(i) == /\ ShownAs(keys[i], r.views[i])
                       /\ q.form = "jwk" /\ Bare(keys[i]).private => q.items[i].has["d"].of = Bare(keys[i]).public.id
           InSet(j, k) == j = r.views[k].publicJWK /\ ReadsAs(j, [Bare(keys[k]) EXCEPT !.private = FALSE])
<1> SUFFICES ASSUME r # None
             PROVE  /\ \A i \in DOMAIN keys : Shows(i)
                    /\ \A i \in DOMAIN r.set : \E k \in DOMAIN keys : InSet(r.set[i], k)
  BY DEF Keys!KeyIsWhole, ShownAs, ReadsAs, Bare, Named
<1>1. /\ keys # None /\ \A i \in DOMAIN keys : views[i] # None
      /\ r = [views |-> views, set |-> IF Keys!Len(keys) > 1 THEN Keys!Those(public, at) ELSE <<>>]
  BY DEF Keys!RunKeysInspect, Keys!ViewsOf
<1>2. PICK L \in Nat :
          /\ DOMAIN keys = 1..L
          /\ \A n \in 1..L : Whole(keys[n]) /\ (q.form = "jwk" /\ keys[n].private => q.items[n].has["d"].of = keys[n].public.id)
  BY <1>1, PasteOfKeys
<1> DEFINE set == IF Keys!Len(keys) > 1 THEN Keys!Those(public, at) ELSE <<>>
<1>3. r.views = views /\ r.set = set
  <2> HIDE DEF r, views, set
  <2> QED BY ONLY <1>1 DEF set
<1>4. \A i \in DOMAIN keys : views[i] = Keys!ViewKey(keys[i]) /\ public[i] = views[i].publicJWK
  OBVIOUS
<1>5. at \in SUBSET (1..L) /\ \A i \in at : i \in DOMAIN keys /\ public[i] # None
  BY <1>2
<1> HIDE DEF keys, r, views, public, at
<1>6. ASSUME NEW i \in DOMAIN keys PROVE Shows(i)
  <2>1. Whole(keys[i]) /\ Keys!ViewKey(keys[i]) # None /\ r.views[i] = Keys!ViewKey(keys[i])
    BY <1>1, <1>2, <1>3, <1>4, <1>6
  <2>2. Bare(keys[i]).private = keys[i].private /\ Bare(keys[i]).public = keys[i].public
    BY <2>1, BareSecret
  <2>3. q.form = "jwk" /\ keys[i].private => q.items[i].has["d"].of = keys[i].public.id
    BY <1>2, <1>6
  <2> QED BY ONLY <2>1, <2>2, <2>3, KeyShown
<1>7. ASSUME NEW i \in DOMAIN set PROVE \E k \in DOMAIN keys : InSet(set[i], k)
  <2>1. set = Keys!Those(public, at)
    BY <1>7
  <2> DEFINE k == Keys!Nth(at, i)
  <2> HIDE DEF set
  <2>2. k \in at /\ set[i] = public[k]
    BY ONLY <1>2, <1>5, <1>7, <2>1, ThoseAre
  <2>3. k \in DOMAIN keys /\ set[i] = Keys!ViewKey(keys[k]).publicJWK /\ set[i] # None
    BY <1>4, <1>5, <2>2
  <2>4. Whole(keys[k]) /\ Keys!ViewKey(keys[k]) # None
    BY <1>1, <1>2, <1>4, <2>3
  <2> HIDE DEF k
  <2>5. ReadsAs(set[i], [Bare(keys[k]) EXCEPT !.private = FALSE])
    BY ONLY <2>3, <2>4, KeyShown DEF ShownAs
  <2>6. r.views[k] = Keys!ViewKey(keys[k])
    BY <1>3, <1>4, <2>3
  <2> QED BY <2>3, <2>5, <2>6
<1> HIDE DEF set
<1> QED BY <1>3, <1>6, <1>7

-----------------------------------------------------------------------------
(* Every request.                                                          *)

\* What was answered was a request.
Asked == ask # None => Request(ask)

LEMMA AskedAlways == Reporting => []Asked
<1>1. ask = None => Asked
  BY DEF Asked
<1>2. Asked /\ [ask = None /\ Request(ask')]_ask => Asked'
  BY DEF Asked
<1> QED BY <1>1, <1>2, PTL DEF Reporting

\* Of every request: only the key's holder gets an answer from the owner's endpoint
\* that any other path would not give, and no result leaves over the limit or with a
\* hidden character in a key or a value, however deep (mcp's handler.go, sanitize.go).
THEOREM OnlyTheHolderEnters == Reporting => []GateHolds
<1>1. Asked => GateHolds
  BY GateIsKept, ResultIsKept DEF Asked, GateHolds, Request
<1> QED BY <1>1, AskedAlways, PTL

\* Of every answer's headers: an edge keeps what is private only by a header meant for
\* edges, a cookie passes when it keeps its prefix's promises and never else, and a
\* paste is read as the last answer in it (headers_cache.go, headers_security.go,
\* headers.go).
THEOREM HeadersAlwaysFair == Reporting => []HeadersHold
<1>1. Asked => HeadersHold
  BY EdgeIsHonest, CookiesAreFair, PasteIsKept DEF Asked, HeadersHold, Request
<1> QED BY <1>1, AskedAlways, PTL

\* Of every visit's signals: what an old collector could not send is no evidence, what
\* is seen once is counted once, and the score is full exactly when nothing loud and
\* little that is odd was seen (botcheck.go, scoring.go).
THEOREM ScoreAlwaysFair == Reporting => []BotHolds
<1>1. Asked => BotHolds
  BY OldPayloadIsKept, ScoreIsKept DEF Asked, BotHolds, Request
<1> QED BY <1>1, AskedAlways, PTL

\* Of every token, key, proof, verifier and MAC: what is called valid was signed by a
\* key given, over what is shown, and what is made verifies where it should and
\* nowhere else (jwt.go, dpop.go, pkce.go, hmac.go).
THEOREM VerdictsAlwaysSound == Reporting => []TokenHolds
<1>1. Asked => TokenHolds
  BY VerdictIsKept, SignedIsKept, ProofIsKept, PkceIsKept, MacIsKept DEF Asked, TokenHolds, Request
<1> QED BY <1>1, AskedAlways, PTL

\* Of every paste of keys, account and moment: a key is shown as itself, private only
\* with the private half that is its own, an account reads back from its URI, and a
\* code is of the step it is shown for (keys.go, keyview.go, totp.go).
THEOREM KeysAlwaysWhole == Reporting => []KeyHolds
<1>1. Asked => KeyHolds
  <2> SUFFICES ASSUME ask # None, Request(ask)
               PROVE  /\ ask.tool = "keys" => Keys!KeyIsWhole(ask, Keys!ParseKeys(ask), Keys!RunKeysInspect(ask))
                      /\ ask.tool = "otp uri" => Otp!UriReadsBack(ask.settings)
                      /\ ask.tool = "otp code" => Otp!CodesAreOfTheMoment(ask.settings, ask.now, ask.counter)
    BY DEF Asked, KeyHolds
  <2>1. /\ ask.tool = "keys" => KeysRequest(ask)
        /\ ask.tool = "otp uri" => ask.settings \in Settings
        /\ ask.tool = "otp code" => CodeRequest(ask)
    BY DEF Request
  <2>2. ask.tool = "keys" => Keys!KeyIsWhole(ask, Keys!ParseKeys(ask), Keys!RunKeysInspect(ask))
    BY ONLY <2>1, KeysAreKept
  <2>3. ask.tool = "otp uri" => Otp!UriReadsBack(ask.settings)
    BY ONLY <2>1, UriIsKept
  <2>4. ask.tool = "otp code" => Otp!CodesAreOfTheMoment(ask.settings, ask.now, ask.counter)
    BY ONLY <2>1, CodeIsKept DEF CodeRequest
  <2> QED BY <2>2, <2>3, <2>4
<1> QED BY <1>1, AskedAlways, PTL
=============================================================================
