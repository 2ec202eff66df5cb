---------------------------- MODULE RedirectTrace ----------------------------
(***************************************************************************)
(* linktools.Tracer.Trace: the walk of a link's redirects, hop by hop.     *)
(* Every host is judged before it is contacted and again when it is        *)
(* dialled; a hop is one GET with a time limit of its own inside the       *)
(* chain's.  Servers and resolvers are external: they answer anything.     *)
(***************************************************************************)
EXTENDS Naturals, Sequences, FiniteSets

CONSTANTS Hosts,      \* names that resolve to a public address, or once do not
          Denied,     \* hosts refused by name or as a literal address
          MaxHops, HopTimeout, Total,
          Unset

Schemes == {"https", "http", "other"}
Urls == [scheme : Schemes, host : Hosts \cup Denied \cup {Unset}, port : {"web", "odd"}]

ASSUME RedirectAssumption ==
    /\ Denied \cap Hosts = {} /\ Unset \notin Hosts \cup Denied \cup Urls
    /\ MaxHops \in Nat \ {0} /\ HopTimeout \in Nat \ {0} /\ Total \in Nat

HTTP(u) == u.scheme \in {"http", "https"}

VARIABLES pc, cur, seen, hops, notes, final,
          left,   \* what is left of the chain's time
          got,    \* history: the last answer
          unread  \* history: its body was cut short by the clock, the cap or the network
vars == <<pc, cur, seen, hops, notes, final, left, got, unread>>

-----------------------------------------------------------------------------
(* What is asked, and what comes back.                                     *)

\* A pasted string: its scheme ("" if it has none), and credentials before the @.
Pasted == [url : Urls, bare : BOOLEAN, user : BOOLEAN]

Locations == [kind : {"url"}, url : Urls] \cup [kind : {"long", "bad"}, url : {Unset}]

\* A response.  via says how it sends a browser on without a Location: by a
\* Refresh header with or without a target, a meta refresh in its head or one after
\* <body>, a script of a listed form or of another (a bare location = ...); or that
\* it only mentions a listed form, in a handler nobody has clicked.
Statuses == {"moved", "ok", "missing", "limited", "away", "down"}
Answers ==
    [status : {"moved"}, loc : Locations, via : {"no"}, html : {TRUE}]
    \cup [status : Statuses, loc : {Unset}, html : BOOLEAN,
          via : {"no", "refresh", "reload", "meta", "late meta", "script", "other script", "mention"}]

\* wantsBody: a page, or a refusal.
WantsBody(a) == a.html \/ a.status \in {"limited", "away"}

-----------------------------------------------------------------------------
(* The checks.                                                             *)

\* parseTarget: the URL to start at and its notes, or an error.
Starts(p) == (p.bare \/ HTTP(p.url)) /\ p.url.host # Unset
Start(p) == IF p.bare THEN [p.url EXCEPT !.scheme = "https"] ELSE p.url
StartNotes(p) == {n \in {"no scheme", "credentials"} : IF n = "credentials" THEN p.user ELSE p.bare}

\* check: scheme, host and port, judged before anything is sent.
Allowed(u) == HTTP(u) /\ u.host \in Hosts /\ u.port = "web"

\* resolveNext: why the chain ends at a Location, or "".
Unresolved(loc) ==
    CASE loc.kind = "long" -> "location too long"
      [] loc.kind = "bad" -> "location unreadable"
      [] loc.kind = "url" /\ ~HTTP(loc.url) -> "not http"
      [] loc.kind = "url" /\ HTTP(loc.url) /\ loc.url.host = Unset -> "no host"
      [] OTHER -> ""

\* parseRefresh with its fallback: a header without a target reloads the page.
RefreshHeader(a) == a.via \in {"refresh", "reload"}

\* metaRefresh stops at <body>.
MetaRefresh(a, cut) == a.via = "meta" /\ WantsBody(a) /\ ~cut

\* jsRedirect looks for a list of forms anywhere in the page: it misses the others,
\* and takes a mention for a redirect.
JsRedirect(a, cut) == a.via \in {"script", "mention"} /\ WantsBody(a) /\ ~cut

\* explain: what a last hop hides, from its headers and what was read of its body.
Explain(a, cut) ==
    {n \in {"refresh", "meta", "script", "limited", "away"} :
        CASE n = "refresh" -> RefreshHeader(a)
          [] n = "meta" -> MetaRefresh(a, cut)
          [] n = "script" -> JsRedirect(a, cut)
          [] OTHER -> a.status = n}

\* Mutant: a meta refresh is noted, and the page named as the destination.
ContinuesButMeta(ns) ==
    ns \cap {"refresh", "script", "refused", "tls", "dns", "hop timeout", "time", "failed"} # {}

\* continuesElsewhere: after these notes the last URL is not a destination.
ContinuesElsewhere(ns) ==
    ns \cap {"refresh", "meta", "script", "refused", "tls", "dns", "hop timeout", "time", "failed"} # {}

\* Mutant: a hop's own notes stay with the hop.
LiftNone(found, hop, ended) == found

\* liftLastHop: the last hop's findings become the chain's; a destination that is
\* an error page is one.
Lift(found, hop, ended) ==
    found \cup hop.notes \cup
        {n \in {"error page", "server error"} :
            /\ hop.notes = {} /\ ended
            /\ hop.status \in IF n = "server error" THEN {"down"} ELSE {"missing"}}

-----------------------------------------------------------------------------
Init ==
    /\ pc = "start" /\ cur = Unset /\ seen = {} /\ hops = <<>> /\ notes = {} /\ final = Unset
    /\ left = Total /\ got = Unset /\ unread = FALSE

Hop(status, ns) == [url |-> cur, status |-> status, notes |-> ns]

\* The hops walked, and the chain's notes when it ends.
Stop(walked, found, end) ==
    /\ pc' = "done"
    /\ hops' = walked
    /\ final' = end
    /\ notes' = IF walked = <<>> THEN found ELSE Lift(found, walked[Len(walked)], end # Unset)
    /\ UNCHANGED <<cur, seen>>

Reject ==
    /\ pc = "start"
    /\ \E p \in Pasted : ~Starts(p)
    /\ pc' = "rejected"
    /\ UNCHANGED <<cur, seen, hops, notes, final, left, got, unread>>

Begin ==
    /\ pc = "start"
    /\ \E p \in Pasted : Starts(p) /\ cur' = Start(p) /\ notes' = StartNotes(p)
    /\ pc' = "loop"
    /\ UNCHANGED <<seen, hops, final, left, got, unread>>

TooMany ==
    /\ pc = "loop" /\ Len(hops) >= MaxHops
    /\ Stop(hops, notes \cup {"stopped"}, Unset)
    /\ UNCHANGED <<left, got, unread>>

Refuse ==
    /\ pc = "loop" /\ Len(hops) < MaxHops /\ ~Allowed(cur)
    /\ Stop(Append(hops, Hop("none", {"refused"})), notes, Unset)
    /\ UNCHANGED <<left, got, unread>>

Send ==
    /\ pc = "loop" /\ Len(hops) < MaxHops /\ Allowed(cur)
    /\ seen' = seen \cup {cur} /\ pc' = "wait"
    /\ UNCHANGED <<cur, hops, notes, final, left, got, unread>>

\* Control: the name resolved to an address that may not be dialled.
DialRefused ==
    /\ pc = "wait" /\ left > 0
    /\ Stop(Append(hops, Hop("none", {"refused"})), notes, Unset)
    /\ UNCHANGED <<left, got, unread>>

\* transportNote: the connection fails; a bad certificate is a finding.
Fail ==
    /\ pc = "wait" /\ left > 0
    /\ \E why \in {"tls", "dns", "failed"} :
          Stop(Append(hops, Hop("none", {why})), notes, Unset)
    /\ UNCHANGED <<left, got, unread>>

\* Mutant: the hop waits for as long as the server likes.
TimeUpNever ==
    /\ pc = "wait" /\ left < HopTimeout
    /\ Stop(Append(hops, Hop("none", {"time"})), notes, Unset)
    /\ left' = 0
    /\ UNCHANGED <<got, unread>>

\* No answer within the hop's time, or within the chain's if that is shorter.
TimeUp ==
    /\ pc = "wait"
    /\ \E why \in {"time", "hop timeout"} :
       /\ why = "time" => left <= HopTimeout
       /\ why = "hop timeout" => left >= HopTimeout
       /\ Stop(Append(hops, Hop("none", {why})), notes, Unset)
    /\ left' = IF left < HopTimeout THEN 0 ELSE left - HopTimeout
    /\ UNCHANGED <<got, unread>>

\* An answer in time; reading its body may run into the hop's deadline.
Hear(a, cut) ==
    /\ pc = "wait"
    /\ \E took \in 0..HopTimeout : took < left /\ left' = left - took
    /\ got' = a /\ unread' = cut

\* Mutant: a page may be asked again.
UnseenAny(u) == TRUE

Unseen(u) == u \notin seen

Follow ==
    \E a \in Answers :
       /\ a.loc # Unset /\ Hear(a, FALSE)
       /\ Unresolved(a.loc) = "" /\ Unseen(a.loc.url)
       /\ hops' = Append(hops, Hop(a.status, {}))
       /\ cur' = a.loc.url /\ pc' = "loop"
       /\ notes' = notes \cup {n \in {"downgrade"} : cur.scheme = "https" /\ a.loc.url.scheme = "http"}
       /\ UNCHANGED <<seen, final>>

Lose ==
    \E a \in Answers :
       /\ a.loc # Unset /\ Hear(a, FALSE)
       /\ LET why == Unresolved(a.loc) IN
          /\ why # "" \/ ~Unseen(a.loc.url)
          /\ Stop(Append(hops, Hop(a.status, {})),
                  notes \cup {IF why # "" THEN why ELSE "loop"}
                        \cup {n \in {"downgrade"} : why = "" /\ cur.scheme = "https" /\ a.loc.url.scheme = "http"},
                  Unset)

Arrive ==
    \E a \in Answers, cut \in BOOLEAN :
       /\ a.loc = Unset /\ Hear(a, cut)
       /\ cut => WantsBody(a)
       /\ LET ns == Explain(a, cut)
          IN  Stop(Append(hops, Hop(a.status, ns)), notes, IF ContinuesElsewhere(ns) THEN Unset ELSE cur)

Next == Reject \/ Begin \/ TooMany \/ Refuse \/ Send \/ DialRefused \/ Fail \/ TimeUp \/ Follow \/ Lose \/ Arrive

\* The program's own steps, and the timers; that servers answer is not assumed.
Fairness == WF_vars(Begin \/ Reject) /\ WF_vars(TooMany \/ Refuse \/ Send) /\ WF_vars(TimeUp)

Spec == Init /\ [][Next]_vars /\ Fairness

-----------------------------------------------------------------------------
TypeOK ==
    /\ pc \in {"start", "rejected", "loop", "wait", "done"}
    /\ cur \in Urls \cup {Unset} /\ seen \subseteq Urls /\ final \in Urls \cup {Unset}
    /\ left \in 0..Total /\ Len(hops) <= MaxHops
    /\ \A i \in 1..Len(hops) : hops[i].url \in Urls

\* "Final is the last URL actually reached, empty whenever the chain demonstrably
\* continues unfollowed" (trace.go:46).  A destination is a URL that was asked and
\* answered, last of the walk; its answer has no Refresh header, and, as far as its
\* body was read, nothing of what the body is searched for.  Where a walk ends at an
\* answer, it has no destination just when the report says the page goes on.  A page
\* whose redirect is none of the forms searched for is named as the destination.
FinalIsTheEnd ==
    /\ final # Unset =>
          /\ final = hops[Len(hops)].url /\ hops[Len(hops)].status # "none" /\ final \in seen
          /\ got.via \notin {"refresh", "reload"}
          /\ ~unread /\ got.html => got.via \notin {"meta", "script", "mention"}
    /\ pc = "done" /\ got # Unset /\ got.loc = Unset =>
          (final = Unset <=> ContinuesElsewhere(notes))

\* Whatever ends a walk, the reader is told: no destination without a finding that
\* says why, no error page without one, no hop from https to http without one.
NothingUnsaid ==
    /\ pc = "done" /\ final = Unset => notes \ {"no scheme", "credentials", "downgrade"} # {}
    /\ pc = "done" /\ got # Unset /\ got.status \in {"missing", "limited", "away", "down"} =>
          notes \ {"no scheme", "credentials", "downgrade"} # {}
    /\ \A i \in 2..Len(hops) : hops[i - 1].url.scheme = "https" /\ hops[i].url.scheme = "http" =>
          "downgrade" \in notes

\* A chain cannot go round: no URL is asked twice, and none that was refused is
\* asked at all (trace.go:235, trace.go:209).
NoPageTwice ==
    /\ \A i, j \in 1..Len(hops) : hops[i].url = hops[j].url => i = j
    /\ \A i \in 1..Len(hops) : hops[i].status # "none" => Allowed(hops[i].url)

\* "every cost of one trace is bounded" (trace.go:23): a trace ends although no
\* server need ever answer, and although every server redirects.
TraceEnds == <>(pc \in {"done", "rejected"})
=============================================================================
