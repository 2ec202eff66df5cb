--------------------------- MODULE LinkRegister ---------------------------
(***************************************************************************)
(* What the short-link store promises the people who use it, with no cache *)
(* and no database driver in sight.  Every code holds a row; a resolve may *)
(* be answered from the row as it stood when the resolve began, or from    *)
(* any value the row took while the resolve ran, or from a value that a    *)
(* write not yet acknowledged is replacing.  Once a write is acknowledged  *)
(* the values before it are gone for every resolve that starts later: a    *)
(* regular register per code, whose value is then judged against the clock *)
(* (expired and revoked links resolve like missing ones).                  *)
(***************************************************************************)
EXTENDS Integers

CONSTANTS Codes,      \* short codes: custom slugs and generated ones
          Targets,    \* destinations a link can carry
          Readers,    \* callers of Resolve
          NoRow,      \* what a code with no document holds
          Never,      \* the expiry of a link created without a TTL
          NoCode,     \* what a reader that never asked is asking for
          Ttls,       \* lifetimes a link can be created with
          Retention,  \* how long an expired row still blocks its code
          MaxClock    \* bound: the clock stops here

Expiries == {t + d : t \in 0..MaxClock, d \in Ttls} \cup {Never}
Row  == [target : Targets, exp : Expiries, revoked : BOOLEAN]
View == Row \cup {NoRow}

\* The answer a view of the row leads to at time now: Resolve's own checks.
Expired(v, now) == v.exp # Never /\ v.exp <= now
Outcome(v, now) ==
    IF v = NoRow \/ v.revoked \/ Expired(v, now) THEN "gone" ELSE v.target

VARIABLES row,    \* row[c]: the value of code c
          may,    \* may[c]: the values a resolve of c that starts now may see
          reads,  \* reads[r]: the values reader r may be answered from
          ask,    \* ask[r]: the code reader r asked for last
          out,    \* out[r]: its answer, "none" while the resolve runs
          clock

vars == <<row, may, reads, ask, out, clock>>

Pending(r) == ask[r] # NoCode /\ out[r] = "none"

Init ==
    /\ row = [c \in Codes |-> NoRow]
    /\ may = [c \in Codes |-> {NoRow}]
    /\ reads = [r \in Readers |-> {}]
    /\ ask = [r \in Readers |-> NoCode]
    /\ out = [r \in Readers |-> "none"]
    /\ clock = 0

Tick == clock < MaxClock /\ clock' = clock + 1 /\ UNCHANGED <<row, may, reads, ask, out>>

\* The only ways a row changes: a free code is taken, a link is revoked, and
\* a link that expired Retention ago is forgotten.
Legal(old, new) ==
    \/ old = NoRow /\ new \in Row /\ ~new.revoked
    \/ old # NoRow /\ new = [old EXCEPT !.revoked = TRUE]
    \/ old # NoRow /\ new = NoRow /\ old.exp # Never /\ old.exp + Retention <= clock

Change(c, v) ==
    /\ Legal(row[c], v)
    /\ row' = [row EXCEPT ![c] = v]
    /\ may' = [may EXCEPT ![c] = @ \cup {v}]
    /\ reads' = [r \in Readers |-> IF ask[r] = c /\ Pending(r) THEN reads[r] \cup {v} ELSE reads[r]]
    /\ UNCHANGED <<ask, out, clock>>

Acknowledge(c) ==
    /\ may' = [may EXCEPT ![c] = {row[c]}]
    /\ UNCHANGED <<row, reads, ask, out, clock>>

Ask(r, c) ==
    /\ ~Pending(r)
    /\ ask' = [ask EXCEPT ![r] = c]
    /\ out' = [out EXCEPT ![r] = "none"]
    /\ reads' = [reads EXCEPT ![r] = may[c]]
    /\ UNCHANGED <<row, may, clock>>

Answer(r) ==
    /\ Pending(r)
    /\ \E v \in reads[r] : out' = [out EXCEPT ![r] = Outcome(v, clock)]
    /\ reads' = [reads EXCEPT ![r] = {}]
    /\ UNCHANGED <<row, may, ask, clock>>

Fail(r) ==
    /\ Pending(r)
    /\ out' = [out EXCEPT ![r] = "error"]
    /\ reads' = [reads EXCEPT ![r] = {}]
    /\ UNCHANGED <<row, may, ask, clock>>

\* The process stops and starts again: resolves under way get no answer.
Restart ==
    /\ may' = [c \in Codes |-> {row[c]}]
    /\ reads' = [r \in Readers |-> {}]
    /\ out' = [r \in Readers |-> IF Pending(r) THEN "error" ELSE out[r]]
    /\ UNCHANGED <<row, ask, clock>>

Next ==
    \/ Tick
    \/ Restart
    \/ \E c \in Codes : Acknowledge(c) \/ \E v \in View : Change(c, v)
    \/ \E r \in Readers : Answer(r) \/ Fail(r) \/ \E c \in Codes : Ask(r, c)

Spec == Init /\ [][Next]_vars
===========================================================================
