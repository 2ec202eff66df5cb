--------------------------------- MODULE MailAsks ---------------------------------
(***************************************************************************)
(* What the mail tools are asked in the small world of MCReports.          *)
(***************************************************************************)
EXTENDS Integers, Sequences, FiniteSets, TLC

CONSTANT None

Auth == INSTANCE MailAuth WITH
    Vendor <- [h \in {"mx1", "mx2", "mx3"} |-> IF h = "mx3" THEN "small" ELSE "big"], Fleets <- {"big"}
Mail == INSTANCE MailReport WITH
    MaxRecords <- 2, MaxHops <- 3, MaxLogo <- 100, MinSynced <- 2, ESP <- <<"ses", "ses", "other">>

-----------------------------------------------------------------------------
(* SPF: a domain d, what it includes, and what that includes in turn.      *)

Term(name, target) == [q |-> "+", name |-> name, target |-> target]
End(q) == [q |-> q, name |-> "all", target |-> None]
A == Term("a", None)
Terms == {A, Term("include", "x"), Term("include", "y"), Term("include", "d"), Term("redirect", "y"),
          Term("include", "macro"), End("-"), End("+")}
Some(rec) == <<rec>>
FirstRecords == {<<>>} \cup {Some(<<t, u>>) : t, u \in Terms} \cup {Some(<<t, u, End("~")>>) : t, u \in Terms}
                \cup {<<<<t, End("-")>>, <<End("-")>>>> : t \in Terms}
Branches == {<<>>, Some(<<A, A, A, A, A, A, A, A>>), Some(<<Term("redirect", "y"), End("-")>>), Some(<<Term("redirect", "y")>>)}
            \cup {Some(<<Term("include", n), Term("include", m)>>) : n, m \in {"y", "z", "x"}}
            \cup {Some(<<Term("include", "d")>>), Some(<<Term("include", None)>>), Some(<<Term("include", "z"), Term("include", "w")>>)}
Leaves == {<<>>, Some(<<A, A, A>>), Some(<<Term("include", "x")>>), Some(<<Term("include", "z"), Term("redirect", "d")>>)}
\* Time runs out before the first of their lookups, after one or two, or not at all.
SPFAsks == [tool : {"spf"}, zone : [d : FirstRecords, x : Branches, y : Leaves], alive : {0, 1, 2, Auth!MaxIncludes}]

(* DMARC: a name of two to six labels, with records at two of its levels.  *)

Policies == [p : {"", "none", "reject", "bogus"}, sp : {"", "none", "quarantine", "bogus"}]
Name(n) == [i \in 1..n |-> i]
Up(n, k) == SubSeq(Name(n), k, n)
DMARCAsks ==
    UNION {{[tool |-> "dmarc", domain |-> Name(n), zone |-> (Up(n, i) :> recs) @@ (Up(n, j) :> <<[p |-> "none", sp |-> "reject"]>>)] :
            i \in 1..n, j \in 1..n, recs \in {<<r>> : r \in Policies} \cup {<<r, [p |-> "none", sp |-> ""]>> : r \in Policies}} :
           n \in 2..6}

-----------------------------------------------------------------------------
(* What is pasted.                                                         *)

Row(ip, count, disposition, dkim, spf) == [ip |-> ip, count |-> count, disposition |-> disposition, dkim |-> dkim, spf |-> spf]
Rows == {Row(ip, c, d, k, s) : ip \in 1..3, c \in {0, 5}, d \in {"none", "reject"}, k, s \in {"pass", "fail"}}
SomeRows == {Row(ip, 2, d, k, "fail") : ip \in 1..3, d \in {"quarantine", "reject"}, k \in {"pass", "fail"}}
RowSeqs == UNION {[1..n -> Rows] : n \in 0..2} \cup [1..3 -> SomeRows]

Head3(name, i, cv, arc) == [name |-> name, i |-> i, cv |-> cv, arc |-> arc]
Headers == {Head3("seal", i, cv, "") : i \in 0..4, cv \in {"none", "pass", "fail"}}
           \cup {Head3("signature", i, "", "") : i \in 0..3} \cup {Head3("results", i, "", arc) : i \in 1..3, arc \in {"", "fail"}}
Whole == <<Head3("results", 2, "", ""), Head3("seal", 1, "none", ""), Head3("signature", 2, "", ""),
           Head3("seal", 2, "pass", ""), Head3("results", 1, "", ""), Head3("signature", 1, "", "")>>
Third == <<Head3("seal", 3, "pass", ""), Head3("signature", 3, "", ""), Head3("results", 3, "", "")>>
HeaderSeqs ==
    UNION {[1..n -> {h \in Headers : h.i < 2 /\ h.cv # "fail"}] : n \in 1..3}
    \cup {[w EXCEPT ![k] = h] : w \in {Whole, Whole \o Third}, k \in 1..6, h \in Headers}
    \cup {SubSeq(Whole, k, 6) \o SubSeq(Whole, 1, j) : k \in 1..6, j \in 0..5} \cup {Third}

Boxes == {None} \cup [x : {0, -4}, y : {2}, w : {0, 8, 20}, h : {8, 12}]
Logos == [parses : {TRUE}, size : {90, 99, 150}, ns : {"svg", ""}, version : {"1.2", "1.1"}, profile : {"tiny-ps", "full"},
          box : Boxes, w : {0, 64}, h : {32}, bad : {{}, {"script"}}]

PasteAsks ==
    [tool : {"aggregate"}, rows : RowSeqs] \cup [tool : {"arc"}, headers : HeaderSeqs] \cup [tool : {"bimi"}, logo : Logos]
RouteAsks ==
    LET fields == {"domain", "input", "target", "ip", "file", "xml", "svg", "headers", "body"}
    IN  {ask \in [tool : {"mail route"}, path : DOMAIN Mail!Reads, method : {"GET", "POST"},
                  given : {{f, g} : f, g \in fields} \cup {{}}, bad : BOOLEAN] :
            ask.method = "POST" \/ ask.path \notin Mail!Posted}

AuthHolds(ask) ==
    /\ ask.tool = "spf" => Auth!SPFPassIsSound(ask.zone, "d", ask.alive)
    /\ ask.tool = "dmarc" => Auth!DMARCIsTheNearest(ask.zone, ask.domain)
PasteHolds(ask) ==
    /\ ask.tool = "aggregate" => Mail!ReportAddsUp(ask.rows)
    /\ ask.tool = "arc" => Mail!ARCIsIntact(ask.headers)
    /\ ask.tool = "bimi" => Mail!FixSettles(ask.logo)
    /\ ask.tool = "mail route" => Mail!HeavyIsPaid(ask)
=============================================================================
