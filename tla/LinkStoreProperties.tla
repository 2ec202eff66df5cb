------------------------ MODULE LinkStoreProperties ------------------------
(***************************************************************************)
(* What LinkStore is for.  MCLinkStore checks these on a small instance,   *)
(* LinkStoreProofs proves them for every value of the constants.           *)
(***************************************************************************)
EXTENDS LinkStore

ReaderState ==
    [pc : {"idle", "generation", "find", "put", "judge"}, code : Codes \cup {NoCode},
     gen : Nat, view : View, out : Targets \cup {"gone", "error", "none"}]

WriterState ==
    [pc : {"idle", "write", "invalidate", "failed", "lost"}, op : {"none", "slug", "generated", "revoke"},
     code : Codes \cup {NoCode}, row : View, tries : 0..MaxAttempts]

\* Every variable has its type, and a request under way names a real code.
TypeOK ==
    /\ db \in [Codes -> View]
    /\ unique \in BOOLEAN
    /\ indexErr \in BOOLEAN
    /\ cache \in [Codes -> Entry \cup {NoEntry}]
    /\ gen \in Nat
    /\ reader \in [Readers -> ReaderState]
    /\ writer \in [Writers -> WriterState]
    /\ clock \in 0..MaxClock
    /\ may \in [Codes -> SUBSET View]
    /\ reads \in [Readers -> SUBSET View]
    /\ \A r \in Readers : reader[r].pc # "idle" => reader[r].code \in Codes
    /\ \A w \in Writers : writer[w].pc # "idle" => writer[w].code \in Codes
    /\ \A w \in Writers : writer[w].pc # "idle" /\ writer[w].op # "revoke" =>
          writer[w].row \in Row /\ ~writer[w].row.revoked

\* The cache never holds, and no resolve is about to put there, a value that
\* the last acknowledged write of its code replaced.  This is what the
\* generation taken before FindOne is for (resolvecache.go, putIfFresh).
Coherent ==
    /\ \A c \in Codes : cache[c] # NoEntry => cache[c].link \in may[c]
    /\ \A r \in Readers : reader[r].pc = "put" /\ reader[r].gen = gen =>
          reader[r].view \in may[reader[r].code]

\* What Coherent needs to be inductive: no reader holds a generation ahead of
\* the cache's, an idle one holds none, and the document of a code is a value its resolves may see.
Generations == \A r \in Readers : reader[r].gen <= gen
IdleGenerations == \A r \in Readers : reader[r].pc = "idle" => reader[r].gen = 0
Current == \A c \in Codes : db[c] \in may[c]
CoherentInv == TypeOK /\ Coherent /\ Generations /\ IdleGenerations /\ Current

\* What the refinement needs besides: the view a resolve will be judged on,
\* or the one FindOne would give it now, is one it may be answered from; and
\* it has no answer exactly while it runs.
Seen ==
    \A r \in Readers :
        /\ reader[r].pc \in {"put", "judge"} => reader[r].view \in reads[r]
        /\ reader[r].pc \in {"generation", "find"} => db[reader[r].code] \in reads[r]
        /\ reader[r].pc # "idle" <=> reader[r].code # NoCode /\ reader[r].out = "none"
        /\ reader[r].pc = "idle" => reads[r] = {}

\* An insert is sent only by a process that has the unique index, so one that
\* may still be applied meets the index.
IndexHonest ==
    /\ indexErr \/ unique
    /\ \A w \in Writers : Pending(w) /\ writer[w].op # "revoke" => unique

RefinementInv == CoherentInv /\ Seen /\ IndexHonest

\* A key space chosen by strangers never grows the cache past its bound.
CacheBounded == Cardinality(Cached(cache)) <= CacheMax

Register == INSTANCE LinkRegister WITH
    row <- db,
    ask <- [r \in Readers |-> reader[r].code],
    out <- [r \in Readers |-> reader[r].out]

\* Through cache, generations, lost replies and crashes the store is a regular
\* register per code: a resolve that starts after a create or revoke was
\* acknowledged is never answered from before it, an expired link is never
\* served, and a code is never given to another link within its retention.
ImplementsRegister == Register!Spec

\* "Something went wrong on our side. Nothing was changed." (short.go:53) is the
\* answer to a write whose driver call failed; it says the link is as it was.
NothingWasChanged ==
    [][\A w \in Writers : writer[w].pc = "failed" => db'[writer[w].code] = db[writer[w].code]]_vars
=============================================================================
