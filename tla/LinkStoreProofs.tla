-------------------------- MODULE LinkStoreProofs --------------------------
(***************************************************************************)
(* LinkStoreProperties for every value of the constants.  TypeOK is        *)
(* inductive alone; Coherent is not, for it needs that a generation a      *)
(* reader holds is never ahead of the cache's (Generations) and that the   *)
(* document a code has is always a value LinkRegister allows (Current).    *)
(***************************************************************************)
EXTENDS LinkStoreProperties, TLAPS, FiniteSetTheorems

\* A row that is written has the type of a row.
LEMMA WrittenIsView ==
    ASSUME TypeOK, NEW w \in Writers, writer[w].pc \in {"write", "failed", "lost"}, Applies(w)
    PROVE  Written(w) \in View /\ Written(w) \in Row /\ writer[w].code \in Codes
<1>1. writer[w] \in WriterState /\ writer[w].code \in Codes
  BY DEF TypeOK
<1>2. CASE writer[w].op = "revoke"
  <2>1. db[writer[w].code] \in Row
    BY <1>1, <1>2 DEF TypeOK, Applies, View
  <2>. QED
    BY <1>1, <1>2, <2>1 DEF Written, View, Row
<1>3. CASE writer[w].op # "revoke"
  BY <1>1, <1>3 DEF TypeOK, Written, View
<1>. QED
  BY <1>2, <1>3

\* Changing a document keeps the types of the database and the history.
LEMMA StoreTypes ==
    ASSUME TypeOK, NEW c \in Codes, NEW v \in View, Store(c, v)
    PROVE  /\ db' \in [Codes -> View]
           /\ may' \in [Codes -> SUBSET View]
           /\ reads' \in [Readers -> SUBSET View]
BY DEF TypeOK, Store

\* What the cache keeps when it makes room is part of what it held.
LEMMA RoomKeepsEntries ==
    ASSUME TypeOK
    PROVE  /\ WithRoom \in [Codes -> Entry \cup {NoEntry}]
           /\ \A c \in Codes : WithRoom[c] # NoEntry => WithRoom[c] = cache[c]
BY DEF TypeOK, WithRoom, Hit

LEMMA TypeInit == Init => TypeOK
BY StoreAssumption DEF Init, TypeOK, View, IdleReader, Idle, ReaderState, WriterState

\* A resolve's step keeps the types.
LEMMA TypeResolve ==
    ASSUME TypeOK, NEW r \in Readers, Resolve(r)
    PROVE  TypeOK'
<1>. reader[r] \in ReaderState
  BY DEF TypeOK
<1>1. ASSUME NEW c \in Codes, Get(r, c) PROVE TypeOK'
  <2>1. Hit(c) => cache[c].link \in View
    BY DEF Hit, TypeOK, Entry
  <2>2. reader'[r] \in ReaderState /\ reader'[r].code \in Codes
    BY <1>1, <2>1 DEF Get, ReaderState, TypeOK, View
  <2>. QED
    BY <1>1, <2>2 DEF Get, TypeOK
<1>2. CASE Generation(r)
  BY <1>2 DEF Generation, TypeOK, ReaderState
<1>3. CASE FindOne(r)
  BY <1>3 DEF FindOne, TypeOK, ReaderState
<1>4. CASE FindOneFails(r)
  BY <1>4 DEF FindOneFails, TypeOK, ReaderState, IdleReader, View
<1>5. CASE PutIfFresh(r)
  <2>1. reader[r].code \in Codes /\ reader[r].view \in View
    BY <1>5 DEF PutIfFresh, TypeOK, ReaderState
  <2>2. [link |-> reader[r].view, expires |-> clock + CacheTtl] \in Entry
    BY <2>1, StoreAssumption DEF Entry, TypeOK
  <2>3. cache' \in [Codes -> Entry \cup {NoEntry}]
    BY <1>5, <2>1, <2>2, RoomKeepsEntries DEF PutIfFresh, TypeOK
  <2>4. reader' \in [Readers -> ReaderState]
        /\ \A q \in Readers : reader'[q].pc # "idle" => reader'[q].code \in Codes
    BY <1>5, <2>1 DEF PutIfFresh, TypeOK, ReaderState
  <2>. QED
    BY <1>5, <2>3, <2>4 DEF PutIfFresh, TypeOK
<1>6. CASE Judge(r)
  <2>1. Outcome(reader[r].view, clock) \in Targets \cup {"gone"}
    BY DEF ReaderState, View, Row, Outcome
  <2>. QED
    BY <1>6, <2>1 DEF Judge, TypeOK, ReaderState, IdleReader, View
<1>. QED
  BY <1>1, <1>2, <1>3, <1>4, <1>5, <1>6 DEF Resolve

\* A write's step keeps the types.
LEMMA TypeChange ==
    ASSUME TypeOK, NEW w \in Writers, Change(w)
    PROVE  TypeOK'
<1>. writer[w] \in WriterState
  BY DEF TypeOK
<1>i. Idle \in WriterState /\ Idle.pc = "idle"
  BY StoreAssumption DEF Idle, WriterState, View
<1>1. CASE BeginCreate(w)
  <2>. PICK op \in {"slug", "generated"}, c \in Codes, t \in Targets, d \in Ttls \cup {Never} :
          writer' = [writer EXCEPT ![w] =
                [pc |-> "write", op |-> op, code |-> c, tries |-> 1,
                 row |-> [target |-> t, revoked |-> FALSE,
                          exp |-> IF d = Never THEN Never ELSE clock + d]]]
    BY <1>1 DEF BeginCreate
  <2>1. (IF d = Never THEN Never ELSE clock + d) \in Expiries
    BY DEF TypeOK, Expiries
  <2>2. writer'[w] \in WriterState /\ writer'[w].code \in Codes
        /\ writer'[w].row \in Row /\ ~writer'[w].row.revoked
    BY <2>1, StoreAssumption DEF WriterState, TypeOK, View, Row
  <2>. QED
    BY <1>1, <2>2 DEF BeginCreate, TypeOK
<1>2. CASE BeginRevoke(w)
  <2>1. writer' \in [Writers -> WriterState] /\ writer'[w].code \in Codes /\ writer'[w].op = "revoke"
        /\ \A x \in Writers : x # w => writer'[x] = writer[x]
    BY <1>2, StoreAssumption DEF BeginRevoke, TypeOK, Idle, WriterState, View
  <2>. QED
    BY <1>2, <2>1 DEF BeginRevoke, TypeOK
<1>3. CASE Refused(w) \/ RevokeMissing(w) \/ NeverWritten(w)
  BY <1>3, <1>i DEF Refused, RevokeMissing, NeverWritten, TypeOK
<1>4. CASE Write(w)
  <2>1. Written(w) \in View /\ writer[w].code \in Codes
    BY <1>4, WrittenIsView DEF Write, Sends
  <2>2. db' \in [Codes -> View] /\ may' \in [Codes -> SUBSET View] /\ reads' \in [Readers -> SUBSET View]
    BY <1>4, <2>1, StoreTypes DEF Write
  <2>3. writer' \in [Writers -> WriterState]
        /\ \A x \in Writers : writer'[x].code = writer[x].code /\ writer'[x].op = writer[x].op
                               /\ writer'[x].row = writer[x].row
                               /\ (writer'[x].pc # "idle" => writer[x].pc # "idle")
    BY <1>4 DEF Write, Sends, TypeOK, WriterState
  <2>. QED
    BY <1>4, <2>2, <2>3 DEF Write, TypeOK
<1>5. CASE Duplicate(w)
  <2>1. CASE writer' = [writer EXCEPT ![w] = Idle]
    BY <1>5, <2>1, <1>i DEF Duplicate, TypeOK
  <2>2. CASE writer[w].op = "generated" /\ writer[w].tries < MaxAttempts
             /\ \E c \in Generated : writer' = [writer EXCEPT ![w].code = c, ![w].tries = @ + 1]
    <3>. PICK c \in Generated : writer' = [writer EXCEPT ![w].code = c, ![w].tries = @ + 1]
      BY <2>2
    <3>1. c \in Codes
      BY DEF Codes
    <3>2. writer[w].tries + 1 \in 0..MaxAttempts
      BY <2>2, StoreAssumption DEF WriterState
    <3>3. writer' \in [Writers -> WriterState]
          /\ \A x \in Writers : (x # w => writer'[x] = writer[x])
                                 /\ writer'[x].op = writer[x].op /\ writer'[x].row = writer[x].row
                                 /\ writer'[x].pc = writer[x].pc
          /\ writer'[w].code \in Codes
      BY <3>1, <3>2 DEF TypeOK, WriterState
    <3>. QED
      BY <1>5, <3>3 DEF Duplicate, TypeOK
  <2>. QED
    BY <1>5, <2>1, <2>2 DEF Duplicate
<1>6. CASE WriteFails(w)
  <2>1. writer' \in [Writers -> WriterState]
        /\ \A x \in Writers : writer'[x].code = writer[x].code /\ writer'[x].op = writer[x].op
                               /\ writer'[x].row = writer[x].row
                               /\ (writer'[x].pc # "idle" => writer[x].pc # "idle")
    BY <1>6 DEF WriteFails, Sends, TypeOK, WriterState
  <2>. QED
    BY <1>6, <2>1 DEF WriteFails, TypeOK
<1>7. CASE LateWrite(w)
  <2>1. Written(w) \in View /\ writer[w].code \in Codes
    BY <1>7, WrittenIsView DEF LateWrite, Pending
  <2>2. db' \in [Codes -> View] /\ may' \in [Codes -> SUBSET View] /\ reads' \in [Readers -> SUBSET View]
    BY <1>7, <2>1, StoreTypes DEF LateWrite
  <2>. QED
    BY <1>7, <1>i, <2>2 DEF LateWrite, TypeOK
<1>8. CASE Invalidate(w)
  BY <1>8, <1>i DEF Invalidate, TypeOK
<1>. QED
  BY <1>1, <1>2, <1>3, <1>4, <1>5, <1>6, <1>7, <1>8 DEF Change

LEMMA TypeSweep ==
    ASSUME TypeOK, NEW c \in Codes, Sweep(c)
    PROVE  TypeOK'
<1>1. db' \in [Codes -> View] /\ may' \in [Codes -> SUBSET View] /\ reads' \in [Readers -> SUBSET View]
  BY StoreTypes DEF Sweep, View
<1>. QED
  BY <1>1 DEF Sweep, TypeOK

LEMMA TypeCrash == TypeOK /\ Crash => TypeOK'
<1>. SUFFICES ASSUME TypeOK, Crash PROVE TypeOK'
  OBVIOUS
<1>1. reader' \in [Readers -> ReaderState] /\ \A r \in Readers : reader'[r].pc = "idle"
  BY DEF TypeOK, Crash, IdleReader, ReaderState, View
<1>2. writer' \in [Writers -> WriterState]
      /\ \A w \in Writers : writer'[w].pc # "idle" =>
            /\ writer[w].pc # "idle" /\ writer'[w].code = writer[w].code
            /\ writer'[w].op = writer[w].op /\ writer'[w].row = writer[w].row
  <2>. SUFFICES ASSUME NEW w \in Writers
       PROVE /\ writer'[w] \in WriterState
             /\ writer'[w].pc # "idle" =>
                  /\ writer[w].pc # "idle" /\ writer'[w].code = writer[w].code
                  /\ writer'[w].op = writer[w].op /\ writer'[w].row = writer[w].row
    BY DEF Crash
  <2>1. writer[w] \in WriterState
    BY DEF TypeOK
  <2>2. CASE writer'[w] = [writer[w] EXCEPT !.pc = "lost"] /\ Sends(w)
    BY <2>1, <2>2 DEF WriterState, Sends
  <2>3. CASE writer'[w] = Idle
    BY <2>3, StoreAssumption DEF Idle, WriterState, View
  <2>4. CASE writer'[w] = writer[w]
    BY <2>1, <2>4
  <2>. QED
    BY <2>2, <2>3, <2>4 DEF Crash
<1>. QED
  BY <1>1, <1>2 DEF TypeOK, Crash

\* No step of the system leaves the types.
LEMMA TypeNext == TypeOK /\ [Next]_vars => TypeOK'
<1>. SUFFICES ASSUME TypeOK, [Next]_vars PROVE TypeOK'
  OBVIOUS
<1>1. CASE Tick
  BY <1>1, StoreAssumption DEF Tick, TypeOK
<1>2. CASE UNCHANGED vars
  BY <1>2 DEF vars, TypeOK
<1>. QED
  BY <1>1, <1>2, TypeResolve, TypeChange, TypeSweep, TypeCrash DEF Next

\* TypeOK is an invariant of the store.
THEOREM TypeCorrect == Spec => []TypeOK
BY TypeInit, TypeNext, PTL DEF Spec

-----------------------------------------------------------------------------
(* Coherent, by the inductive invariant CoherentInv.                       *)

LEMMA CoherentInit == Init => CoherentInv
BY TypeInit DEF Init, CoherentInv, Coherent, Generations, IdleGenerations, Current, IdleReader

\* A resolve changes neither the documents nor the history of the codes, so
\* only what it puts in the cache can break coherence.
LEMMA CoherentResolve ==
    ASSUME CoherentInv, NEW r \in Readers, Resolve(r)
    PROVE  CoherentInv'
<1>. USE DEF CoherentInv
<1>t. TypeOK' /\ reader[r] \in ReaderState /\ reader[r].gen \in Nat /\ gen \in Nat
  BY TypeResolve DEF TypeOK, ReaderState
<1>1. ASSUME NEW c \in Codes, Get(r, c) PROVE CoherentInv'
  BY <1>1, <1>t DEF Get, TypeOK, Coherent, Generations, IdleGenerations, Current
<1>2. CASE Generation(r)
  BY <1>2, <1>t DEF Generation, TypeOK, ReaderState, Coherent, Generations, IdleGenerations, Current
<1>3. CASE FindOne(r)
  BY <1>3, <1>t DEF FindOne, TypeOK, ReaderState, Coherent, Generations, IdleGenerations, Current
<1>4. CASE FindOneFails(r)
  BY <1>4, <1>t DEF FindOneFails, IdleReader, TypeOK, Coherent, Generations, IdleGenerations, Current
<1>5. CASE PutIfFresh(r)
  <2>1. reader[r].code \in Codes /\ reader[r].pc = "put"
    BY <1>5 DEF PutIfFresh, TypeOK
  <2>2. \A c \in Codes : cache'[c] # NoEntry => cache'[c].link \in may[c]
    BY <1>5, <2>1, RoomKeepsEntries DEF PutIfFresh, TypeOK, Coherent
  <2>3. reader'[r].gen = 0 /\ reader'[r].pc = "judge" /\ \A q \in Readers : q # r => reader'[q] = reader[q]
    BY <1>5, <1>t DEF PutIfFresh, TypeOK, ReaderState
  <2>4. gen' = gen /\ may' = may /\ db' = db
    BY <1>5 DEF PutIfFresh
  <2>5. \A q \in Readers : reader'[q].pc = "put" /\ reader'[q].gen = gen' =>
          reader'[q].view \in may'[reader'[q].code]
    BY <2>3, <2>4 DEF Coherent
  <2>6. \A q \in Readers : reader'[q].gen <= gen'
    BY <1>t, <2>3, <2>4 DEF Generations
  <2>7. \A q \in Readers : reader'[q].pc = "idle" => reader'[q].gen = 0
    BY <2>3 DEF IdleGenerations
  <2>. QED
    BY <1>t, <2>2, <2>4, <2>5, <2>6, <2>7 DEF Coherent, Generations, IdleGenerations, Current
<1>6. CASE Judge(r)
  BY <1>6, <1>t DEF Judge, IdleReader, TypeOK, Coherent, Generations, IdleGenerations, Current
<1>. QED
  BY <1>1, <1>2, <1>3, <1>4, <1>5, <1>6 DEF Resolve

\* Changing a document only widens what may be seen.
LEMMA CoherentStore ==
    ASSUME CoherentInv, NEW c \in Codes, NEW v \in View, Store(c, v), TypeOK',
           UNCHANGED <<cache, gen, reader>>
    PROVE  CoherentInv'
BY DEF CoherentInv, Store, TypeOK, Coherent, Generations, IdleGenerations, Current

\* Invalidating a code narrows what may be seen to its document, empties its
\* entry, and moves the generation past the one every reader holds.
LEMMA CoherentInvalidate ==
    ASSUME CoherentInv, NEW w \in Writers, Invalidate(w)
    PROVE  CoherentInv'
<1>. USE DEF CoherentInv
<1>1. TypeOK' /\ writer[w].code \in Codes
  BY TypeChange DEF Change, Invalidate, TypeOK
<1>2. \A r \in Readers : reader[r].gen \in Nat /\ reader[r].gen <= gen /\ gen \in Nat
  BY DEF TypeOK, ReaderState, Generations
<1>3. \A r \in Readers : reader'[r].gen <= gen' /\ reader'[r].gen # gen'
  BY <1>2 DEF Invalidate
<1>4. \A c \in Codes : cache'[c] # NoEntry => cache'[c].link \in may'[c]
  BY <1>1 DEF Invalidate, TypeOK, Coherent
<1>5. \A c \in Codes : db'[c] \in may'[c]
  BY <1>1 DEF Invalidate, TypeOK, Current
<1>6. IdleGenerations'
  BY DEF Invalidate, IdleGenerations
<1>. QED
  BY <1>1, <1>3, <1>4, <1>5, <1>6 DEF Coherent, Generations, Current

LEMMA CoherentChange ==
    ASSUME CoherentInv, NEW w \in Writers, Change(w)
    PROVE  CoherentInv'
<1>. USE DEF CoherentInv
<1>t. TypeOK'
  BY TypeChange
<1>1. CASE UNCHANGED <<db, cache, gen, reader, may>>
  BY <1>1, <1>t DEF Coherent, Generations, IdleGenerations, Current
<1>2. CASE Write(w) \/ LateWrite(w)
  <2>1. Written(w) \in View /\ writer[w].code \in Codes
    BY <1>2, WrittenIsView DEF Write, LateWrite, Pending, Sends
  <2>. QED
    BY <1>2, <1>t, <2>1, CoherentStore DEF Write, LateWrite
<1>. QED
  BY <1>1, <1>2, CoherentInvalidate DEF Change, BeginCreate, BeginRevoke, Refused, RevokeMissing,
     Duplicate, WriteFails, NeverWritten

LEMMA CoherentNext == CoherentInv /\ [Next]_vars => CoherentInv'
<1>. SUFFICES ASSUME CoherentInv, [Next]_vars PROVE CoherentInv'
  OBVIOUS
<1>t. TypeOK'
  BY TypeNext DEF CoherentInv
<1>1. CASE Tick
  BY <1>1, <1>t DEF Tick, CoherentInv, Coherent, Generations, IdleGenerations, Current
<1>2. CASE Crash
  <2>1. \A r \in Readers : reader'[r].pc = "idle" /\ reader'[r].gen = 0
    BY <1>2 DEF Crash, IdleReader, CoherentInv, IdleGenerations
  <2>. QED
    BY <1>2, <1>t, <2>1 DEF Crash, CoherentInv, Coherent, Generations, IdleGenerations, Current
<1>3. ASSUME NEW c \in Codes, Sweep(c) PROVE CoherentInv'
  BY <1>3, <1>t, CoherentStore DEF Sweep, View
<1>4. CASE UNCHANGED vars
  BY <1>4, <1>t DEF vars, CoherentInv, Coherent, Generations, IdleGenerations, Current
<1>. QED
  BY <1>1, <1>2, <1>3, <1>4, CoherentResolve, CoherentChange DEF Next

\* No resolve is ever served, and none ever stores, a value that an
\* acknowledged create or revoke replaced.
THEOREM CoherentAlways == Spec => []Coherent
<1>1. CoherentInv => Coherent
  BY DEF CoherentInv
<1>. QED
  BY <1>1, CoherentInit, CoherentNext, PTL DEF Spec

-----------------------------------------------------------------------------
(* LinkStore implements LinkRegister, by the invariant RefinementInv.      *)

LEMMA RefinementInit == Init => RefinementInv
BY CoherentInit, StoreAssumption DEF Init, RefinementInv, Seen, IndexHonest, Pending, IdleReader, Idle

LEMMA SeenResolve ==
    ASSUME RefinementInv, NEW r \in Readers, Resolve(r)
    PROVE  Seen'
<1>. USE DEF RefinementInv, CoherentInv
<1>t. TypeOK /\ TypeOK' /\ reader[r] \in ReaderState
  BY TypeResolve DEF TypeOK
<1>1. ASSUME NEW c \in Codes, Get(r, c) PROVE Seen'
  <2>1. Hit(c) => cache[c].link \in may[c]
    BY DEF Hit, Coherent
  <2>2. db[c] \in may[c] /\ c # NoCode
    BY StoreAssumption DEF Current
  <2>3. /\ reads'[r] = may[c] /\ reader'[r].code = c /\ reader'[r].out = "none"
        /\ (reader'[r].pc = "judge" /\ reader'[r].view \in may[c]) \/ reader'[r].pc = "generation"
    BY <1>1, <1>t, <2>1 DEF Get, TypeOK
  <2>4. \A q \in Readers : q # r => reader'[q] = reader[q] /\ reads'[q] = reads[q]
    BY <1>1, <1>t DEF Get, TypeOK
  <2>. QED
    BY <1>1, <2>2, <2>3, <2>4 DEF Get, Seen
<1>2. CASE Generation(r)
  BY <1>2, <1>t DEF Generation, TypeOK, ReaderState, Seen
<1>3. CASE FindOne(r)
  BY <1>3, <1>t DEF FindOne, TypeOK, ReaderState, Seen
<1>4. CASE FindOneFails(r)
  BY <1>4, <1>t, StoreAssumption DEF FindOneFails, IdleReader, TypeOK, Seen
<1>5. CASE PutIfFresh(r)
  BY <1>5, <1>t DEF PutIfFresh, TypeOK, ReaderState, Seen
<1>6. CASE Judge(r)
  <2>0. reader[r].view \in View
    BY <1>t DEF ReaderState
  <2>1. Outcome(reader[r].view, clock) # "none"
    BY <2>0, StoreAssumption DEF View, Row, Outcome
  <2>2. reader'[r].pc = "idle" /\ reader'[r].out # "none" /\ reads'[r] = {}
        /\ \A q \in Readers : q # r => reader'[q] = reader[q] /\ reads'[q] = reads[q]
    BY <1>6, <1>t, <2>1 DEF Judge, IdleReader, TypeOK
  <2>. QED
    BY <1>6, <2>2 DEF Judge, Seen
<1>. QED
  BY <1>1, <1>2, <1>3, <1>4, <1>5, <1>6 DEF Resolve

LEMMA SeenStore ==
    ASSUME RefinementInv, NEW c \in Codes, NEW v \in View, Store(c, v), UNCHANGED reader
    PROVE  Seen'
BY DEF RefinementInv, CoherentInv, TypeOK, Store, Seen

LEMMA SeenNext == RefinementInv /\ [Next]_vars => Seen'
<1>. SUFFICES ASSUME RefinementInv, [Next]_vars PROVE Seen'
  OBVIOUS
<1>. USE DEF RefinementInv, CoherentInv
<1>1. CASE UNCHANGED <<db, reader, reads>>
  BY <1>1 DEF Seen
<1>2. ASSUME NEW w \in Writers, Write(w) \/ LateWrite(w) PROVE Seen'
  <2>1. Written(w) \in View /\ writer[w].code \in Codes
    BY <1>2, WrittenIsView DEF Write, LateWrite, Pending, Sends
  <2>. QED
    BY <1>2, <2>1, SeenStore DEF Write, LateWrite
<1>3. ASSUME NEW c \in Codes, Sweep(c) PROVE Seen'
  BY <1>3, SeenStore DEF Sweep, View
<1>4. CASE Crash
  <2>. SUFFICES ASSUME NEW r \in Readers
       PROVE /\ reader'[r].pc = "idle" /\ reads'[r] = {}
             /\ ~(reader'[r].code # NoCode /\ reader'[r].out = "none")
    BY DEF Seen
  <2>1. CASE reader[r].pc = "idle"
    BY <1>4, <2>1 DEF Crash, Seen
  <2>2. CASE reader[r].pc # "idle"
    BY <1>4, <2>2 DEF Crash, IdleReader
  <2>. QED
    BY <2>1, <2>2
<1>. QED
  BY <1>1, <1>2, <1>3, <1>4, SeenResolve DEF Next, vars, Tick, Change, BeginCreate, BeginRevoke,
     Refused, RevokeMissing, Duplicate, WriteFails, NeverWritten, Invalidate

LEMMA IndexNext == RefinementInv /\ [Next]_vars => IndexHonest'
<1>. SUFFICES ASSUME RefinementInv, [Next]_vars PROVE IndexHonest'
  OBVIOUS
<1>. USE DEF RefinementInv, CoherentInv, IndexHonest, Pending
<1>1. CASE UNCHANGED <<unique, indexErr, writer>>
  BY <1>1
<1>2. ASSUME NEW w \in Writers, Change(w) PROVE IndexHonest'
  <2>1. unique' = unique /\ indexErr' = indexErr
    BY <1>2 DEF Change, BeginCreate, BeginRevoke, Refused, Write, RevokeMissing, Duplicate,
       WriteFails, LateWrite, NeverWritten, Invalidate
  <2>2. \A x \in Writers : x # w => writer'[x] = writer[x]
    BY <1>2 DEF TypeOK, Change, BeginCreate, BeginRevoke, Refused, Write, RevokeMissing, Duplicate,
       WriteFails, LateWrite, NeverWritten, Invalidate
  <2>3. Pending(w)' /\ writer'[w].op # "revoke" => unique
    <3>1. CASE WriteFails(w)
      BY <3>1 DEF WriteFails, Sends, TypeOK, WriterState
    <3>2. CASE Duplicate(w)
      <4>1. writer'[w] = Idle \/ writer'[w].pc = "write"
        BY <3>2 DEF Duplicate, Sends, TypeOK, WriterState
      <4>. QED
        BY <4>1 DEF Idle
    <3>3. CASE Write(w)
      BY <3>3 DEF Write, TypeOK, WriterState
    <3>. QED
      BY <1>2, <3>1, <3>2, <3>3 DEF Change, BeginCreate, BeginRevoke, Refused, RevokeMissing,
         LateWrite, NeverWritten, Invalidate, Idle, TypeOK
  <2>. QED
    BY <2>1, <2>2, <2>3
<1>3. CASE Crash
  <2>1. \A w \in Writers : Pending(w)' /\ writer'[w].op # "revoke" =>
           writer[w].op # "revoke" /\ (Pending(w) \/ Sends(w))
    <3>. SUFFICES ASSUME NEW w \in Writers, Pending(w)', writer'[w].op # "revoke"
         PROVE writer[w].op # "revoke" /\ (Pending(w) \/ Sends(w))
      OBVIOUS
    <3>1. writer[w] \in WriterState
      BY DEF TypeOK
    <3>2. writer'[w] = (IF Sends(w) THEN [writer[w] EXCEPT !.pc = "lost"] ELSE IF Running(w) THEN Idle ELSE writer[w])
          /\ Idle.pc = "idle"
      BY <1>3 DEF Crash, Idle
    <3>3. Pending(w) \/ Sends(w)
      BY <3>2
    <3>4. writer'[w].op = writer[w].op
      <4>1. CASE Sends(w)
        BY <3>1, <3>2, <4>1 DEF WriterState
      <4>2. CASE ~Sends(w)
        BY <3>2, <4>2
      <4>. QED
        BY <4>1, <4>2
    <3>. QED
      BY <3>3, <3>4
  <2>. QED
    BY <1>3, <2>1 DEF Crash, Sends
<1>. QED
  BY <1>1, <1>2, <1>3 DEF Next, vars, Tick, Sweep, Resolve, Get, Generation, FindOne, FindOneFails,
     PutIfFresh, Judge

LEMMA RefinementInvariant == Spec => []RefinementInv
<1>1. RefinementInv /\ [Next]_vars => RefinementInv'
  BY SeenNext, IndexNext, CoherentNext DEF RefinementInv
<1>. QED
  BY <1>1, RefinementInit, PTL DEF Spec

\* The register's step when a document changes.
LEMMA StoreIsChange ==
    ASSUME RefinementInv, NEW c \in Codes, NEW v \in View, Store(c, v),
           Register!Legal(db[c], v), UNCHANGED <<reader, clock>>
    PROVE  Register!Change(c, v)
<1>1. \A r \in Readers : Register!Pending(r) <=> reader[r].pc # "idle"
  BY DEF RefinementInv, Seen, Register!Pending
<1>2. reads' = [r \in Readers |-> IF reader[r].code = c /\ Register!Pending(r)
                                 THEN reads[r] \cup {v} ELSE reads[r]]
  BY <1>1 DEF Store
<1>3. \A r \in Readers : [q \in Readers |-> reader[q].code][r] = reader[r].code
  OBVIOUS
<1>. QED
  BY <1>2, <1>3 DEF Store, Register!Change

LEMMA RegisterInit == Init => Register!Init
BY DEF Init, Register!Init, IdleReader

\* Get asks, Judge answers, a failed query fails; the steps between are the
\* register's stutters.
LEMMA RegisterResolve ==
    ASSUME RefinementInv, NEW r \in Readers, Resolve(r)
    PROVE  Register!Next \/ UNCHANGED Register!vars
<1>. USE DEF RefinementInv, CoherentInv
<1>t. TypeOK /\ reader[r] \in ReaderState
  BY DEF TypeOK
<1>p. Register!Pending(r) <=> reader[r].pc # "idle"
  BY DEF Seen, Register!Pending
<1>1. ASSUME NEW c \in Codes, Get(r, c) PROVE Register!Ask(r, c)
  <2>1. [q \in Readers |-> reader'[q].code] = [[q \in Readers |-> reader[q].code] EXCEPT ![r] = c]
    BY <1>1, <1>t DEF Get, TypeOK
  <2>2. [q \in Readers |-> reader'[q].out] = [[q \in Readers |-> reader[q].out] EXCEPT ![r] = "none"]
    BY <1>1, <1>t DEF Get, TypeOK
  <2>. QED
    BY <1>1, <1>p, <2>1, <2>2 DEF Get, Register!Ask
<1>2. CASE Generation(r) \/ FindOne(r) \/ PutIfFresh(r)
  <2>1. \A q \in Readers : reader'[q].code = reader[q].code /\ reader'[q].out = reader[q].out
    <3>1. CASE Generation(r)
      BY <3>1, <1>t DEF Generation, TypeOK, ReaderState
    <3>2. CASE FindOne(r)
      BY <3>2, <1>t DEF FindOne, TypeOK, ReaderState
    <3>3. CASE PutIfFresh(r)
      BY <3>3, <1>t DEF PutIfFresh, TypeOK, ReaderState
    <3>. QED
      BY <1>2, <3>1, <3>2, <3>3
  <2>2. /\ [q \in Readers |-> reader'[q].code] = [q \in Readers |-> reader[q].code]
        /\ [q \in Readers |-> reader'[q].out] = [q \in Readers |-> reader[q].out]
    BY <2>1
  <2>. QED
    BY <1>2, <2>2 DEF Generation, FindOne, PutIfFresh, Register!vars
<1>3. CASE FindOneFails(r)
  <2>1. [q \in Readers |-> reader'[q].code] = [q \in Readers |-> reader[q].code]
    BY <1>3, <1>t DEF FindOneFails, IdleReader, TypeOK
  <2>2. [q \in Readers |-> reader'[q].out] = [[q \in Readers |-> reader[q].out] EXCEPT ![r] = "error"]
    BY <1>3, <1>t DEF FindOneFails, IdleReader, TypeOK
  <2>3. Register!Fail(r)
    BY <1>3, <1>p, <2>1, <2>2 DEF FindOneFails, Register!Fail
  <2>. QED
    BY <2>3 DEF Register!Next
<1>4. CASE Judge(r)
  <2>1. [q \in Readers |-> reader'[q].code] = [q \in Readers |-> reader[q].code]
    BY <1>4, <1>t DEF Judge, IdleReader, TypeOK
  <2>2. [q \in Readers |-> reader'[q].out] =
        [[q \in Readers |-> reader[q].out] EXCEPT ![r] = Outcome(reader[r].view, clock)]
    BY <1>4, <1>t DEF Judge, IdleReader, TypeOK
  <2>3. reader[r].view \in reads[r]
    BY <1>4 DEF Judge, Seen
  <2>4. Outcome(reader[r].view, clock) = Register!Outcome(reader[r].view, clock)
    BY DEF Outcome, Register!Outcome, Expired, Register!Expired
  <2>5. Register!Answer(r)
    BY <1>4, <1>p, <2>1, <2>2, <2>3, <2>4 DEF Judge, Register!Answer
  <2>. QED
    BY <2>5 DEF Register!Next
<1>. QED
  BY <1>1, <1>2, <1>3, <1>4 DEF Resolve, Register!Next

\* A write is legal: the index lets an insert take only a free code.
LEMMA WriteIsLegal ==
    ASSUME RefinementInv, NEW w \in Writers, Write(w) \/ LateWrite(w)
    PROVE  Register!Legal(db[writer[w].code], Written(w))
<1>. USE DEF RefinementInv, CoherentInv
<1>1. Written(w) \in Row /\ Applies(w)
  BY WrittenIsView DEF Write, LateWrite, Pending, Sends
<1>2. CASE writer[w].op = "revoke"
  BY <1>1, <1>2 DEF Applies, Written, Register!Legal
<1>3. CASE writer[w].op # "revoke"
  <2>1. unique
    BY <1>3 DEF IndexHonest, Write, LateWrite, Sends
  <2>2. ~Written(w).revoked
    BY <1>3 DEF Written, TypeOK, Write, LateWrite, Pending, Sends
  <2>3. Row = Register!Row
    BY DEF Row, Register!Row, Expiries, Register!Expiries
  <2>. QED
    BY <1>1, <1>3, <2>1, <2>2, <2>3 DEF Applies, Register!Legal
<1>. QED
  BY <1>2, <1>3

LEMMA RegisterChange ==
    ASSUME RefinementInv, NEW w \in Writers, Change(w)
    PROVE  Register!Next \/ UNCHANGED Register!vars
<1>. USE DEF RefinementInv, CoherentInv
<1>v. View = Register!View
  BY DEF View, Register!View, Row, Register!Row, Expiries, Register!Expiries
<1>1. CASE UNCHANGED <<db, reader, clock, may, reads>>
  BY <1>1 DEF Register!vars
<1>2. CASE Write(w) \/ LateWrite(w)
  <2>1. Written(w) \in View /\ writer[w].code \in Codes
    BY <1>2, WrittenIsView DEF Write, LateWrite, Pending, Sends
  <2>2. Register!Change(writer[w].code, Written(w))
    BY <1>2, <2>1, WriteIsLegal, StoreIsChange DEF Write, LateWrite
  <2>. QED
    BY <1>v, <2>1, <2>2 DEF Register!Next
<1>3. CASE Invalidate(w)
  <2>1. writer[w].code \in Codes
    BY <1>3 DEF Invalidate, TypeOK
  <2>2. Register!Acknowledge(writer[w].code)
    BY <1>3 DEF Invalidate, Register!Acknowledge
  <2>. QED
    BY <2>1, <2>2 DEF Register!Next
<1>. QED
  BY <1>1, <1>2, <1>3 DEF Change, BeginCreate, BeginRevoke, Refused, RevokeMissing,
     Duplicate, WriteFails, NeverWritten

LEMMA RegisterNext ==
    ASSUME RefinementInv, [Next]_vars
    PROVE  Register!Next \/ UNCHANGED Register!vars
<1>. USE DEF RefinementInv, CoherentInv
<1>v. View = Register!View
  BY DEF View, Register!View, Row, Register!Row, Expiries, Register!Expiries
<1>1. CASE Tick
  BY <1>1 DEF Tick, Register!Tick, Register!Next
<1>2. CASE Crash
  <2>1. \A r \in Readers : Register!Pending(r) <=> reader[r].pc # "idle"
    BY DEF Seen, Register!Pending
  <2>2. [q \in Readers |-> reader'[q].code] = [q \in Readers |-> reader[q].code]
    BY <1>2 DEF Crash, IdleReader
  <2>3. [q \in Readers |-> reader'[q].out] =
        [r \in Readers |-> IF Register!Pending(r) THEN "error" ELSE [q \in Readers |-> reader[q].out][r]]
    BY <1>2, <2>1 DEF Crash, IdleReader
  <2>4. Register!Restart
    BY <1>2, <2>2, <2>3 DEF Crash, Register!Restart
  <2>. QED
    BY <2>4 DEF Register!Next
<1>3. ASSUME NEW c \in Codes, Sweep(c) PROVE Register!Next
  <2>1. Register!Legal(db[c], NoRow)
    BY <1>3 DEF Sweep, Register!Legal
  <2>2. Register!Change(c, NoRow)
    BY <1>3, <2>1, StoreIsChange DEF Sweep, View
  <2>. QED
    BY <1>v, <2>2 DEF Register!Next, View
<1>4. CASE UNCHANGED vars
  BY <1>4 DEF vars, Register!vars
<1>. QED
  BY <1>1, <1>2, <1>3, <1>4, RegisterResolve, RegisterChange DEF Next

\* The store with its cache implements the register its users are promised.
THEOREM StoreImplementsRegister == Spec => ImplementsRegister
<1>1. RefinementInv /\ [Next]_vars => [Register!Next]_(Register!vars)
  BY RegisterNext
<1>. QED
  BY <1>1, RegisterInit, RefinementInvariant, PTL DEF Spec, ImplementsRegister, Register!Spec

-----------------------------------------------------------------------------
(* The bound on the cache.                                                 *)

LEMMA CachedFinite ==
    ASSUME NEW k PROVE IsFiniteSet(Cached(k)) /\ Cardinality(Cached(k)) \in Nat
BY StoreAssumption, FS_Subset, FS_CardinalityType DEF Cached

\* Making room leaves a free place.
LEMMA RoomLeft == Cardinality(Cached(WithRoom)) < CacheMax
<1>1. Cached([c \in Codes |-> NoEntry]) = {}
  BY DEF Cached
<1>2. Cardinality(Cached([c \in Codes |-> NoEntry])) < CacheMax
  BY <1>1, FS_EmptySet, StoreAssumption
<1>. QED
  BY <1>2 DEF WithRoom

LEMMA FewerCached ==
    ASSUME NEW k, NEW l, Cached(l) \subseteq Cached(k), Cardinality(Cached(k)) <= CacheMax
    PROVE  Cardinality(Cached(l)) <= CacheMax
<1>1. Cardinality(Cached(l)) <= Cardinality(Cached(k))
  BY CachedFinite, FS_Subset
<1>. QED
  BY <1>1, CachedFinite, StoreAssumption

LEMMA BoundedPut ==
    ASSUME TypeOK, NEW r \in Readers, PutIfFresh(r), CacheBounded
    PROVE  CacheBounded'
<1>1. CASE cache' = cache
  BY <1>1 DEF CacheBounded, Cached
<1>2. CASE cache' = [WithRoom EXCEPT ![reader[r].code] =
                         [link |-> reader[r].view, expires |-> clock + CacheTtl]]
  <2>. DEFINE kept == Cached(WithRoom)
              both == kept \cup {reader[r].code}
  <2>1. Cached(cache') \subseteq both
    BY <1>2, RoomKeepsEntries DEF Cached
  <2>2. IsFiniteSet(kept) /\ Cardinality(kept) \in Nat /\ Cardinality(kept) < CacheMax
    BY CachedFinite, RoomLeft
  <2>. HIDE DEF kept
  <2>3. IsFiniteSet(both) /\ Cardinality(both) <= Cardinality(kept) + 1
    BY <2>2, FS_AddElement
  <2>4. Cardinality(both) \in Nat
    BY <2>3, FS_CardinalityType
  <2>. HIDE DEF both
  <2>5. Cardinality(Cached(cache')) <= Cardinality(both) /\ Cardinality(Cached(cache')) \in Nat
    BY <2>1, <2>3, FS_Subset, CachedFinite
  <2>. QED
    BY <2>2, <2>3, <2>4, <2>5, StoreAssumption DEF CacheBounded, Cached
<1>. QED
  BY <1>1, <1>2 DEF PutIfFresh

\* However many codes are asked for, the cache holds at most CacheMax.
THEOREM CacheStaysBounded == Spec => []CacheBounded
<1>1. Init => CacheBounded
  <2>1. Init => Cached(cache) = {}
    BY DEF Init, Cached
  <2>. QED
    BY <2>1, FS_EmptySet, StoreAssumption DEF CacheBounded
<1>2. TypeOK /\ CacheBounded /\ [Next]_vars => CacheBounded'
  <2>. SUFFICES ASSUME TypeOK, CacheBounded, [Next]_vars PROVE CacheBounded'
    OBVIOUS
  <2>1. CASE cache' = cache
    BY <2>1 DEF CacheBounded, Cached
  <2>2. CASE \A c \in Codes : cache'[c] = NoEntry \/ cache'[c] = cache[c]
    <3>1. Cached(cache') \subseteq Cached(cache)
      BY <2>2 DEF Cached
    <3>. QED
      BY <3>1, FewerCached DEF CacheBounded, Cached
  <2>3. ASSUME NEW r \in Readers, PutIfFresh(r) PROVE CacheBounded'
    BY <2>3, BoundedPut
  <2>4. ASSUME NEW w \in Writers, Invalidate(w) PROVE \A c \in Codes : cache'[c] = NoEntry \/ cache'[c] = cache[c]
    BY <2>4 DEF Invalidate, TypeOK
  <2>5. Crash => \A c \in Codes : cache'[c] = NoEntry
    BY DEF Crash
  <2>. QED
    BY <2>1, <2>2, <2>3, <2>4, <2>5 DEF Next, vars, Tick, Sweep, Resolve, Get, Generation, FindOne,
       FindOneFails, Judge, Change, BeginCreate, BeginRevoke, Refused, Write, RevokeMissing,
       Duplicate, WriteFails, LateWrite, NeverWritten
<1>. QED
  BY <1>1, <1>2, TypeCorrect, PTL DEF Spec
=============================================================================
