--------------------------- MODULE ShutdownProofs ---------------------------
(***************************************************************************)
(* The request log alone, for any set of requests, any buffer and any      *)
(* number of calls of Close; then the whole process, for any requests,     *)
(* queues and syncs: each of its steps is one of the request log or of the *)
(* hit batcher, or neither; so what holds of the log holds here, the hits  *)
(* are kept the same way, and the client closes behind both.               *)
(***************************************************************************)
EXTENDS Shutdown, DrainQueueProofs

-----------------------------------------------------------------------------
(* The request log.  Its invariant joins the queue's lock discipline,      *)
(* where every entry is, and what the writer knows when it leaves.         *)

Inv == TypeOK /\ LockDiscipline /\ WriterInv /\ InOnePlace

LEMMA InvInit == Init => Inv
<1>. SUFFICES ASSUME Init PROVE Inv
  OBVIOUS
<1>1. QueueTypeOK /\ LockDiscipline
  BY QueueInitInv DEF Init
<1>2. ch = <<>> /\ done = FALSE /\ \A i \in Items : sender[i] = "new"
  BY DEF Init, QueueInit
<1>3. \A c \in Closers : closer[c] = "new"
  BY DEF Init, QueueInit
<1>4. TypeOK
  BY <1>1 DEF Init, TypeOK
<1>5. WriterInv
  BY <1>2, <1>3 DEF Init, WriterInv
<1>6. NoRepeats /\ \A i \in Items : ~Waiting(i)
  BY <1>2 DEF NoRepeats, Waiting
<1>7. InOnePlace
  BY <1>2, <1>6 DEF Init, InOnePlace, Holds
<1>. QED
  BY <1>1, <1>4, <1>5, <1>7 DEF Inv

\* The queue's users: an item that is accepted was in no place before.
LEMMA InvQueueStep ==
    ASSUME Inv, QueueStep, UNCHANGED writerVars
    PROVE  Inv'
<1>. USE DEF Inv
<1>1. QueueTypeOK /\ QueueTypeOK' /\ LockDiscipline'
  BY QueueStepInv DEF TypeOK
<1>2. TypeOK'
  BY <1>1 DEF TypeOK, writerVars
<1>c. /\ done' = done /\ (shut => shut')
      /\ \A c \in Closers : closer'[c] = "drained" => closer[c] = "drained" \/ done
  BY <1>1, QueueStepDone
<1>3. CASE /\ ch' = ch
           /\ \A i \in Items : sender'[i] = "in" <=> sender[i] = "in"
  <2>1. NoRepeats' /\ \A i \in Items : Waiting(i)' <=> Waiting(i)
    BY <1>3 DEF InOnePlace, NoRepeats, Waiting
  <2>2. InOnePlace'
    BY <1>3, <2>1 DEF InOnePlace, Holds, writerVars
  <2>3. WriterInv'
    BY <1>3, <1>c DEF WriterInv, Finished, writerVars
  <2>. QED
    BY <1>1, <1>2, <2>2, <2>3
<1>4. ASSUME NEW i \in Items, ch' = Append(ch, i), ~shut, sender[i] = "open", sender'[i] = "in",
             \A j \in Items : j # i => sender'[j] = sender[j]
      PROVE  Inv'
  <2>1. ~Waiting(i) /\ ~Holds(i) /\ tried[i] = 0
    BY <1>4 DEF InOnePlace
  <2>2. NoRepeats' /\ \A j \in Items : Waiting(j)' <=> Waiting(j) \/ j = i
    BY <1>1, <1>4, <2>1, AppendItem DEF InOnePlace, QueueTypeOK
  <2>3. InOnePlace'
    BY <1>4, <2>1, <2>2 DEF InOnePlace, Holds, writerVars
  <2>4. ~done
    BY <1>4 DEF WriterInv, Finished
  <2>5. WriterInv'
    BY <1>c, <2>4 DEF WriterInv, writerVars
  <2>. QED
    BY <1>1, <1>2, <2>3, <2>5
<1>. QED
  BY <1>1, <1>3, <1>4, QueueStepItems

LEMMA InvTake ==
    ASSUME Inv, NEW i \in Items, Take(i)
    PROVE  Inv'
<1>. USE DEF Inv
<1>1. QueueTypeOK' /\ LockDiscipline'
  BY WorkerStepInv DEF Take, TypeOK
<1>2. ch \in Seq(Items) /\ ch # <<>> /\ i = Head(ch) /\ ch' = Tail(ch) /\ ~done /\ done' = done
      /\ sender' = sender /\ closer' = closer /\ current = NoItem
  BY DEF Take, Receive, TypeOK, QueueTypeOK, WriterInv
<1>3. NoRepeats' /\ Waiting(i) /\ ~Waiting(i)' /\ \A j \in Items : j # i => (Waiting(j)' <=> Waiting(j))
  BY <1>2, TakeItem DEF InOnePlace
<1>4. at' = "insert" /\ current' = i /\ UNCHANGED <<tried, stored, flagged>>
  BY DEF Take
<1>5. InOnePlace'
  BY <1>2, <1>3, <1>4, LogAssumption DEF InOnePlace, Holds
<1>6. TypeOK'
  BY <1>1, <1>4 DEF TypeOK
<1>7. WriterInv'
  BY <1>2, <1>4, LogAssumption DEF WriterInv
<1>. QED
  BY <1>1, <1>5, <1>6, <1>7

LEMMA InvWork ==
    ASSUME Inv, Insert \/ FlagProbe
    PROVE  Inv'
<1>. USE DEF Inv
<1>1. UNCHANGED queue
  BY DEF Insert, FlagProbe
<1>2. QueueTypeOK' /\ LockDiscipline'
  BY <1>1 DEF queue, TypeOK, QueueTypeOK, LockDiscipline, ReadLocked, WriteLocked
<1>3. NoRepeats' /\ \A i \in Items : Waiting(i)' <=> Waiting(i)
  BY <1>1 DEF queue, NoRepeats, Waiting, InOnePlace
<1>4. CASE Insert
  <2>1. at = "insert" /\ current \in Items /\ tried' = [tried EXCEPT ![current] = @ + 1]
        /\ at' \in {"receive", "probe", "expired"}
        /\ (at' = "receive" <=> current' = NoItem)
        /\ (at' \in {"probe", "expired"} => current' \in Probes)
    BY <1>4, LogAssumption DEF Insert, WriterInv, TypeOK
  <2>2. Holds(current) /\ tried[current] = 0 /\ tried'[current] = 1 /\ ~Waiting(current)
        /\ sender[current] = "in"
    BY <2>1 DEF Holds, InOnePlace, TypeOK
  <2>3. ASSUME NEW i \in Items
        PROVE  /\ tried'[i] \in {0, 1}
               /\ ~Holds(i)'
               /\ Waiting(i) => tried'[i] = 0
               /\ sender[i] = "in" <=> Waiting(i) \/ tried'[i] = 1
    <3>1. ~Holds(i)'
      BY <2>1 DEF Holds
    <3>2. CASE i = current
      BY <2>2, <3>1, <3>2
    <3>3. CASE i # current
      <4>1. tried'[i] = tried[i] /\ ~Holds(i)
        BY <2>1, <3>3 DEF TypeOK, Holds
      <4>. QED
        BY <3>1, <4>1 DEF InOnePlace
    <3>. QED
      BY <3>2, <3>3
  <2>4. sender' = sender
    BY <1>1 DEF queue
  <2>5. InOnePlace'
    BY <1>3, <2>3, <2>4 DEF InOnePlace
  <2>6. TypeOK'
    <3>1. tried' \in [Items -> Nat]
      BY <2>1, <2>2 DEF TypeOK
    <3>2. stored' \subseteq Items /\ flagged' = flagged
      BY <1>4, <2>1 DEF Insert, TypeOK
    <3>. QED
      BY <1>2, <2>1, <3>1, <3>2, LogAssumption DEF TypeOK
  <2>7. WriterInv'
    BY <1>1, <2>1 DEF WriterInv, queue, Finished
  <2>. QED
    BY <1>2, <2>5, <2>6, <2>7
<1>5. CASE FlagProbe
  <2>1. at \in {"probe", "expired"} /\ current \in Probes /\ at' = "receive" /\ current' = NoItem
        /\ UNCHANGED <<tried, stored>>
    BY <1>5 DEF FlagProbe, WriterInv
  <2>2. flagged' \subseteq Probes
    BY <1>5, <2>1 DEF FlagProbe, TypeOK
  <2>3. TypeOK'
    BY <1>2, <2>1, <2>2 DEF TypeOK
  <2>4. \A i \in Items : ~Holds(i) /\ ~Holds(i)'
    BY <2>1 DEF Holds
  <2>5. InOnePlace'
    BY <1>1, <1>3, <2>1, <2>4 DEF InOnePlace, queue
  <2>6. WriterInv'
    BY <1>1, <2>1 DEF WriterInv, queue, Finished
  <2>. QED
    BY <1>2, <2>3, <2>5, <2>6
<1>. QED
  BY <1>4, <1>5

LEMMA InvExit ==
    ASSUME Inv, Exit
    PROVE  Inv'
<1>. USE DEF Inv
<1>1. QueueTypeOK' /\ LockDiscipline'
  BY WorkerStepInv DEF Exit, TypeOK
<1>2. UNCHANGED <<sender, closer, ch, shut>> /\ UNCHANGED writerVars /\ Finished /\ at = "receive"
  BY DEF Exit, Leave
<1>3. InOnePlace'
  BY <1>2 DEF InOnePlace, NoRepeats, Waiting, Holds, writerVars
<1>4. WriterInv'
  BY <1>2 DEF WriterInv, writerVars, Finished, Exit, Leave
<1>. QED
  BY <1>1, <1>2, <1>3, <1>4 DEF TypeOK, writerVars

LEMMA InvNext == Inv /\ [Next]_vars => Inv'
<1>. SUFFICES ASSUME Inv, [Next]_vars PROVE Inv'
  OBVIOUS
<1>1. CASE UNCHANGED vars
  <2>1. UNCHANGED <<sender, closer, ch, closed, shut, panicked, done>> /\ UNCHANGED writerVars
    BY <1>1 DEF vars, queue
  <2>. QED
    BY <2>1 DEF Inv, TypeOK, QueueTypeOK, LockDiscipline, ReadLocked, WriteLocked, WriterInv,
       Finished, InOnePlace, NoRepeats, Waiting, Holds, writerVars
<1>. QED
  BY <1>1, InvQueueStep, InvTake, InvWork, InvExit DEF Next, Writer

LEMMA InvAlways == Spec => []Inv
BY InvInit, InvNext, PTL DEF Spec

\* No interleaving of requests and closes sends on, or closes, a closed channel.
THEOREM RequestLogNeverPanics == Spec => []NoPanic
<1>1. Inv => NoPanic
  BY DEF Inv, LockDiscipline, NoPanic
<1>. QED
  BY <1>1, InvAlways, PTL

\* Every entry the queue took is in one place and is inserted at most once.
THEOREM EntryInOnePlace == Spec => []InOnePlace
<1>1. Inv => InOnePlace
  BY DEF Inv
<1>. QED
  BY <1>1, InvAlways, PTL

\* A Close that reports the queue drained leaves no entry behind.
THEOREM DrainedLeavesNothing == Spec => []DrainedMeansTried
<1>1. Inv => DrainedMeansTried
  <2>. SUFFICES ASSUME Inv, NEW c \in Closers, closer[c] = "drained", NEW i \in Items, sender[i] = "in"
       PROVE tried[i] = 1
    BY DEF DrainedMeansTried
  <2>1. ch = <<>> /\ at = "receive"
    BY DEF Inv, WriterInv, Finished
  <2>2. ~Waiting(i) /\ ~Holds(i)
    BY <2>1 DEF Waiting, Holds
  <2>. QED
    BY <2>2 DEF Inv, InOnePlace
<1>. QED
  BY <1>1, InvAlways, PTL

-----------------------------------------------------------------------------
(* The hits' queue is a DrainQueue: its lemmas, in the batcher's names.     *)

HQ == INSTANCE DrainQueueProofs WITH
    CloserWaits <- TRUE,
    sender <- hsender, closer <- hcloser, ch <- hch, closed <- hclosed, shut <- hshut,
    panicked <- hpanicked, done <- hdone

LEMMA SameQueue ==
    /\ Hits!QueueInit <=> HQ!QueueInit
    /\ Hits!QueueTypeOK <=> HQ!QueueTypeOK
    /\ Hits!LockDiscipline <=> HQ!LockDiscipline
    /\ Hits!NoRepeats <=> HQ!NoRepeats
    /\ \A i \in Items : Hits!Waiting(i) <=> HQ!Waiting(i)
BY DEF Hits!QueueInit, HQ!QueueInit, Hits!QueueTypeOK, HQ!QueueTypeOK, Hits!LockDiscipline,
   HQ!LockDiscipline, Hits!ReadLocked, HQ!ReadLocked, Hits!WriteLocked, HQ!WriteLocked,
   Hits!NoRepeats, HQ!NoRepeats, Hits!Waiting, HQ!Waiting

LEMMA SameSender ==
    ASSUME NEW i \in Items, Hits!Call(i) \/ Hits!Sending(i)
    PROVE  HQ!Call(i) \/ HQ!Sending(i)
BY DEF Hits!Call, HQ!Call, Hits!Sending, HQ!Sending, Hits!RLock, HQ!RLock, Hits!CheckClosed,
   HQ!CheckClosed, Hits!Send, HQ!Send, Hits!WriteLocked, HQ!WriteLocked

LEMMA SameCloser ==
    ASSUME NEW c \in Closers, Hits!BeginClose(c) \/ Hits!Closing(c)
    PROVE  HQ!BeginClose(c) \/ HQ!Closing(c)
BY DEF Hits!BeginClose, HQ!BeginClose, Hits!Closing, HQ!Closing, Hits!Lock, HQ!Lock,
   Hits!SetClosed, HQ!SetClosed, Hits!CloseChannel, HQ!CloseChannel, Hits!Drained, HQ!Drained,
   Hits!GiveUp, HQ!GiveUp, Hits!ReadLocked, HQ!ReadLocked, Hits!WriteLocked, HQ!WriteLocked

LEMMA HitsQueueStep ==
    ASSUME Hits!QueueTypeOK, Hits!LockDiscipline, Hits!QueueStep
    PROVE  /\ Hits!QueueTypeOK' /\ Hits!LockDiscipline'
           /\ hdone' = hdone /\ (hshut => hshut')
           /\ \A c \in Closers : hcloser'[c] = "drained" => hcloser[c] = "drained" \/ hdone
           /\ \/ /\ hch' = hch
                 /\ \A i \in Items : hsender'[i] = "in" <=> hsender[i] = "in"
              \/ \E i \in Items : /\ hch' = Append(hch, i) /\ ~hshut
                                  /\ hsender[i] = "open" /\ hsender'[i] = "in"
                                  /\ \A j \in Items : j # i => hsender'[j] = hsender[j]
<1>1. HQ!QueueTypeOK /\ HQ!LockDiscipline
  BY SameQueue
<1>2. HQ!QueueStep
  BY SameSender, SameCloser DEF Hits!QueueStep, HQ!QueueStep
<1>3. HQ!QueueTypeOK' /\ HQ!LockDiscipline'
  BY <1>1, <1>2, HQ!QueueStepInv, QueueAssumption
<1>4. Hits!QueueTypeOK' /\ Hits!LockDiscipline'
  BY <1>3, SameQueue, PTL
<1>5. /\ hdone' = hdone /\ (hshut => hshut')
      /\ \A c \in Closers : hcloser'[c] = "drained" => hcloser[c] = "drained" \/ hdone
  BY <1>1, <1>2, HQ!QueueStepDone, QueueAssumption
<1>6. \/ /\ hch' = hch
         /\ \A i \in Items : hsender'[i] = "in" <=> hsender[i] = "in"
      \/ \E i \in Items : /\ hch' = Append(hch, i) /\ ~hshut
                          /\ hsender[i] = "open" /\ hsender'[i] = "in"
                          /\ \A j \in Items : j # i => hsender'[j] = hsender[j]
  BY <1>1, <1>2, HQ!QueueStepItems, QueueAssumption
<1>. QED
  BY <1>4, <1>5, <1>6

LEMMA HitsWorkerStep ==
    ASSUME Hits!QueueTypeOK, Hits!LockDiscipline, (\E i \in Items : Hits!Receive(i)) \/ Hits!Leave
    PROVE  Hits!QueueTypeOK' /\ Hits!LockDiscipline'
<1>1. HQ!QueueTypeOK /\ HQ!LockDiscipline
  BY SameQueue
<1>2. (\E i \in Items : HQ!Receive(i)) \/ HQ!Leave
  BY DEF Hits!Receive, HQ!Receive, Hits!Leave, HQ!Leave
<1>3. HQ!QueueTypeOK' /\ HQ!LockDiscipline'
  BY <1>1, <1>2, HQ!WorkerStepInv, QueueAssumption
<1>. QED
  BY <1>3, SameQueue, PTL

LEMMA HitsAppend ==
    ASSUME hch \in Seq(Items), Hits!NoRepeats, NEW i \in Items, ~Hits!Waiting(i), hch' = Append(hch, i)
    PROVE  /\ Hits!NoRepeats'
           /\ \A j \in Items : Hits!Waiting(j)' <=> Hits!Waiting(j) \/ j = i
<1>1. HQ!NoRepeats /\ ~HQ!Waiting(i)
  BY SameQueue
<1>2. HQ!NoRepeats' /\ \A j \in Items : HQ!Waiting(j)' <=> HQ!Waiting(j) \/ j = i
  BY <1>1, HQ!AppendItem DEF HQ!NoRepeats, HQ!Waiting
<1>. QED
  BY <1>2 DEF Hits!NoRepeats, HQ!NoRepeats, Hits!Waiting, HQ!Waiting

LEMMA HitsTake ==
    ASSUME hch \in Seq(Items), Hits!NoRepeats, hch # <<>>, NEW i \in Items, i = Head(hch), hch' = Tail(hch)
    PROVE  /\ Hits!NoRepeats'
           /\ Hits!Waiting(i) /\ ~Hits!Waiting(i)'
           /\ \A j \in Items : j # i => (Hits!Waiting(j)' <=> Hits!Waiting(j))
<1>1. HQ!NoRepeats
  BY SameQueue
<1>2. /\ HQ!NoRepeats' /\ HQ!Waiting(i) /\ ~HQ!Waiting(i)'
      /\ \A j \in Items : j # i => (HQ!Waiting(j)' <=> HQ!Waiting(j))
  BY <1>1, HQ!TakeItem DEF HQ!NoRepeats, HQ!Waiting
<1>. QED
  BY <1>2 DEF Hits!NoRepeats, HQ!NoRepeats, Hits!Waiting, HQ!Waiting

-----------------------------------------------------------------------------
(* The hit batcher.                                                        *)

\* Where every hit is, and what the batcher knows when it leaves.
HitInv ==
    /\ Hits!TypeOK /\ Hits!LockDiscipline /\ Hits!HitInOnePlace
    /\ hdone => Hits!Finished /\ pending = {}
    /\ \A c \in Closers : hcloser[c] = "drained" => hdone

LEMMA HitInvInit == Hits!Init => HitInv
<1>. SUFFICES ASSUME Hits!Init PROVE HitInv
  OBVIOUS
<1>1. Hits!QueueTypeOK /\ Hits!LockDiscipline
  <2>1. HQ!QueueInit
    BY SameQueue DEF Hits!Init
  <2>. QED
    BY <2>1, SameQueue, HQ!QueueInitInv, QueueAssumption
<1>2. /\ hch = <<>> /\ hdone = FALSE /\ pending = {} /\ counted = {}
      /\ flushed = [i \in Items |-> 0]
      /\ \A i \in Items : hsender[i] = "new"
      /\ \A c \in Closers : hcloser[c] = "new"
  BY DEF Hits!Init, Hits!QueueInit
<1>3. Hits!NoRepeats /\ \A i \in Items : ~Hits!Waiting(i)
  BY <1>2 DEF Hits!NoRepeats, Hits!Waiting
<1>4. Hits!TypeOK
  BY <1>1, <1>2 DEF Hits!TypeOK
<1>5. Hits!HitInOnePlace
  BY <1>2, <1>3 DEF Hits!HitInOnePlace
<1>. QED
  BY <1>1, <1>2, <1>4, <1>5 DEF HitInv

LEMMA HitInvQueue ==
    ASSUME HitInv, Hits!QueueStep, UNCHANGED <<pending, flushed, counted>>
    PROVE  HitInv'
<1>1. Hits!QueueTypeOK /\ Hits!LockDiscipline /\ Hits!HitInOnePlace
  BY DEF HitInv, Hits!TypeOK
<1>2. /\ Hits!QueueTypeOK' /\ Hits!LockDiscipline'
      /\ hdone' = hdone /\ (hshut => hshut')
      /\ \A c \in Closers : hcloser'[c] = "drained" => hcloser[c] = "drained" \/ hdone
      /\ \/ /\ hch' = hch
            /\ \A i \in Items : hsender'[i] = "in" <=> hsender[i] = "in"
         \/ \E i \in Items : /\ hch' = Append(hch, i) /\ ~hshut
                             /\ hsender[i] = "open" /\ hsender'[i] = "in"
                             /\ \A j \in Items : j # i => hsender'[j] = hsender[j]
  BY <1>1, HitsQueueStep
<1>3. Hits!TypeOK'
  BY <1>2 DEF HitInv, Hits!TypeOK
<1>4. \A c \in Closers : hcloser'[c] = "drained" => hdone'
  BY <1>2 DEF HitInv
<1>5. CASE /\ hch' = hch
           /\ \A i \in Items : hsender'[i] = "in" <=> hsender[i] = "in"
  <2>1. Hits!NoRepeats' /\ \A i \in Items : Hits!Waiting(i)' <=> Hits!Waiting(i)
    BY <1>1, <1>5 DEF Hits!HitInOnePlace, Hits!NoRepeats, Hits!Waiting
  <2>2. Hits!HitInOnePlace'
    BY <1>1, <1>5, <2>1 DEF Hits!HitInOnePlace
  <2>3. hdone' => Hits!Finished' /\ pending' = {}
    BY <1>2, <1>5 DEF HitInv, Hits!Finished
  <2>. QED
    BY <1>2, <1>3, <1>4, <2>2, <2>3 DEF HitInv
<1>6. ASSUME NEW i \in Items, hch' = Append(hch, i), ~hshut, hsender[i] = "open", hsender'[i] = "in",
             \A j \in Items : j # i => hsender'[j] = hsender[j]
      PROVE  HitInv'
  <2>1. ~Hits!Waiting(i) /\ i \notin pending /\ flushed[i] = 0
    BY <1>1, <1>6 DEF Hits!HitInOnePlace
  <2>2. hch \in Seq(Items) /\ Hits!NoRepeats
    BY <1>1 DEF Hits!QueueTypeOK, Hits!HitInOnePlace
  <2>3. Hits!NoRepeats' /\ \A j \in Items : Hits!Waiting(j)' <=> Hits!Waiting(j) \/ j = i
    BY <1>6, <2>1, <2>2, HitsAppend
  <2>4. Hits!HitInOnePlace'
    BY <1>1, <1>6, <2>1, <2>3 DEF Hits!HitInOnePlace
  <2>5. ~hdone'
    BY <1>2, <1>6 DEF HitInv, Hits!Finished
  <2>. QED
    BY <1>2, <1>3, <1>4, <2>4, <2>5 DEF HitInv
<1>. QED
  BY <1>2, <1>5, <1>6

LEMMA HitInvGather ==
    ASSUME HitInv, NEW i \in Items, Hits!Gather(i)
    PROVE  HitInv'
<1>1. Hits!QueueTypeOK /\ Hits!LockDiscipline /\ Hits!HitInOnePlace
  BY DEF HitInv, Hits!TypeOK
<1>2. Hits!QueueTypeOK' /\ Hits!LockDiscipline'
  BY <1>1, HitsWorkerStep DEF Hits!Gather
<1>3. /\ hch \in Seq(Items) /\ hch # <<>> /\ i = Head(hch) /\ hch' = Tail(hch) /\ ~hdone
      /\ UNCHANGED <<hsender, hcloser, hdone, flushed, counted>> /\ pending' = pending \cup {i}
  BY <1>1 DEF Hits!Gather, Hits!Receive, Hits!QueueTypeOK
<1>4. /\ Hits!NoRepeats' /\ Hits!Waiting(i) /\ ~Hits!Waiting(i)'
      /\ \A j \in Items : j # i => (Hits!Waiting(j)' <=> Hits!Waiting(j))
  BY <1>1, <1>3, HitsTake DEF Hits!HitInOnePlace
<1>5. Hits!HitInOnePlace'
  BY <1>1, <1>3, <1>4 DEF Hits!HitInOnePlace
<1>6. Hits!TypeOK'
  BY <1>2, <1>3 DEF HitInv, Hits!TypeOK
<1>. QED
  BY <1>2, <1>3, <1>5, <1>6 DEF HitInv

\* What a bulk write leaves behind: every hit that was pending is flushed once.
LEMMA HitInvFlush ==
    ASSUME HitInv, Hits!BulkWrite, pending' = {}, UNCHANGED <<hsender, hch>>
    PROVE  /\ Hits!HitInOnePlace'
           /\ flushed' \in [Items -> Nat] /\ counted' \subseteq Items
<1>1. Hits!HitInOnePlace /\ flushed \in [Items -> Nat] /\ pending \subseteq Items /\ counted \subseteq Items
  BY DEF HitInv, Hits!TypeOK
<1>2. /\ flushed' = [i \in Items |-> IF i \in pending THEN flushed[i] + 1 ELSE flushed[i]]
      /\ \E applied \in SUBSET pending : counted' = counted \cup applied
  BY DEF Hits!BulkWrite
<1>3. Hits!NoRepeats' /\ \A i \in Items : Hits!Waiting(i)' <=> Hits!Waiting(i)
  BY <1>1 DEF Hits!HitInOnePlace, Hits!NoRepeats, Hits!Waiting
<1>4. ASSUME NEW i \in Items
      PROVE  /\ i \in pending => flushed[i] = 0 /\ flushed'[i] = 1 /\ hsender[i] = "in" /\ ~Hits!Waiting(i)
             /\ i \notin pending => flushed'[i] = flushed[i]
  BY <1>1, <1>2 DEF Hits!HitInOnePlace
<1>5. \A i \in Items :
          /\ flushed'[i] \in {0, 1}
          /\ Hits!Waiting(i) => flushed'[i] = 0
          /\ hsender[i] = "in" <=> Hits!Waiting(i) \/ flushed'[i] = 1
  BY <1>1, <1>4 DEF Hits!HitInOnePlace
<1>6. \A i \in counted' : flushed'[i] = 1
  BY <1>1, <1>2, <1>4 DEF Hits!HitInOnePlace
<1>7. Hits!HitInOnePlace'
  BY <1>3, <1>5, <1>6 DEF Hits!HitInOnePlace
<1>8. flushed' \in [Items -> Nat] /\ counted' \subseteq Items
  BY <1>1, <1>2
<1>. QED
  BY <1>7, <1>8

LEMMA HitInvNext == HitInv /\ [Hits!Next]_hitVars => HitInv'
<1>. SUFFICES ASSUME HitInv, [Hits!Next]_hitVars PROVE HitInv'
  OBVIOUS
<1>0. Hits!QueueTypeOK /\ Hits!LockDiscipline /\ Hits!HitInOnePlace
  BY DEF HitInv, Hits!TypeOK
<1>1. CASE Hits!QueueStep /\ UNCHANGED Hits!batchVars
  BY <1>1, HitInvQueue DEF Hits!batchVars
<1>2. CASE \E i \in Items : Hits!Gather(i)
  BY <1>2, HitInvGather
<1>3. CASE Hits!Tick
  <2>1. /\ ~hdone /\ Hits!BulkWrite /\ pending' = {}
        /\ UNCHANGED <<hsender, hcloser, hch, hclosed, hshut, hpanicked, hdone>>
    BY <1>3 DEF Hits!Tick, Hits!queue
  <2>2. Hits!QueueTypeOK' /\ Hits!LockDiscipline'
    BY <1>0, <2>1 DEF Hits!QueueTypeOK, Hits!LockDiscipline, Hits!ReadLocked, Hits!WriteLocked
  <2>. QED
    BY <2>1, <2>2, HitInvFlush DEF HitInv, Hits!TypeOK
<1>4. CASE Hits!Exit
  <2>1. /\ Hits!Finished /\ Hits!BulkWrite /\ pending' = {} /\ hdone'
        /\ UNCHANGED <<hsender, hcloser, hch, hshut>>
    BY <1>4 DEF Hits!Exit, Hits!Leave
  <2>2. Hits!QueueTypeOK' /\ Hits!LockDiscipline'
    BY <1>0, <1>4, HitsWorkerStep DEF Hits!Exit
  <2>3. Hits!Finished'
    BY <2>1 DEF Hits!Finished
  <2>. QED
    BY <2>1, <2>2, <2>3, HitInvFlush DEF HitInv, Hits!TypeOK
<1>5. CASE UNCHANGED hitVars
  <2>1. UNCHANGED <<hsender, hcloser, hch, hclosed, hshut, hpanicked, hdone, pending, flushed, counted>>
    BY <1>5 DEF hitVars
  <2>. QED
    BY <2>1 DEF HitInv, Hits!TypeOK, Hits!QueueTypeOK, Hits!LockDiscipline, Hits!ReadLocked,
       Hits!WriteLocked, Hits!HitInOnePlace, Hits!NoRepeats, Hits!Waiting, Hits!Finished
<1>. QED
  BY <1>1, <1>2, <1>3, <1>4, <1>5 DEF Hits!Next, Hits!Batcher

-----------------------------------------------------------------------------
(* The process.                                                            *)

\* A stage is reached with those before it behind.
Stages ==
    /\ main \in {"close hits", "disconnect", "exit", "exited"} => LogClosed
    /\ main \in {"disconnect", "exit", "exited"} => HitsClosed
    /\ client = "closed" => main \in {"exit", "exited"}

\* The process implements the request log, and the hit batcher.
LEMMA ProcessStep ==
    ASSUME [ProcessNext]_processVars
    PROVE  [Next]_vars /\ [Hits!Next]_hitVars
<1>1. CASE Listen \/ BindFails \/ Signal \/ Served \/ SyncsWaited \/ Stop \/ Disconnect \/ ExitProcess
  <2>1. UNCHANGED <<logVars, hitVars>>
    BY <1>1 DEF Listen, BindFails, Signal, Served, SyncsWaited, Stop, Disconnect, ExitProcess
  <2>. QED
    BY <2>1 DEF logVars, vars
<1>2. CASE CloseLog
  <2>1. UNCHANGED hitVars
    BY <1>2 DEF CloseLog
  <2>2. \/ (BeginClose("main") \/ Closing("main")) /\ UNCHANGED writerVars
        \/ UNCHANGED logVars
    BY <1>2 DEF CloseLog
  <2>. QED
    BY <2>1, <2>2, ShutdownAssumption DEF logVars, vars, Next, QueueStep
<1>3. CASE CloseHits
  <2>1. UNCHANGED logVars
    BY <1>3 DEF CloseHits
  <2>2. \/ (Hits!BeginClose("main") \/ Hits!Closing("main")) /\ UNCHANGED <<pending, flushed, counted>>
        \/ UNCHANGED hitVars
    BY <1>3 DEF CloseHits
  <2>. QED
    BY <2>1, <2>2, ShutdownAssumption DEF logVars, vars, Hits!Next, Hits!QueueStep, Hits!batchVars
<1>4. CASE WriterStep
  <2>1. Writer /\ UNCHANGED hitVars
    BY <1>4 DEF WriterStep
  <2>. QED
    BY <2>1 DEF Next
<1>5. CASE BatcherStep
  <2>1. Hits!Batcher /\ UNCHANGED logVars
    BY <1>5 DEF BatcherStep
  <2>2. UNCHANGED vars
    BY <2>1 DEF logVars, vars
  <2>. QED
    BY <2>1, <2>2 DEF Hits!Next
<1>6. ASSUME NEW r \in Items, Arrive(r) \/ RecordHit(r)
      PROVE  [Next]_vars /\ [Hits!Next]_hitVars
  BY <1>6 DEF Arrive, RecordHit, logVars, vars, Hits!Next, Hits!QueueStep, Hits!batchVars
<1>7. ASSUME NEW r \in Items, Answer(r) \/ Record(r)
      PROVE  [Next]_vars /\ [Hits!Next]_hitVars
  BY <1>7 DEF Answer, Record, Next, QueueStep
<1>8. ASSUME NEW s \in Syncs, SyncStep(s)
      PROVE  [Next]_vars /\ [Hits!Next]_hitVars
  BY <1>8 DEF SyncStep, logVars, vars
<1>9. CASE UNCHANGED processVars
  BY <1>9 DEF processVars, logVars, vars
<1>. QED
  BY <1>1, <1>2, <1>3, <1>4, <1>5, <1>6, <1>7, <1>8, <1>9 DEF ProcessNext, Teardown

LEMMA StagesNext ==
    ASSUME Stages, [ProcessNext]_processVars
    PROVE  Stages'
<1>. USE DEF Stages, LogClosed, HitsClosed, Go
<1>1. CASE Listen \/ BindFails \/ Signal \/ Served \/ SyncsWaited \/ Stop
  BY <1>1 DEF Listen, BindFails, Signal, Served, SyncsWaited, Stop
<1>2. CASE CloseLog
  <2>1. UNCHANGED <<client, hcloser>> /\ main = "close log"
    BY <1>2 DEF CloseLog, hitVars
  <2>2. main' = main \/ (main' = "close hits" /\ LogClosed /\ closer' = closer)
    BY <1>2 DEF CloseLog, logVars, queue
  <2>. QED
    BY <2>1, <2>2
<1>3. CASE CloseHits
  <2>1. UNCHANGED <<client, closer>> /\ main = "close hits"
    BY <1>3 DEF CloseHits, logVars, queue
  <2>2. main' = main \/ (main' = "disconnect" /\ HitsClosed /\ hcloser' = hcloser)
    BY <1>3 DEF CloseHits, hitVars
  <2>. QED
    BY <2>1, <2>2
<1>4. CASE Disconnect \/ ExitProcess
  BY <1>4 DEF Disconnect, ExitProcess, logVars, queue, hitVars
<1>5. CASE WriterStep
  <2>1. UNCHANGED <<main, client, hcloser>>
    BY <1>5 DEF WriterStep, own, hitVars
  <2>2. closer' = closer
    <3>1. ASSUME NEW i \in Items, Take(i) PROVE closer' = closer
      BY <3>1 DEF Take, Receive
    <3>2. ASSUME Insert \/ FlagProbe \/ Exit PROVE closer' = closer
      BY <3>2 DEF Insert, FlagProbe, Exit, Leave, queue
    <3>. QED
      BY <1>5, <3>1, <3>2 DEF WriterStep, Writer
  <2>. QED
    BY <2>1, <2>2
<1>6. CASE BatcherStep
  <2>1. UNCHANGED <<main, client, closer>>
    BY <1>6 DEF BatcherStep, own, logVars, queue
  <2>2. hcloser' = hcloser
    <3>1. ASSUME NEW i \in Items, Hits!Gather(i) PROVE hcloser' = hcloser
      BY <3>1 DEF Hits!Gather, Hits!Receive
    <3>2. ASSUME Hits!Tick \/ Hits!Exit PROVE hcloser' = hcloser
      BY <3>2 DEF Hits!Tick, Hits!Exit, Hits!Leave, Hits!queue
    <3>. QED
      BY <1>6, <3>1, <3>2 DEF BatcherStep, Hits!Batcher
  <2>. QED
    BY <2>1, <2>2
<1>7. ASSUME NEW r \in Items, Arrive(r) \/ RecordHit(r)
      PROVE  Stages'
  BY <1>7 DEF Arrive, RecordHit, Hits!Call, Hits!Sending, Hits!RLock, Hits!CheckClosed, Hits!Send,
     own, logVars, queue
<1>8. ASSUME NEW r \in Items, Answer(r) \/ Record(r)
      PROVE  Stages'
  BY <1>8 DEF Answer, Record, Call, Sending, RLock, CheckClosed, Send, own, hitVars
<1>9. ASSUME NEW s \in Syncs, SyncStep(s)
      PROVE  Stages'
  BY <1>9 DEF SyncStep, logVars, queue, hitVars
<1>10. CASE UNCHANGED processVars
  BY <1>10 DEF processVars, own, logVars, queue, hitVars
<1>. QED
  BY <1>1, <1>2, <1>3, <1>4, <1>5, <1>6, <1>7, <1>8, <1>9, <1>10 DEF ProcessNext, Teardown

\* A signal cancels the context, and run() goes past its wait only once the
\* syncs that obey it have stopped; a stopped sync stays so.
SyncInv ==
    /\ signalled => ctx = "cancelled"
    /\ signalled /\ obeys /\ main \notin {"starting", "serving", "graceful", "wait syncs"} => AllStopped

LEMMA SyncInvNext ==
    ASSUME SyncInv, [ProcessNext]_processVars
    PROVE  SyncInv'
<1>. DEFINE waits == {"starting", "serving", "graceful", "wait syncs"}
<1>0. /\ signalled => ctx = "cancelled"
      /\ signalled /\ obeys /\ main \notin waits => AllStopped
  BY DEF SyncInv
<1>1. ASSUME UNCHANGED <<ctx, signalled, obeys, sync>>, main \notin waits \/ main' \in waits
      PROVE  SyncInv'
  <2>1. AllStopped' <=> AllStopped
    BY <1>1 DEF AllStopped
  <2>. QED
    BY <1>0, <1>1, <2>1 DEF SyncInv
<1>2. CASE Listen \/ BindFails \/ Served \/ Disconnect \/ ExitProcess
  BY <1>1, <1>2 DEF Listen, BindFails, Served, Disconnect, ExitProcess, Go
<1>3. CASE CloseLog \/ CloseHits
  BY <1>1, <1>3 DEF CloseLog, CloseHits
<1>4. CASE Signal
  <2>1. ctx' = "cancelled" /\ main' \in waits
    BY <1>4 DEF Signal, Go
  <2>. QED
    BY <2>1 DEF SyncInv
<1>5. CASE SyncsWaited
  <2>1. UNCHANGED <<ctx, signalled, obeys, sync>> /\ (AllStopped \/ ctx = "live" \/ ~obeys)
    BY <1>5 DEF SyncsWaited
  <2>2. AllStopped' <=> AllStopped
    BY <2>1 DEF AllStopped
  <2>. QED
    BY <1>0, <2>1, <2>2 DEF SyncInv
<1>6. CASE Stop
  <2>1. UNCHANGED <<signalled, obeys, sync>> /\ ctx' = "cancelled" /\ main \notin waits
    BY <1>6 DEF Stop, Go
  <2>2. AllStopped' <=> AllStopped
    BY <2>1 DEF AllStopped
  <2>. QED
    BY <1>0, <2>1, <2>2 DEF SyncInv
<1>7. CASE WriterStep \/ BatcherStep \/ UNCHANGED processVars
  BY <1>1, <1>7 DEF WriterStep, BatcherStep, processVars, own
<1>8. ASSUME NEW r \in Items, Arrive(r) \/ RecordHit(r) \/ Answer(r) \/ Record(r)
      PROVE  SyncInv'
  BY <1>1, <1>8 DEF Arrive, RecordHit, Answer, Record, own
<1>9. ASSUME NEW s \in Syncs, SyncStep(s)
      PROVE  SyncInv'
  <2>1. ~AllStopped /\ UNCHANGED <<main, ctx, signalled, obeys>>
    BY <1>9 DEF SyncStep, AllStopped
  <2>. QED
    BY <1>0, <2>1 DEF SyncInv
<1>. QED
  BY <1>2, <1>3, <1>4, <1>5, <1>6, <1>7, <1>8, <1>9 DEF ProcessNext, Teardown

ProcessInv == Inv /\ HitInv /\ Stages /\ SyncInv

LEMMA ProcessInvAlways == ProcessSpec => []ProcessInv
<1>1. ProcessInit => ProcessInv
  BY InvInit, HitInvInit DEF ProcessInit, ProcessInv, Stages, SyncInv
<1>2. ProcessInv /\ [ProcessNext]_processVars => ProcessInv'
  BY ProcessStep, InvNext, HitInvNext, StagesNext, SyncInvNext DEF ProcessInv
<1>. QED
  BY <1>1, <1>2, PTL DEF ProcessSpec

\* The process implements its parts: seen through the log's own variables it is
\* a request log, through the batcher's a hit batcher, which the teardown only
\* calls (main.go's deferred closes; requestlog.go, resolvecache.go).
THEOREM ProcessImplementsParts ==
    ProcessSpec => /\ Init /\ [][Next]_vars
                   /\ Hits!Init /\ [][Hits!Next]_hitVars
<1>1. ProcessInit => Init /\ Hits!Init
  BY DEF ProcessInit
<1>2. [ProcessNext]_processVars => [Next]_vars /\ [Hits!Next]_hitVars
  BY ProcessStep
<1>. QED
  BY <1>1, <1>2, PTL DEF ProcessSpec

\* In the process that takes it down, each hit is waiting, gathered or written
\* once and no request panics (resolvecache.go:122, 142).
THEOREM HitsAlwaysKept == ProcessSpec => []HitsKept
<1>1. ProcessInv => HitsKept
  BY DEF ProcessInv, HitInv, HitsKept, Hits!LockDiscipline, Hits!NoPanic
<1>. QED
  BY <1>1, ProcessInvAlways, PTL

\* The client closes behind both drains: whatever a drain that was not cut short
\* left in, was sent (main.go:54).
THEOREM AlwaysDrainsBeforeClose == ProcessSpec => []DrainsBeforeClose
<1>1. ProcessInv => DrainsBeforeClose
  <2>. SUFFICES ASSUME ProcessInv, client = "closed" PROVE DrainsBeforeClose
    BY DEF DrainsBeforeClose
  <2>1. LogClosed /\ HitsClosed
    BY DEF ProcessInv, Stages
  <2>2. ASSUME closer["main"] # "gave up", NEW r \in Items, sender[r] = "in"
        PROVE  tried[r] = 1
    <3>1. done
      BY <2>1, <2>2, ShutdownAssumption DEF LogClosed, ProcessInv, Inv, WriterInv
    <3>2. ch = <<>> /\ at = "receive"
      BY <3>1 DEF ProcessInv, Inv, WriterInv, Finished
    <3>3. ~Waiting(r) /\ ~Holds(r)
      BY <3>2 DEF Waiting, Holds
    <3>. QED
      BY <2>2, <3>3 DEF ProcessInv, Inv, InOnePlace
  <2>3. ASSUME hcloser["main"] # "gave up", NEW r \in Items, hsender[r] = "in"
        PROVE  flushed[r] = 1
    <3>1. hdone
      BY <2>1, <2>3, ShutdownAssumption DEF HitsClosed, ProcessInv, HitInv
    <3>2. hch = <<>> /\ pending = {}
      BY <3>1 DEF ProcessInv, HitInv, Hits!Finished
    <3>3. ~Hits!Waiting(r)
      BY <3>2 DEF Hits!Waiting
    <3>. QED
      BY <2>3, <3>2, <3>3 DEF ProcessInv, HitInv, Hits!HitInOnePlace
  <2>. QED
    BY <2>2, <2>3 DEF DrainsBeforeClose
<1>. QED
  BY <1>1, ProcessInvAlways, PTL

\* After a signal, no sync that obeys its context is left when the client closes.
THEOREM SyncsAlwaysStopOnSignal == ProcessSpec => []SyncsStopOnSignal
<1>1. ProcessInv => SyncsStopOnSignal
  BY DEF ProcessInv, Stages, SyncInv, SyncsStopOnSignal
<1>. QED
  BY <1>1, ProcessInvAlways, PTL
=============================================================================
