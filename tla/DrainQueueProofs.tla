------------------------- MODULE DrainQueueProofs -------------------------
(***************************************************************************)
(* The queue's lock discipline, for any number of senders and closers, and *)
(* what its steps do to the items in the channel.                          *)
(***************************************************************************)
EXTENDS DrainQueue, SequenceTheorems, TLAPS

LEMMA QueueInitInv == QueueInit => QueueTypeOK /\ LockDiscipline
<1>. SUFFICES ASSUME QueueInit PROVE QueueTypeOK /\ LockDiscipline
  OBVIOUS
<1>1. ch \in Seq(Items)
  BY DEF QueueInit
<1>2. QueueTypeOK
  BY <1>1 DEF QueueInit, QueueTypeOK
<1>3. LockDiscipline
  BY DEF QueueInit, LockDiscipline, ReadLocked, WriteLocked
<1>. QED
  BY <1>2, <1>3

LEMMA QueueTypeStep ==
    ASSUME QueueTypeOK, QueueStep
    PROVE  QueueTypeOK'
<1>1. ASSUME NEW i \in Items, Send(i) PROVE QueueTypeOK'
  <2>0. ch' = ch \/ ch' = Append(ch, i)
    BY <1>1, Zenon DEF Send
  <2>. ch \in Seq(Items)
    BY DEF QueueTypeOK
  <2>1. ch' \in Seq(Items)
    BY <2>0, AppendProperties
  <2>2. sender' \in [Items -> {"new", "call", "locked", "open", "in", "out"}]
    BY <1>1 DEF Send, QueueTypeOK
  <2>3. panicked' \in BOOLEAN
    BY <1>1 DEF Send, QueueTypeOK
  <2>. QED
    BY <1>1, <2>1, <2>2, <2>3 DEF Send, QueueTypeOK
<1>2. ASSUME NEW i \in Items, Call(i) \/ RLock(i) \/ CheckClosed(i) PROVE QueueTypeOK'
  BY <1>2 DEF Call, RLock, CheckClosed, QueueTypeOK
<1>3. ASSUME NEW c \in Closers, BeginClose(c) \/ Closing(c) PROVE QueueTypeOK'
  BY <1>3 DEF BeginClose, Closing, Lock, SetClosed, CloseChannel, Drained, GiveUp, QueueTypeOK
<1>. QED
  BY <1>1, <1>2, <1>3 DEF QueueStep, Sending

\* A sender's step keeps the discipline: RLock waits for the writer, and only
\* a sender that saw the flag clear goes on to send.
LEMMA SenderDiscipline ==
    ASSUME QueueTypeOK, LockDiscipline, NEW i \in Items, Call(i) \/ Sending(i)
    PROVE  LockDiscipline'
<1>1. closer' = closer /\ closed' = closed /\ shut' = shut
  BY DEF Call, Sending, RLock, CheckClosed, Send
<1>2. \A j \in Items : j # i => sender'[j] = sender[j]
  BY DEF Call, Sending, RLock, CheckClosed, Send, QueueTypeOK
<1>3. sender'[i] \in {"locked", "open"} =>
          sender[i] \in {"locked", "open"} \/ \A c \in Closers : ~WriteLocked(c)
  BY DEF Call, Sending, RLock, CheckClosed, Send, QueueTypeOK
<1>4. sender'[i] = "open" => ~closed
  BY DEF Call, Sending, RLock, CheckClosed, Send, QueueTypeOK
<1>5. ~panicked'
  BY DEF Call, Sending, RLock, CheckClosed, Send, LockDiscipline
<1>. QED
  BY <1>1, <1>2, <1>3, <1>4, <1>5 DEF LockDiscipline, ReadLocked, WriteLocked

\* A closer's step keeps it: Lock waits for every reader and writer.
LEMMA CloserDiscipline ==
    ASSUME QueueTypeOK, LockDiscipline, NEW c \in Closers, BeginClose(c) \/ Closing(c)
    PROVE  LockDiscipline'
<1>0. sender' = sender /\ \A d \in Closers : d # c => closer'[d] = closer[d]
  BY DEF BeginClose, Closing, Lock, SetClosed, CloseChannel, Drained, GiveUp, QueueTypeOK
<1>1. CASE BeginClose(c) \/ Drained(c) \/ GiveUp(c)
  <2>1. UNCHANGED <<closed, shut, panicked>> /\ closer'[c] \in {"lock", "drained", "gave up"}
    BY <1>1 DEF BeginClose, Drained, GiveUp, QueueTypeOK
  <2>. QED
    BY <1>0, <2>1 DEF LockDiscipline, ReadLocked, WriteLocked
<1>2. CASE Lock(c)
  BY <1>0, <1>2 DEF Lock, QueueTypeOK, LockDiscipline, ReadLocked, WriteLocked
<1>3. CASE SetClosed(c)
  <2>1. WriteLocked(c) /\ closed' /\ shut' = shut /\ panicked' = panicked
    BY <1>3 DEF SetClosed, WriteLocked
  <2>2. \A i \in Items : ~ReadLocked(i)
    BY <2>1 DEF LockDiscipline
  <2>3. closer'[c] = "flagged" => ~closed /\ ~shut
    BY <1>3 DEF SetClosed, QueueTypeOK, LockDiscipline
  <2>4. closer'[c] \in {"flagged", "waiting", "returned"}
    BY <1>3 DEF SetClosed, QueueTypeOK
  <2>. QED
    BY <1>0, <2>1, <2>2, <2>3, <2>4 DEF LockDiscipline, ReadLocked, WriteLocked
<1>4. CASE CloseChannel(c)
  <2>1. closer[c] = "flagged" /\ closer'[c] = "waiting" /\ closed' = closed /\ closed /\ ~shut
    BY <1>4 DEF CloseChannel, QueueTypeOK, LockDiscipline
  <2>2. ~panicked'
    BY <1>4, <2>1 DEF CloseChannel, LockDiscipline
  <2>3. \A d \in Closers : d # c => closer[d] # "flagged"
    BY <2>1 DEF LockDiscipline, WriteLocked
  <2>. QED
    BY <1>0, <2>1, <2>2, <2>3 DEF LockDiscipline, ReadLocked, WriteLocked
<1>. QED
  BY <1>1, <1>2, <1>3, <1>4 DEF Closing

LEMMA QueueStepInv ==
    ASSUME QueueTypeOK, LockDiscipline, QueueStep
    PROVE  QueueTypeOK' /\ LockDiscipline'
BY QueueTypeStep, SenderDiscipline, CloserDiscipline DEF QueueStep

\* The worker's steps touch neither the lock nor the flags.
LEMMA WorkerStepInv ==
    ASSUME QueueTypeOK, LockDiscipline, (\E i \in Items : Receive(i)) \/ Leave
    PROVE  QueueTypeOK' /\ LockDiscipline'
<1>1. UNCHANGED <<sender, closer, closed, shut, panicked>>
  BY DEF Receive, Leave
<1>2. ch' \in Seq(Items)
  <2>1. CASE ch # <<>> /\ ch' = Tail(ch)
    BY <2>1, HeadTailProperties DEF QueueTypeOK
  <2>2. CASE ch' = ch
    BY <2>2 DEF QueueTypeOK
  <2>. QED
    BY <2>1, <2>2 DEF Receive, Leave
<1>3. done' \in BOOLEAN
  BY DEF Receive, Leave, QueueTypeOK
<1>. QED
  BY <1>1, <1>2, <1>3 DEF QueueTypeOK, LockDiscipline, ReadLocked, WriteLocked

\* Close reports the queue drained only when the worker is done, and nothing
\* reopens a channel.
LEMMA QueueStepDone ==
    ASSUME QueueTypeOK, QueueStep
    PROVE  /\ done' = done /\ (shut => shut')
           /\ \A c \in Closers : closer'[c] = "drained" => closer[c] = "drained" \/ done
<1>1. ASSUME NEW i \in Items, Call(i) \/ Sending(i)
      PROVE done' = done /\ shut' = shut /\ closer' = closer
  BY <1>1 DEF Call, Sending, RLock, CheckClosed, Send
<1>2. ASSUME NEW c \in Closers, BeginClose(c) \/ Closing(c)
      PROVE /\ done' = done /\ (shut => shut')
            /\ \A d \in Closers : closer'[d] = "drained" => closer[d] = "drained" \/ done
  <2>1. done' = done /\ (shut => shut')
    <3>1. CASE CloseChannel(c)
      BY <3>1 DEF CloseChannel
    <3>2. ASSUME BeginClose(c) \/ Lock(c) \/ SetClosed(c) \/ Drained(c) \/ GiveUp(c)
          PROVE done' = done /\ shut' = shut
      BY <3>2 DEF BeginClose, Lock, SetClosed, Drained, GiveUp
    <3>. QED
      BY <1>2, <3>1, <3>2 DEF Closing
  <2>2. \A d \in Closers : d # c => closer'[d] = closer[d]
    BY <1>2 DEF QueueTypeOK, BeginClose, Closing, Lock, SetClosed, CloseChannel, Drained, GiveUp
  <2>3. closer'[c] = "drained" => done
    <3>1. CASE Drained(c)
      BY <3>1 DEF Drained
    <3>2. CASE SetClosed(c)
      BY <3>2 DEF SetClosed, QueueTypeOK
    <3>3. CASE BeginClose(c) \/ Lock(c) \/ CloseChannel(c) \/ GiveUp(c)
      BY <3>3 DEF QueueTypeOK, BeginClose, Lock, CloseChannel, GiveUp
    <3>. QED
      BY <1>2, <3>1, <3>2, <3>3 DEF Closing
  <2>. QED
    BY <2>1, <2>2, <2>3
<1>. QED
  BY <1>1, <1>2 DEF QueueStep

-----------------------------------------------------------------------------
(* The items in the channel.                                               *)

\* A step of the queue's users either leaves the channel alone and accepts no
\* item, or appends the one item it accepts.
LEMMA QueueStepItems ==
    ASSUME QueueTypeOK, QueueStep
    PROVE  \/ /\ ch' = ch
              /\ \A i \in Items : sender'[i] = "in" <=> sender[i] = "in"
           \/ \E i \in Items : /\ ch' = Append(ch, i) /\ ~shut
                               /\ sender[i] = "open" /\ sender'[i] = "in"
                               /\ \A j \in Items : j # i => sender'[j] = sender[j]
<1>1. ASSUME NEW i \in Items, Send(i), ~shut, Len(ch) < Capacity
      PROVE /\ ch' = Append(ch, i) /\ ~shut
            /\ sender[i] = "open" /\ sender'[i] = "in"
            /\ \A j \in Items : j # i => sender'[j] = sender[j]
  <2>. Len(ch) \in Nat /\ Capacity \in Nat
    BY QueueAssumption, LenProperties DEF QueueTypeOK
  <2>0. ~(Len(ch) >= Capacity)
    BY <1>1
  <2>1. sender' = [sender EXCEPT ![i] = "in"] /\ ch' = Append(ch, i) /\ sender[i] = "open"
    BY <1>1, <2>0, Zenon DEF Send
  <2>. QED
    BY <1>1, <2>1 DEF QueueTypeOK
<1>2. ASSUME NEW i \in Items, Send(i), ~(~shut /\ Len(ch) < Capacity)
      PROVE ch' = ch /\ \A j \in Items : sender'[j] = "in" <=> sender[j] = "in"
  BY <1>2, QueueAssumption DEF Send, QueueTypeOK
<1>3. ASSUME NEW i \in Items, Call(i) \/ RLock(i) \/ CheckClosed(i)
      PROVE ch' = ch /\ \A j \in Items : sender'[j] = "in" <=> sender[j] = "in"
  BY <1>3 DEF Call, RLock, CheckClosed, QueueTypeOK
<1>4. ASSUME NEW c \in Closers, BeginClose(c) \/ Closing(c)
      PROVE ch' = ch /\ \A j \in Items : sender'[j] = "in" <=> sender[j] = "in"
  BY <1>4 DEF BeginClose, Closing, Lock, SetClosed, CloseChannel, Drained, GiveUp
<1>. QED
  BY <1>1, <1>2, <1>3, <1>4 DEF QueueStep, Sending

\* Appending an item that is not in the channel.
LEMMA AppendItem ==
    ASSUME ch \in Seq(Items), NoRepeats, NEW i \in Items, ~Waiting(i), ch' = Append(ch, i)
    PROVE  /\ NoRepeats'
           /\ \A j \in Items : Waiting(j)' <=> Waiting(j) \/ j = i
<1>1. Len(ch') = Len(ch) + 1 /\ Len(ch) \in Nat /\ ch'[Len(ch) + 1] = i
      /\ \A n \in 1..Len(ch) : ch'[n] = ch[n]
  OBVIOUS
<1>2. \A n \in 1..Len(ch') : n \in 1..Len(ch) \/ n = Len(ch) + 1
  BY <1>1
<1>3. NoRepeats'
  BY <1>1, <1>2 DEF NoRepeats, Waiting
<1>4. \A j \in Items : Waiting(j)' <=> Waiting(j) \/ j = i
  BY <1>1, <1>2 DEF Waiting
<1>. QED
  BY <1>3, <1>4

\* Taking the head of the channel.
LEMMA TakeItem ==
    ASSUME ch \in Seq(Items), NoRepeats, ch # <<>>, NEW i \in Items, i = Head(ch), ch' = Tail(ch)
    PROVE  /\ NoRepeats'
           /\ Waiting(i) /\ ~Waiting(i)'
           /\ \A j \in Items : j # i => (Waiting(j)' <=> Waiting(j))
<1>1. Len(ch) \in Nat /\ Len(ch) >= 1 /\ Len(ch') = Len(ch) - 1 /\ i = ch[1]
      /\ \A n \in 1..Len(ch') : ch'[n] = ch[n + 1]
  OBVIOUS
<1>2. NoRepeats'
  <2>. SUFFICES ASSUME NEW m \in 1..Len(ch'), NEW n \in 1..Len(ch'), ch'[m] = ch'[n] PROVE m = n
    BY DEF NoRepeats
  <2>1. m + 1 \in 1..Len(ch) /\ n + 1 \in 1..Len(ch) /\ ch[m + 1] = ch[n + 1]
    BY <1>1
  <2>2. m + 1 = n + 1
    BY <2>1 DEF NoRepeats
  <2>. QED
    BY <2>2
<1>3. Waiting(i)
  BY <1>1 DEF Waiting
<1>4. ~Waiting(i)'
  <2>. SUFFICES ASSUME NEW n \in 1..Len(ch'), ch'[n] = i PROVE FALSE
    BY <1>1 DEF Waiting
  <2>1. n + 1 \in 1..Len(ch) /\ 1 \in 1..Len(ch) /\ ch[n + 1] = ch[1]
    BY <1>1
  <2>2. n + 1 = 1
    BY <2>1 DEF NoRepeats
  <2>. QED
    BY <2>2
<1>5. ASSUME NEW j \in Items, j # i PROVE Waiting(j)' <=> Waiting(j)
  <2>1. ASSUME Waiting(j)' PROVE Waiting(j)
    <3>1. PICK n \in 1..Len(ch') : ch'[n] = j
      BY <2>1 DEF Waiting
    <3>2. n + 1 \in 1..Len(ch) /\ ch[n + 1] = j
      BY <1>1, <3>1
    <3>. QED
      BY <3>2 DEF Waiting
  <2>2. ASSUME Waiting(j) PROVE Waiting(j)'
    <3>1. PICK n \in 1..Len(ch) : ch[n] = j
      BY <2>2 DEF Waiting
    <3>2. n # 1 /\ n - 1 \in 1..Len(ch') /\ ch'[n - 1] = j
      BY <1>1, <1>5, <3>1
    <3>. QED
      BY <3>2 DEF Waiting
  <2>. QED
    BY <2>1, <2>2
<1>. QED
  BY <1>2, <1>3, <1>4, <1>5
=============================================================================
