------------------------------ MODULE ClientProofs ------------------------------
(***************************************************************************)
(* For any numbers of connects, actions, reloads and any queue size: no     *)
(* action of the client is lost, and no live socket unaccounted for, but    *)
(* for the exceptions that the properties name.                            *)
(***************************************************************************)
EXTENDS Client, SequenceTheorems, TLAPS

-----------------------------------------------------------------------------
(* The invariant.                                                          *)

\* A queue as it is saved, and as it is read back.
Kept(s) == s = Unsaved \/ (s \in Seq(Actions) /\ Len(s) <= MaxSize)

\* What the q-th request to the storage is for: to save, and that for a call.
IsPut(q)  == disk[q].attempt = 0
IsCall(q) == disk[q].attempt = 0 /\ disk[q].action # 0

\* An attempt that restores has one request with the storage, every other has none.
SavedInv ==
  /\ Kept(stored) /\ \A q \in DOMAIN disk : Kept(disk[q].value)
  /\ flushing \in {"replay", "retry"} => replaying \in Actions
  /\ \A q \in DOMAIN disk : ~IsPut(q) =>
       /\ disk[q].action = 0 /\ attempt[disk[q].attempt] = "restoring"
       /\ \A p \in DOMAIN disk : disk[p].attempt = disk[q].attempt => p = q

Gone == settled \cup evicted \cup {0}

\* The call of action a still waits for its save, which comes after the q-th request.
YetSaved(a, q) == \E p \in DOMAIN disk : p > q /\ disk[p].action = a

\* An action that is queued and not done with is stored, or its call waits for that; and
\* no request that is before the storage loses it again.
QueueIsSaved ==
  \A a \in ToSet(queue) \ Gone :
    /\ a \in ToSet(stored) \/ YetSaved(a, 0)
    /\ \A q \in DOMAIN disk : IsPut(q) => a \in ToSet(disk[q].value) \/ YetSaved(a, q)

\* What is stored, or to be stored, is queued or done with, but for what a restart has
\* left; until that is restored nothing is queued, replayed or saved.
SavedIsQueued ==
  IF unrestored
  THEN queue = <<>> /\ flushing = "no" /\ \A q \in DOMAIN disk : ~IsPut(q)
  ELSE /\ ToSet(stored) \ Gone \subseteq ToSet(queue)
       /\ \A q \in DOMAIN disk : IsPut(q) => ToSet(disk[q].value) \ Gone \subseteq ToSet(queue)

\* Unless raced, moreover, the flush replays what is first in the queue, and no call
\* is saved behind a restore.
LossInv ==
  ~raced =>
    /\ flushing \in {"replay", "retry"} => queue # <<>> /\ Head(queue) = replaying
    /\ QueueIsSaved
    /\ SavedIsQueued
    /\ \A p, q \in DOMAIN disk : ~IsPut(p) /\ IsCall(q) => q < p

-----------------------------------------------------------------------------
(* Queues, and the requests to the storage.                                *)

LEMMA Dropped ==
  ASSUME NEW S, NEW s \in Seq(S), s # <<>>
  PROVE  /\ Head(s) \in S /\ Tail(s) \in Seq(S) /\ Len(Tail(s)) < Len(s)
         /\ ToSet(s) = ToSet(Tail(s)) \cup {Head(s)}
<1>1. /\ Head(s) \in S /\ Tail(s) \in Seq(S) /\ Len(Tail(s)) = Len(s) - 1
      /\ \A i \in 1 .. Len(Tail(s)) : Tail(s)[i] = s[i + 1]
  BY HeadTailProperties
<1>2. Len(s) \in Nat /\ Len(s) # 0 /\ DOMAIN s = 1 .. Len(s) /\ Head(s) = s[1]
  BY LenProperties, EmptySeq
<1>3. DOMAIN Tail(s) = 1 .. (Len(s) - 1)
  BY <1>1, LenProperties
<1>4. ASSUME NEW i \in DOMAIN s, i # 1 PROVE s[i] \in ToSet(Tail(s))
  <2>1. i - 1 \in 1 .. (Len(s) - 1) /\ (i - 1) + 1 = i
    BY <1>2, <1>4
  <2> QED
    BY <1>1, <1>3, <2>1 DEF ToSet
<1>5. ASSUME NEW i \in DOMAIN Tail(s) PROVE Tail(s)[i] \in ToSet(s)
  <2>1. i + 1 \in DOMAIN s
    BY <1>2, <1>3
  <2> QED
    BY <1>1, <1>3, <2>1 DEF ToSet
<1>6. s[1] \in ToSet(s)
  BY <1>2 DEF ToSet
<1>7. ToSet(s) \subseteq ToSet(Tail(s)) \cup {Head(s)}
  BY <1>2, <1>4 DEF ToSet
<1>8. ToSet(Tail(s)) \cup {Head(s)} \subseteq ToSet(s)
  BY <1>2, <1>5, <1>6 DEF ToSet
<1> QED
  BY <1>1, <1>2, <1>7, <1>8

LEMMA Appended ==
  ASSUME NEW S, NEW s \in Seq(S), NEW a \in S
  PROVE  /\ Append(s, a) \in Seq(S) /\ Append(s, a) # <<>> /\ Len(Append(s, a)) = Len(s) + 1
         /\ ToSet(Append(s, a)) = ToSet(s) \cup {a}
         /\ s # <<>> => Head(Append(s, a)) = Head(s)
<1>1. /\ Append(s, a) \in Seq(S) /\ Append(s, a) # <<>> /\ Len(Append(s, a)) = Len(s) + 1
      /\ \A i \in 1 .. Len(s) : Append(s, a)[i] = s[i]
      /\ Append(s, a)[Len(s) + 1] = a
      /\ s # <<>> => Head(Append(s, a)) = Head(s)
  BY AppendProperties, HeadTailAppend
<1>2. /\ Len(s) \in Nat /\ DOMAIN s = 1 .. Len(s)
      /\ DOMAIN Append(s, a) = 1 .. (Len(s) + 1)
  BY <1>1, LenProperties
<1>3. 1 .. (Len(s) + 1) = (1 .. Len(s)) \cup {Len(s) + 1}
  BY <1>2
<1> QED
  BY <1>1, <1>2, <1>3 DEF ToSet

Requests ==
  [attempt : 0 .. MaxConnects, action : 0 .. MaxActions, value : Seq(Actions)]

\* One more request: the others stay what they are.
LEMMA Asked ==
  ASSUME disk \in Seq(Requests), NEW r \in Requests, Ask(r)
  PROVE  /\ disk' \in Seq(Requests)
         /\ Len(disk) \in Nat /\ DOMAIN disk = 1 .. Len(disk)
         /\ DOMAIN disk' = DOMAIN disk \cup {Len(disk) + 1}
         /\ \A q \in DOMAIN disk : disk'[q] = disk[q] /\ q < Len(disk) + 1 /\ q \in Nat
         /\ disk'[Len(disk) + 1] = r
<1>1. /\ Append(disk, r) \in Seq(Requests)
      /\ Len(Append(disk, r)) = Len(disk) + 1
      /\ \A q \in 1 .. Len(disk) : Append(disk, r)[q] = disk[q]
      /\ Append(disk, r)[Len(disk) + 1] = r
  BY AppendProperties
<1>2. /\ Len(disk) \in Nat /\ DOMAIN disk = 1 .. Len(disk)
      /\ DOMAIN Append(disk, r) = 1 .. (Len(disk) + 1)
  BY <1>1, LenProperties
<1> HIDE DEF Requests
<1> QED
  BY <1>1, <1>2 DEF Ask

\* An answer: the other requests move up by one.
LEMMA Advanced ==
  ASSUME disk \in Seq(Requests), disk # <<>>, Answered
  PROVE  /\ disk' \in Seq(Requests)
         /\ 1 \in DOMAIN disk /\ Head(disk) = disk[1] /\ disk[1] \in Requests
         /\ \A q \in DOMAIN disk : q \in Nat /\ q > 0
         /\ \A q \in DOMAIN disk' : q + 1 \in DOMAIN disk /\ q + 1 > 1 /\ disk'[q] = disk[q + 1]
                                    /\ q \in Nat
         /\ \A q \in DOMAIN disk : q # 1 => /\ q - 1 \in DOMAIN disk' /\ q - 1 > 0
                                           /\ disk'[q - 1] = disk[q]
<1>1. /\ Head(disk) \in Requests /\ Tail(disk) \in Seq(Requests)
      /\ Len(Tail(disk)) = Len(disk) - 1
      /\ \A q \in 1 .. Len(Tail(disk)) : Tail(disk)[q] = disk[q + 1]
  BY HeadTailProperties
<1>2. /\ Len(disk) \in Nat /\ Len(disk) # 0 /\ DOMAIN disk = 1 .. Len(disk)
      /\ Head(disk) = disk[1] /\ DOMAIN Tail(disk) = 1 .. (Len(disk) - 1)
  BY <1>1, LenProperties, EmptySeq
<1>3. \A q \in DOMAIN disk : q # 1 => /\ q - 1 \in 1 .. (Len(disk) - 1) /\ q - 1 > 0
                                     /\ (q - 1) + 1 = q
  BY <1>2
<1> HIDE DEF Requests
<1>4. \A q \in DOMAIN disk : q # 1 => disk'[q - 1] = disk[q] /\ q - 1 \in DOMAIN disk'
  BY <1>1, <1>2, <1>3 DEF Answered
<1> QED
  BY <1>1, <1>2, <1>3, <1>4 DEF Answered

LEMMA Request ==
  ASSUME disk \in Seq(Requests), NEW q \in DOMAIN disk PROVE disk[q] \in Requests
<1> HIDE DEF Requests
<1> QED
  BY ElementOfSeq, LenProperties

--------------------------------------------------
(* Types.                                                                  *)

LEMMA InitTypeOK == Init => TypeOK /\ SavedInv
<1> SUFFICES ASSUME Init PROVE TypeOK /\ SavedInv
  OBVIOUS
<1>1. MaxConnects \in Nat /\ MaxActions \in Nat /\ MaxReloads \in Nat /\ MaxSize \in Nat \ {0}
  BY ClientAssumption DEF ClientAssumption
<1>2. Unsaved \in Seq(0 .. MaxActions) /\ <<>> \in Seq(Actions) /\ Len(<<>>) = 0
  BY <1>1 DEF Unsaved
<1>3. /\ attempt \in [Attempts -> {"unused", "restoring", "opening", "flushing", "done"}]
      /\ adapter \in [Attempts -> {"none", "opening", "open", "waiting", "token", "late",
                                   "late_open", "off"}]
  BY DEF Init
<1>4. 0 \in 0 .. MaxConnects /\ 0 \in 0 .. MaxActions /\ 0 \in 0 .. MaxReloads /\ 0 <= MaxSize
  BY <1>1
<1>5. queue \in Seq(Actions) /\ Len(queue) <= MaxSize /\ stored \in Seq(0 .. MaxActions)
      /\ disk \in Seq(Requests) /\ DOMAIN disk = {}
  BY <1>2, <1>4 DEF Init
<1>6. TypeOK
  BY <1>3, <1>4, <1>5 DEF Init, TypeOK, Requests
<1>7. SavedInv
  BY <1>5 DEF Init, SavedInv, Kept
<1> QED
  BY <1>6, <1>7

LEMMA KeptTypes ==
  \A s : Kept(s) => /\ s \in Seq(0 .. MaxActions)
                    /\ s # Unsaved => s \in Seq(Actions) /\ Len(s) <= MaxSize
<1>1. MaxActions \in Nat /\ Actions \subseteq 0 .. MaxActions
  BY ClientAssumption DEF ClientAssumption, Actions
<1>2. Unsaved \in Seq(0 .. MaxActions)
  BY <1>1 DEF Unsaved
<1>3. \A s \in Seq(Actions) : s \in Seq(0 .. MaxActions)
  BY <1>1, SeqMonotonic
<1> QED
  BY <1>2, <1>3 DEF Kept

\* The queue in memory is one that can be kept.
LEMMA QueueKept == TypeOK => Kept(queue)
  BY DEF TypeOK, Kept

LEMMA EnqueueTypes ==
  ASSUME TypeOK, SavedInv, NEW a \in Actions, Enqueue(a)
  PROVE  /\ queue' \in Seq(Actions) /\ Len(queue') <= MaxSize
         /\ evicted' \subseteq Actions /\ Ask(Put(a, queue')) /\ Put(a, queue') \in Requests
         /\ ToSet(queue') \cup evicted' = ToSet(queue) \cup evicted \cup {a}
         /\ evicted \subseteq evicted'
<1> DEFINE Queued == /\ queue' \in Seq(Actions) /\ Len(queue') <= MaxSize
                     /\ evicted' \subseteq Actions
                     /\ ToSet(queue') \cup evicted' = ToSet(queue) \cup evicted \cup {a}
                     /\ evicted \subseteq evicted'
<1>1. MaxSize \in Nat /\ MaxSize # 0 /\ MaxConnects \in Nat /\ MaxActions \in Nat
  BY ClientAssumption DEF ClientAssumption
<1>2. queue \in Seq(Actions) /\ Len(queue) <= MaxSize /\ Len(queue) \in Nat
  BY LenProperties DEF TypeOK
<1>3. ASSUME Len(queue) >= MaxSize PROVE Queued
  <2>1. queue # <<>>
    BY <1>1, <1>3
  <2>2. /\ Tail(queue) \in Seq(Actions) /\ Len(Tail(queue)) < Len(queue)
        /\ Head(queue) \in Actions /\ ToSet(queue) = ToSet(Tail(queue)) \cup {Head(queue)}
    BY <1>2, <2>1, Dropped
  <2>3. Len(Tail(queue)) \in Nat
    BY <2>2, LenProperties
  <2>4. queue' = Append(Tail(queue), a) /\ evicted' = evicted \cup {Head(queue)}
    BY <1>3 DEF Enqueue
  <2>5. /\ Append(Tail(queue), a) \in Seq(Actions)
        /\ Len(Append(Tail(queue), a)) = Len(Tail(queue)) + 1
        /\ ToSet(Append(Tail(queue), a)) = ToSet(Tail(queue)) \cup {a}
    <3>1. \A t \in Seq(Actions) : /\ Append(t, a) \in Seq(Actions)
                                  /\ Len(Append(t, a)) = Len(t) + 1
                                  /\ ToSet(Append(t, a)) = ToSet(t) \cup {a}
      BY Appended
    <3> QED
      BY <2>2, <3>1
  <2> QED
    BY <1>1, <1>2, <2>2, <2>3, <2>4, <2>5 DEF TypeOK, Kept
<1>4. ASSUME ~(Len(queue) >= MaxSize) PROVE Queued
  <2>1. queue' = Append(queue, a) /\ evicted' = evicted
    BY <1>4 DEF Enqueue
  <2>2. /\ Append(queue, a) \in Seq(Actions) /\ Len(Append(queue, a)) = Len(queue) + 1
        /\ ToSet(Append(queue, a)) = ToSet(queue) \cup {a}
    BY <1>2, Appended
  <2> QED
    BY <1>1, <1>2, <1>4, <2>1, <2>2 DEF TypeOK, Kept
<1>5. queue' \in Seq(Actions)
  BY <1>3, <1>4
<1>6. Put(a, queue') \in Requests
  BY <1>1, <1>5 DEF Put, Requests, Actions
<1> QED
  BY <1>3, <1>4, <1>6 DEF Enqueue

LEMMA StartFlushTypes ==
  ASSUME TypeOK, SavedInv, StartFlush
  PROVE  /\ flushing' \in {"no", "replay", "retry", "save"} /\ replaying' \in 0 .. MaxActions
         /\ flushing' \in {"replay", "retry"} => replaying' \in Actions
         /\ flushing' = flushing => replaying' = replaying
         /\ flushing' # flushing => queue # <<>> /\ replaying' = Head(queue)
<1>1. MaxActions \in Nat /\ Actions \subseteq 0 .. MaxActions
  BY ClientAssumption DEF ClientAssumption, Actions
<1>2. queue # <<>> => Head(queue) \in Actions
  BY Dropped DEF TypeOK
<1> QED
  BY <1>1, <1>2 DEF StartFlush, TypeOK, SavedInv

LEMMA DequeueTypes ==
  ASSUME TypeOK, SavedInv, Dequeue, flushing \in {"replay", "retry"}
  PROVE  /\ queue' \in Seq(Actions) /\ Len(queue') <= MaxSize /\ Ask(Put(0, queue'))
         /\ Put(0, queue') \in Requests /\ settled' \subseteq Actions /\ flushing' = "save"
<1>1. MaxSize \in Nat /\ queue \in Seq(Actions) /\ Len(queue) <= MaxSize /\ Len(queue) \in Nat
  BY ClientAssumption, LenProperties DEF ClientAssumption, TypeOK
<1> DEFINE Queued == queue' \in Seq(Actions) /\ Len(queue') <= MaxSize
<1>2. ASSUME queue = <<>> PROVE Queued
  BY <1>1, <1>2 DEF Dequeue
<1>3. ASSUME queue # <<>> PROVE Queued
  <2>1. Tail(queue) \in Seq(Actions) /\ Len(Tail(queue)) < Len(queue) /\ Len(Tail(queue)) \in Nat
    BY <1>1, <1>3, Dropped, LenProperties
  <2> QED
    BY <1>1, <1>3, <2>1 DEF Dequeue
<1>4. queue' \in Seq(Actions)
  BY <1>2, <1>3
<1>5. Put(0, queue') \in Requests
  BY <1>4, ClientAssumption DEF Put, Requests, ClientAssumption
<1>6. replaying \in Actions
  BY DEF SavedInv
<1> QED
  BY <1>2, <1>3, <1>5, <1>6 DEF Dequeue, TypeOK

\* What is asked of the storage is typed and can be kept, and one attempt asks once.
LEMMA AskTypes ==
  ASSUME TypeOK, SavedInv, NEW r \in Requests, Ask(r), Kept(r.value),
         r.attempt # 0 => r.action = 0 /\ attempt[r.attempt] # "restoring",
         \A k \in Attempts : k # r.attempt => attempt'[k] = attempt[k],
         r.attempt # 0 => attempt'[r.attempt] = "restoring"
  PROVE  /\ disk' \in Seq(Requests)
         /\ \A q \in DOMAIN disk' : Kept(disk'[q].value)
         /\ \A q \in DOMAIN disk' : disk'[q].attempt # 0 =>
              /\ disk'[q].action = 0 /\ attempt'[disk'[q].attempt] = "restoring"
              /\ \A p \in DOMAIN disk' : disk'[p].attempt = disk'[q].attempt => p = q
<1>1. disk \in Seq(Requests)
  BY DEF TypeOK, Requests
<1>2. \A q \in DOMAIN disk : disk[q] \in Requests
  BY <1>1, Request
<1>3. \A q \in DOMAIN disk : disk[q].attempt # 0 => disk[q].attempt \in Attempts
  BY <1>2, ClientAssumption DEF Requests, Attempts, ClientAssumption
<1>4. \A q \in DOMAIN disk : disk[q].attempt # 0 => disk[q].attempt # r.attempt
  BY DEF SavedInv, IsPut
<1>5. \A q \in DOMAIN disk' : disk'[q].attempt # 0 =>
              /\ disk'[q].action = 0 /\ attempt'[disk'[q].attempt] = "restoring"
  BY <1>1, <1>3, <1>4, Asked DEF SavedInv, IsPut
<1>6. ASSUME NEW q \in DOMAIN disk', NEW p \in DOMAIN disk', disk'[q].attempt # 0,
             disk'[p].attempt = disk'[q].attempt
      PROVE  p = q
  BY <1>1, <1>4, <1>6, Asked DEF SavedInv, IsPut
<1> QED
  BY <1>1, <1>5, <1>6, Asked DEF SavedInv

\* Requests that wait still wait for what they did, once the first is answered.
LEMMA AnswerTypes ==
  ASSUME TypeOK, SavedInv, disk # <<>>, Answered,
         \A k \in Attempts : k # Head(disk).attempt /\ attempt[k] = "restoring"
                             => attempt'[k] = "restoring"
  PROVE  /\ disk' \in Seq(Requests)
         /\ Head(disk) \in Requests /\ Kept(Head(disk).value) /\ Head(disk).value \in Seq(Actions)
         /\ \A q \in DOMAIN disk' : Kept(disk'[q].value)
         /\ \A q \in DOMAIN disk' : disk'[q].attempt # 0 =>
              /\ disk'[q].action = 0 /\ attempt'[disk'[q].attempt] = "restoring"
              /\ \A p \in DOMAIN disk' : disk'[p].attempt = disk'[q].attempt => p = q
<1>1. disk \in Seq(Requests)
  BY DEF TypeOK, Requests
<1>2. \A q \in DOMAIN disk : disk[q] \in Requests
  BY <1>1, Request
<1>3. \A q \in DOMAIN disk : disk[q].attempt # 0 => disk[q].attempt \in Attempts
  BY <1>2, ClientAssumption DEF Requests, Attempts, ClientAssumption
<1>4. \A q \in DOMAIN disk : disk[q].attempt # 0 /\ q # 1 => disk[q].attempt # Head(disk).attempt
  BY <1>1, Advanced DEF SavedInv, IsPut
<1>5. ASSUME NEW q \in DOMAIN disk', disk'[q].attempt # 0
      PROVE  disk'[q].action = 0 /\ attempt'[disk'[q].attempt] = "restoring"
  <2>1. q + 1 \in DOMAIN disk /\ disk'[q] = disk[q + 1] /\ q + 1 > 1
    BY <1>1, Advanced
  <2> QED
    BY <1>3, <1>4, <1>5, <2>1 DEF SavedInv, IsPut
<1>6. ASSUME NEW q \in DOMAIN disk', NEW p \in DOMAIN disk', disk'[q].attempt # 0,
             disk'[p].attempt = disk'[q].attempt
      PROVE  p = q
  <2>1. /\ q + 1 \in DOMAIN disk /\ disk'[q] = disk[q + 1] /\ q \in Nat
        /\ p + 1 \in DOMAIN disk /\ disk'[p] = disk[p + 1] /\ p \in Nat
    BY <1>1, Advanced
  <2>2. p + 1 = q + 1
    BY <1>6, <2>1 DEF SavedInv, IsPut
  <2> QED
    BY <2>1, <2>2
<1>7. \A q \in DOMAIN disk' : Kept(disk'[q].value)
  BY <1>1, Advanced DEF SavedInv
<1>8. Head(disk) \in Requests /\ Kept(Head(disk).value)
  BY <1>1, Advanced DEF SavedInv
<1> QED
  BY <1>1, <1>5, <1>6, <1>7, <1>8, Advanced DEF Requests

LEMMA NextTypeOK == TypeOK /\ SavedInv /\ [Next]_vars => (TypeOK /\ SavedInv)'
<1> SUFFICES ASSUME TypeOK, SavedInv, [Next]_vars PROVE (TypeOK /\ SavedInv)'
  OBVIOUS
<1>0. /\ MaxConnects \in Nat /\ MaxActions \in Nat /\ MaxReloads \in Nat
      /\ Attempts \subseteq 0 .. MaxConnects /\ 0 \in 0 .. MaxConnects /\ 0 \notin Attempts
      /\ Actions \subseteq 0 .. MaxActions /\ 0 \in 0 .. MaxActions
  BY ClientAssumption DEF ClientAssumption, Attempts, Actions
<1>d. disk \in Seq(Requests)
  BY DEF TypeOK, Requests
\* What is left when the requests are settled.
<1> DEFINE
      Asking == /\ disk' \in Seq(Requests) /\ \A q \in DOMAIN disk' : Kept(disk'[q].value)
                /\ \A q \in DOMAIN disk' : disk'[q].attempt # 0 =>
                     /\ disk'[q].action = 0 /\ attempt'[disk'[q].attempt] = "restoring"
                     /\ \A p \in DOMAIN disk' : disk'[p].attempt = disk'[q].attempt => p = q
<1>r. ASSUME Asking, TypeOK', Kept(stored)', flushing' \in {"replay", "retry"} => replaying' \in Actions
      PROVE  (TypeOK /\ SavedInv)'
  BY <1>r DEF SavedInv, IsPut, Kept
<1>q. Asking => disk' \in Seq(Requests)
  OBVIOUS
<1>f. Kept(stored) /\ (flushing \in {"replay", "retry"} => replaying \in Actions)
  BY DEF SavedInv
<1>k. ASSUME disk' = disk, \A k \in Attempts : attempt[k] = "restoring" => attempt'[k] = "restoring"
      PROVE  Asking
  <2>1. \A q \in DOMAIN disk : disk[q].attempt # 0 => disk[q].attempt \in Attempts
    BY <1>d, Request, ClientAssumption DEF Requests, Attempts, ClientAssumption
  <2> QED
    BY <1>d, <1>k, <2>1 DEF SavedInv, IsPut
<1> HIDE DEF Asking
<1> USE <1>0, <1>f, <1>q DEF TypeOK, Requests, Kept
<1>1. CASE Replay
  <2>1. replaying \in Actions /\ flushing \in {"replay", "retry"}
    BY <1>1 DEF Replay
  <2>2. /\ UNCHANGED <<connVars, stored, replaying, unrestored, calls, taken, reloads, evicted,
                       leaked, raced>>
        /\ latest' \in {latest, replaying} /\ mixed' \in BOOLEAN
    BY <1>1 DEF Replay
  <2>3. CASE Dequeue
    <3>1. Asking
      <4>1. Kept(queue')
        BY <2>1, <2>3, DequeueTypes DEF Kept
      <4> QED
        BY <2>1, <2>2, <2>3, <4>1, DequeueTypes, AskTypes DEF connVars, Put, Asking
    <3> QED
      BY <1>r, <2>1, <2>2, <2>3, <3>1, DequeueTypes, KeptTypes DEF connVars
  <2>4. CASE flushing' = "retry" /\ UNCHANGED <<queue, disk, settled>>
    BY <1>k, <1>r, <2>1, <2>2, <2>4 DEF connVars
  <2> QED
    BY <1>1, <2>3, <2>4 DEF Replay
<1>e. ASSUME EndFlush
      PROVE  /\ flushing' = "no" /\ replaying' = 0 /\ connecting' \in BOOLEAN
             /\ attempt' \in [Attempts -> {"unused", "restoring", "opening", "flushing", "done"}]
             /\ \A k \in Attempts : attempt[k] = "restoring" => attempt'[k] = "restoring"
  BY <1>e DEF EndFlush
<1>2. CASE Saved
  <2>1. /\ flushing' \in {"no", "replay"} /\ replaying' \in 0 .. MaxActions
        /\ flushing' = "replay" => replaying' \in Actions
    BY <1>2, <1>e, Dropped DEF Saved
  <2>2. /\ attempt' \in [Attempts -> {"unused", "restoring", "opening", "flushing", "done"}]
        /\ \A k \in Attempts : attempt[k] = "restoring" => attempt'[k] = "restoring"
        /\ connecting' \in BOOLEAN
    BY <1>2, <1>e DEF Saved
  <2>3. Asking /\ Kept(stored)'
    BY <1>2, <2>2, AnswerTypes DEF Saved, Due, Written, Asking, Kept
  <2> QED
    BY <1>2, <1>r, <2>1, <2>2, <2>3, KeptTypes DEF Saved, actionVars, Kept
<1>3. CASE SaveFails
  <2>1. Asking
    BY <1>3, <1>e, AnswerTypes DEF SaveFails, Due, Asking
  <2> QED
    BY <1>3, <1>e, <1>r, <2>1 DEF SaveFails, actionVars
<1>4. ASSUME NEW a \in Actions, Enqueued(a) PROVE (TypeOK /\ SavedInv)'
  <2>1. Asking /\ Kept(Head(disk).value)
    BY <1>4, AnswerTypes DEF Enqueued, Due, Asking, connVars
  <2>2. Kept(stored)' /\ settled' \subseteq Actions /\ mixed' \in BOOLEAN
    BY <1>4, <2>1 DEF Enqueued, Written, Kept
  <2> QED
    BY <1>4, <1>r, <2>1, <2>2, KeptTypes DEF Enqueued, connVars, Kept
<1>5. CASE Act
  <2>1. taken + 1 \in Actions
    BY <1>5 DEF Act, Actions
  <2>2. CASE connected
    BY <1>5, <1>k, <1>r, <2>1, <2>2 DEF Act, connVars
  <2>3. CASE ~connected
    <3>1. Enqueue(taken + 1)
      BY <1>5, <2>3 DEF Act
    <3>2. Asking
      <4>1. Kept(queue')
        BY <2>1, <3>1, EnqueueTypes DEF Kept
      <4> QED
        BY <1>5, <2>1, <3>1, <4>1, EnqueueTypes, AskTypes DEF Act, connVars, Put, Asking
    <3> QED
      BY <1>5, <1>r, <2>1, <2>3, <3>1, <3>2, EnqueueTypes, KeptTypes DEF Act, connVars
  <2> QED
    BY <2>2, <2>3
<1>6. ASSUME NEW a \in Actions, Answer(a) PROVE (TypeOK /\ SavedInv)'
  BY <1>6, <1>k, <1>r DEF Answer, connVars, queueVars
<1>7. ASSUME NEW k \in Attempts, Connect(k) PROVE (TypeOK /\ SavedInv)'
  <2>1. Get(k) \in Requests /\ Kept(Get(k).value) /\ Get(k).action = 0 /\ Get(k).attempt = k
    BY ClientAssumption DEF Get, Kept, ClientAssumption
  <2>2. Asking
    BY <1>7, <2>1, AskTypes DEF Connect, Asking
  <2> QED
    BY <1>7, <1>r, <2>2 DEF Connect, actionVars
<1>8. ASSUME NEW k \in Attempts, Restore(k) \/ RestoreFails(k) PROVE (TypeOK /\ SavedInv)'
  <2>1. queue' \in Seq(Actions) /\ Len(queue') <= MaxSize
    BY <1>8, KeptTypes DEF Restore, RestoreFails
  <2>2. Asking
    BY <1>8, AnswerTypes DEF Restore, RestoreFails, Due, Asking
  <2> QED
    BY <1>8, <1>r, <2>1, <2>2 DEF Restore, RestoreFails, SetAdapter, actionVars
<1>9. ASSUME NEW k \in Attempts, OpenOvertaken(k) \/ OpenFails(k) PROVE (TypeOK /\ SavedInv)'
  <2>1. Asking
    BY <1>9, <1>k DEF OpenOvertaken, OpenFails, queueVars
  <2> QED
    BY <1>9, <1>r, <2>1 DEF OpenOvertaken, OpenFails, SetAdapter, queueVars, actionVars
<1>10. ASSUME NEW k \in Attempts, Open(k) PROVE (TypeOK /\ SavedInv)'
  <2>1. StartFlush
    BY <1>10 DEF Open
  <2>2. leaked' \subseteq Attempts
    BY <1>10 DEF Open, Attempts
  <2>3. Asking
    BY <1>10, <1>k DEF Open
  <2> QED
    BY <1>10, <1>r, <2>1, <2>2, <2>3, StartFlushTypes DEF Open, SetAdapter, actionVars
<1>11. ASSUME NEW k \in Attempts, Lose(k) \/ Retry(k) \/ RetryFails(k) PROVE (TypeOK /\ SavedInv)'
  <2>1. Asking
    BY <1>11, <1>k DEF Lose, Retry, RetryFails, SameQueue, queueVars
  <2>2. /\ connected' \in BOOLEAN
        /\ adapter' \in [Attempts -> {"none", "opening", "open", "waiting", "token", "late",
                                      "late_open", "off"}]
    BY <1>11 DEF Lose, Retry, RetryFails, SetAdapter
  <2>3. /\ SameQueue
        /\ UNCHANGED <<connecting, current, transport, attempt, wired, leaked>>
    BY <1>11 DEF Lose, Retry, RetryFails
  <2> QED
    BY <1>r, <2>1, <2>2, <2>3 DEF SameQueue, queueVars, actionVars
<1>12. ASSUME NEW k \in Attempts, Reopen(k) PROVE (TypeOK /\ SavedInv)'
  <2>1. /\ flushing' \in {"no", "replay", "retry", "save"} /\ replaying' \in 0 .. MaxActions
        /\ flushing' \in {"replay", "retry"} => replaying' \in Actions
    BY <1>12, StartFlushTypes DEF Reopen
  <2>2. Asking
    BY <1>12, <1>k DEF Reopen
  <2> QED
    BY <1>12, <1>r, <2>1, <2>2 DEF Reopen, SetAdapter, actionVars
<1>13. CASE Disconnect
  <2>1. transport # 0 => transport \in Attempts
    BY DEF Attempts
  <2>2. Asking
    BY <1>13, <1>k DEF Disconnect, queueVars
  <2> QED
    BY <1>13, <1>r, <2>1, <2>2 DEF Disconnect, SetAdapter, queueVars, actionVars
<1>14. CASE Reload
  <2>1. Saving \subseteq Actions
    <3>1. \A r \in ToSet(disk) : r \in Requests
      BY <1>d, Request DEF ToSet
    <3>2. \A n \in 0 .. MaxActions : n # 0 => n \in Actions
      BY DEF Actions
    <3> QED
      BY <3>1, <3>2 DEF Saving
  <2>2. latest' \in 0 .. MaxActions /\ settled' \subseteq Actions /\ reloads' \in 0 .. MaxReloads
    BY <1>14, <2>1 DEF Reload
  <2>3. Kept(stored)'
    <3>1. \A v \in Writing : Kept(v)
      BY DEF Writing, ToSet, SavedInv
    <3> QED
      BY <1>14, <3>1 DEF Reload, Kept
  <2>4. queue' \in Seq(Actions) /\ Len(queue') <= MaxSize
    BY <1>14, ClientAssumption DEF Reload, ClientAssumption
  <2>5. Asking
    BY <1>14 DEF Reload, Asking
  <2>6. unrestored' \in BOOLEAN /\ mixed' \in BOOLEAN
    BY <1>14 DEF Reload
  <2> QED
    BY <1>14, <1>r, <2>2, <2>3, <2>4, <2>5, <2>6, KeptTypes DEF Reload, Kept
<1>15. CASE UNCHANGED vars
  <2>1. Asking
    BY <1>15, <1>k DEF vars, connVars, queueVars
  <2> QED
    BY <1>15, <1>r, <2>1 DEF vars, connVars, queueVars, actionVars, Kept
<1> QED
  BY <1>1, <1>2, <1>3, <1>4, <1>5, <1>6, <1>7, <1>8, <1>9, <1>10, <1>11, <1>12, <1>13, <1>14,
     <1>15 DEF Next, Own, Socket

\* Every variable of the client keeps its type, and its queue its limit
\* (packages/js/src/client.ts:60-330, queue/action-queue.ts:40-125).
THEOREM TypeCorrect == Spec => []TypeOK
<1>1. Init => TypeOK /\ SavedInv
  BY InitTypeOK
<1>2. TypeOK /\ SavedInv /\ [Next]_vars => (TypeOK /\ SavedInv)'
  BY NextTypeOK
<1> QED
  BY <1>1, <1>2, PTL DEF Spec

-----------------------------------------------------------------------------
(* Sockets.                                                                *)

\* The adapter of an attempt that opens is opening; the transport's attempt is past it.
SocketsInv ==
  /\ SocketsAccountedFor
  /\ transport # 0 => attempt[transport] \in {"flushing", "done"}
  /\ \A k \in Attempts : attempt[k] = "opening" => adapter[k] = "opening"

LEMMA InitSockets == Init => SocketsInv
  BY DEF Init, SocketsInv, SocketsAccountedFor, Alive

LEMMA NextSockets == TypeOK /\ SocketsInv /\ [Next]_vars => SocketsInv'
<1> SUFFICES ASSUME TypeOK, SocketsInv, [Next]_vars PROVE SocketsInv'
  OBVIOUS
<1>0. /\ connected \in BOOLEAN /\ 0 \notin Attempts /\ transport \in Attempts \cup {0}
      /\ DOMAIN attempt = Attempts /\ DOMAIN adapter = Attempts
      /\ attempt \in [Attempts -> {"unused", "restoring", "opening", "flushing", "done"}]
      /\ adapter \in [Attempts -> {"none", "opening", "open", "waiting", "token", "late",
                                   "late_open", "off"}]
  BY DEF TypeOK, Attempts
<1> USE <1>0 DEF SocketsInv, SocketsAccountedFor, Alive
<1>1. CASE UNCHANGED <<connected, transport, attempt, adapter, leaked>>
  BY <1>1
<1>2. CASE Saved \/ SaveFails
  BY <1>2 DEF Saved, SaveFails, EndFlush
<1>3. ASSUME NEW k \in Attempts, Connect(k) PROVE SocketsInv'
  BY <1>3 DEF Connect
<1>4. ASSUME NEW k \in Attempts, Restore(k) PROVE SocketsInv'
  BY <1>4 DEF Restore, SetAdapter
<1>12. ASSUME NEW k \in Attempts, RestoreFails(k) PROVE SocketsInv'
  BY <1>12 DEF RestoreFails
<1>5. ASSUME NEW k \in Attempts, OpenOvertaken(k) PROVE SocketsInv'
  BY <1>5 DEF OpenOvertaken, SetAdapter
<1>6. ASSUME NEW k \in Attempts, OpenFails(k) PROVE SocketsInv'
  BY <1>6 DEF OpenFails, SetAdapter
<1>7. ASSUME NEW k \in Attempts, Open(k) PROVE SocketsInv'
  <2>1. PICK s \in {"done", "flushing"} : attempt' = [attempt EXCEPT ![k] = s]
    BY <1>7 DEF Open
  <2>2. /\ \A j \in Attempts : adapter'[j] = IF j = k THEN "open" ELSE adapter[j]
        /\ \A j \in Attempts : attempt'[j] = IF j = k THEN s ELSE attempt[j]
        /\ transport' = k
        /\ transport # 0 => transport \in leaked'
        /\ leaked \subseteq leaked'
    BY <1>7, <2>1 DEF Open, SetAdapter
  <2> QED
    BY <2>2
<1>8. ASSUME NEW k \in Attempts, Lose(k) \/ Retry(k) \/ RetryFails(k) \/ Reopen(k)
      PROVE  SocketsInv'
  <2>1. UNCHANGED <<transport, attempt, leaked>>
    BY <1>8 DEF Lose, Retry, RetryFails, Reopen
  <2>2. connected' => connected \/ (adapter[k] \in {"token", "late"})
    BY <1>8 DEF Lose, Retry, RetryFails, Reopen
  <2>3. PICK s \in {"open", "late_open", "waiting", "token", "off"} :
          \A j \in Attempts : adapter'[j] = IF j = k THEN s ELSE adapter[j]
    BY <1>8 DEF Lose, Retry, RetryFails, Reopen, SetAdapter
  <2>4. Alive(k) /\ adapter[k] # "opening"
    BY <1>8 DEF Lose, Retry, RetryFails, Reopen
  <2> QED
    BY <2>1, <2>2, <2>3, <2>4
<1>9. CASE Disconnect
  BY <1>9 DEF Disconnect, SetAdapter
<1>10. CASE Reload
  BY <1>10 DEF Reload
<1>11. \/ UNCHANGED <<connected, transport, attempt, adapter, leaked>>
       \/ Saved \/ SaveFails \/ Disconnect \/ Reload
       \/ \E k \in Attempts : Connect(k) \/ Own(k) \/ Socket(k)
  BY DEF Next, vars, Act, Answer, Enqueued, Replay, connVars
<1> QED
  BY <1>1, <1>2, <1>3, <1>4, <1>5, <1>6, <1>7, <1>8, <1>9, <1>10, <1>11, <1>12
     DEF Own, Socket

\* Every socket alive is the transport's, that of an attempt under way, or one the
\* client has lost track of by a first connect that failed, a second connect while the
\* transport reconnected, or a disconnect while it waited for a token
\* (packages/js/src/client.ts:90-180, transport/websocket.ts:60-330).
THEOREM SocketsAccounted == Spec => []SocketsAccountedFor
<1>1. Init => TypeOK /\ SavedInv /\ SocketsInv
  BY InitTypeOK, InitSockets
<1>2. TypeOK /\ SavedInv /\ SocketsInv /\ [Next]_vars => (TypeOK /\ SavedInv /\ SocketsInv)'
  BY NextTypeOK, NextSockets
<1>3. SocketsInv => SocketsAccountedFor
  BY DEF SocketsInv
<1> QED
  BY <1>1, <1>2, <1>3, PTL DEF Spec

-----------------------------------------------------------------------------
(* Actions.                                                                *)

KeepInv == LossInv /\ NothingLost

LEMMA InitKeepInv == Init => KeepInv
<1> SUFFICES ASSUME Init PROVE KeepInv
  OBVIOUS
<1>1. taken = 0 /\ 1 .. 0 = {} /\ flushing = "no" /\ queue = <<>> /\ DOMAIN disk = {}
      /\ ToSet(queue) = {} /\ ~unrestored /\ ToSet(stored) \subseteq {0}
  BY DEF Init, ToSet, Unsaved
<1> QED
  BY <1>1 DEF KeepInv, LossInv, QueueIsSaved, SavedIsQueued, Gone, NothingLost

\* A request more: what is waited for still is, and so is what is asked for.
LEMMA AskMoves ==
  ASSUME TypeOK, NEW r \in Requests, Ask(r)
  PROVE  /\ \A q \in DOMAIN disk : (IsPut(q)' <=> IsPut(q)) /\ (IsCall(q)' <=> IsCall(q))
         /\ \A a : \A q \in DOMAIN disk \cup {0} : /\ YetSaved(a, q) => YetSaved(a, q)'
                                                   /\ a = r.action => YetSaved(a, q)'
<1>1. disk \in Seq(Requests)
  BY DEF TypeOK, Requests
<1>2. /\ DOMAIN disk' = DOMAIN disk \cup {Len(disk) + 1} /\ Len(disk) \in Nat
      /\ \A q \in DOMAIN disk : disk'[q] = disk[q] /\ q < Len(disk) + 1
      /\ disk'[Len(disk) + 1] = r
  BY <1>1, Asked
<1>3. 0 < Len(disk) + 1
  BY <1>2
<1> QED
  BY <1>2, <1>3 DEF IsPut, IsCall, YetSaved

\* An answer: what is waited for still is, except for what is answered.
LEMMA AnswerMoves ==
  ASSUME TypeOK, disk # <<>>, Answered
  PROVE  /\ 1 \in DOMAIN disk /\ Head(disk) = disk[1]
         /\ \A q \in DOMAIN disk' : /\ q + 1 \in DOMAIN disk /\ disk'[q] = disk[q + 1]
                                    /\ (IsPut(q)' <=> IsPut(q + 1))
                                    /\ (IsCall(q)' <=> IsCall(q + 1))
                                    /\ \A a : YetSaved(a, q + 1) => YetSaved(a, q)'
         /\ \A a : /\ YetSaved(a, 1) => YetSaved(a, 0)'
                   /\ YetSaved(a, 0) /\ Head(disk).action # a => YetSaved(a, 0)'
<1>1. disk \in Seq(Requests)
  BY DEF TypeOK, Requests
<1>2. /\ 1 \in DOMAIN disk /\ Head(disk) = disk[1]
      /\ \A q \in DOMAIN disk : q \in Nat /\ q > 0
      /\ \A q \in DOMAIN disk' : q + 1 \in DOMAIN disk /\ disk'[q] = disk[q + 1] /\ q \in Nat
      /\ \A q \in DOMAIN disk : q # 1 => /\ q - 1 \in DOMAIN disk' /\ q - 1 > 0
                                        /\ disk'[q - 1] = disk[q]
  BY <1>1, Advanced
<1>3. ASSUME NEW a, NEW q \in DOMAIN disk', YetSaved(a, q + 1) PROVE YetSaved(a, q)'
  <2>1. PICK p \in DOMAIN disk : p > q + 1 /\ disk[p].action = a
    BY <1>3 DEF YetSaved
  <2>2. p - 1 \in DOMAIN disk' /\ disk'[p - 1].action = a /\ p - 1 > q
    BY <1>2, <2>1
  <2> QED
    BY <2>2 DEF YetSaved
<1>4. ASSUME NEW a, NEW p \in DOMAIN disk, p # 1, disk[p].action = a PROVE YetSaved(a, 0)'
  BY <1>2, <1>4 DEF YetSaved
<1> QED
  BY <1>2, <1>3, <1>4 DEF IsPut, IsCall, YetSaved

\* Steps that leave the queue and the storage alone.
LEMMA QuietKeep ==
  ASSUME TypeOK, KeepInv, UNCHANGED <<queue, stored, disk, unrestored, evicted, taken>>,
         ~raced' => ~raced, settled \subseteq settled', calls \subseteq calls' \cup settled',
         unrestored /\ queue = <<>> /\ flushing = "no" => flushing' = "no",
         ~raced => (flushing' \in {"replay", "retry"} => queue # <<>> /\ Head(queue) = replaying')
  PROVE  KeepInv'
<1> SUFFICES ASSUME ~raced' PROVE KeepInv'
  BY DEF KeepInv, LossInv, NothingLost
<1>1. ~raced /\ QueueIsSaved /\ SavedIsQueued /\ NothingLost
  BY DEF KeepInv, LossInv
<1>2. Gone \subseteq Gone'
  BY DEF Gone
<1>3. NothingLost'
  BY <1>1 DEF NothingLost, ToSet
<1>4. QueueIsSaved'
  BY <1>1, <1>2 DEF QueueIsSaved, YetSaved, IsPut, ToSet
<1>5. SavedIsQueued'
  BY <1>1, <1>2 DEF SavedIsQueued, IsPut, ToSet
<1> QED
  BY <1>1, <1>3, <1>4, <1>5 DEF KeepInv, LossInv, IsPut, IsCall

\* An action that joins the queue is waited for, and in what is to be saved with it.
LEMMA ActKeep ==
  ASSUME TypeOK, SavedInv, KeepInv, Act PROVE KeepInv'
<1> SUFFICES ASSUME ~raced' PROVE KeepInv'
  BY DEF KeepInv, LossInv, NothingLost
<1> DEFINE a == taken + 1
<1>1. /\ MaxActions \in Nat /\ taken \in Nat /\ taken < MaxActions /\ taken' = a
      /\ 1 .. a = (1 .. taken) \cup {a} /\ a \in Actions
  BY ClientAssumption DEF ClientAssumption, Act, TypeOK, Actions
<1>2. ~raced /\ LossInv /\ NothingLost
      /\ UNCHANGED <<attempt, stored, flushing, replaying, settled, unrestored>>
  BY DEF KeepInv, Act, connVars
<1>3. CASE connected
  <2>1. UNCHANGED <<queue, disk, evicted>> /\ calls' = calls \cup {a}
    BY <1>3 DEF Act
  <2>2. NothingLost'
    BY <1>1, <1>2, <2>1 DEF NothingLost, ToSet
  <2> QED
    BY <1>2, <2>1, <2>2
       DEF KeepInv, LossInv, QueueIsSaved, SavedIsQueued, Gone, YetSaved, IsPut, IsCall, ToSet
<1>4. CASE ~connected
  <2>1. ~Restoring /\ ~unrestored /\ (flushing = "no" \/ ~(Len(queue) >= MaxSize))
    BY <1>4 DEF Act, MeetsQueue
  <2>2. Enqueue(a) /\ calls' = calls
    BY <1>4 DEF Act
  <2> DEFINE r == Put(a, queue')
  <2>3. /\ ToSet(queue') \cup evicted' = ToSet(queue) \cup evicted \cup {a}
        /\ evicted \subseteq evicted' /\ Ask(r) /\ r \in Requests
    BY <1>1, <2>2, EnqueueTypes
  <2>4. /\ QueueIsSaved /\ ToSet(stored) \ Gone \subseteq ToSet(queue)
        /\ \A q \in DOMAIN disk : IsPut(q) => ToSet(disk[q].value) \ Gone \subseteq ToSet(queue)
    BY <1>2, <2>1 DEF LossInv, SavedIsQueued
  <2>5. r.action = a /\ r.attempt = 0 /\ r.value = queue'
    BY DEF Put
  <2>6. \A q \in DOMAIN disk' : \/ q \in DOMAIN disk /\ disk'[q] = disk[q]
                                \/ q \notin DOMAIN disk /\ disk'[q] = r
    BY <2>3, Asked DEF TypeOK, Requests
  <2> HIDE DEF r
  <2>7. Gone' = Gone \cup evicted' /\ Gone \subseteq Gone'
    BY <1>2, <2>3 DEF Gone
  <2>8. NothingLost'
    BY <1>1, <1>2, <2>1, <2>2, <2>3 DEF NothingLost
  <2>9. flushing \in {"replay", "retry"} => queue' # <<>> /\ Head(queue') = replaying
    <3> SUFFICES ASSUME flushing \in {"replay", "retry"}
                 PROVE  queue' # <<>> /\ Head(queue') = replaying
      OBVIOUS
    <3>1. queue # <<>> /\ Head(queue) = replaying
      BY <1>2 DEF LossInv
    <3>2. queue' = Append(queue, a) /\ queue \in Seq(Actions)
      BY <2>1, <2>2 DEF Enqueue, TypeOK
    <3> QED
      BY <1>1, <3>1, <3>2, Appended
  <2>10. QueueIsSaved'
    <3> SUFFICES ASSUME NEW b \in ToSet(queue') \ Gone'
                 PROVE  /\ b \in ToSet(stored) \/ YetSaved(b, 0)'
                        /\ \A q \in DOMAIN disk' : IsPut(q)' => b \in ToSet(disk'[q].value) \/ YetSaved(b, q)'
      BY <1>2 DEF QueueIsSaved, ToSet
    <3>1. CASE b = a
      BY <2>3, <2>5, <2>6, <3>1, AskMoves
    <3>2. CASE b # a
      <4>1. b \in ToSet(queue) \ Gone
        BY <2>3, <2>7, <3>2
      <4>2. /\ b \in ToSet(stored) \/ YetSaved(b, 0)
            /\ \A q \in DOMAIN disk : IsPut(q) => b \in ToSet(disk[q].value) \/ YetSaved(b, q)
        BY <2>4, <4>1 DEF QueueIsSaved
      <4> QED
        BY <2>3, <2>5, <2>6, <4>2, AskMoves
    <3> QED
      BY <3>1, <3>2
  <2>11. SavedIsQueued'
    <3>1. ToSet(stored) \ Gone' \subseteq ToSet(queue')
      BY <2>3, <2>4, <2>7
    <3>2. \A q \in DOMAIN disk' : IsPut(q)' => ToSet(disk'[q].value) \ Gone' \subseteq ToSet(queue')
      BY <2>3, <2>4, <2>5, <2>6, <2>7, AskMoves
    <3> QED
      BY <1>2, <2>1, <3>1, <3>2 DEF SavedIsQueued, ToSet
  <2>12. \A p \in DOMAIN disk' : IsPut(p)'
    <3>1. \A p \in DOMAIN disk : IsPut(p)
      <4> SUFFICES ASSUME NEW p \in DOMAIN disk, ~IsPut(p) PROVE FALSE
        OBVIOUS
      <4>1. disk[p] \in Requests /\ attempt[disk[p].attempt] = "restoring"
        BY Request DEF SavedInv, TypeOK, Requests
      <4>2. disk[p].attempt \in Attempts
        BY <4>1, ClientAssumption DEF IsPut, Requests, Attempts, ClientAssumption
      <4> QED
        BY <2>1, <4>1, <4>2 DEF Restoring
    <3> QED
      BY <2>5, <2>6, <3>1 DEF IsPut
  <2> QED
    BY <1>2, <2>8, <2>9, <2>10, <2>11, <2>12 DEF KeepInv, LossInv
<1> QED
  BY <1>3, <1>4

\* What leaves the queue is done with; the rest is in what is to be saved.
LEMMA ReplayKeep ==
  ASSUME TypeOK, SavedInv, KeepInv, Replay PROVE KeepInv'
<1> SUFFICES ASSUME ~raced' PROVE KeepInv'
  BY DEF KeepInv, LossInv, NothingLost
<1>1. /\ ~raced /\ LossInv /\ NothingLost
      /\ UNCHANGED <<attempt, stored, replaying, evicted, calls, taken, unrestored>>
      /\ flushing \in {"replay", "retry"}
  BY DEF KeepInv, Replay, connVars
<1>2. queue # <<>> /\ Head(queue) = replaying /\ queue \in Seq(Actions) /\ ~unrestored
  BY <1>1 DEF LossInv, SavedIsQueued, TypeOK
<1>3. CASE UNCHANGED <<queue, disk, settled>>
  <2>1. flushing' \in {"replay", "retry"} => queue' # <<>> /\ Head(queue') = replaying'
    BY <1>1, <1>2, <1>3
  <2> QED
    BY <1>1, <1>2, <1>3, <2>1, QuietKeep DEF KeepInv
<1>4. CASE Dequeue
  <2> DEFINE r == Put(0, queue')
  <2>1. ToSet(queue) = ToSet(Tail(queue)) \cup {replaying}
    BY <1>2, Dropped
  <2>2. queue' = Tail(queue) /\ settled' = settled \cup {replaying} /\ flushing' = "save"
    BY <1>2, <1>4 DEF Dequeue
  <2>3. Ask(r) /\ r \in Requests
    BY <1>1, <1>4, DequeueTypes
  <2>4. /\ QueueIsSaved /\ ToSet(stored) \ Gone \subseteq ToSet(queue)
        /\ \A q \in DOMAIN disk : IsPut(q) => ToSet(disk[q].value) \ Gone \subseteq ToSet(queue)
    BY <1>1, <1>2 DEF LossInv, SavedIsQueued
  <2>5. r.action = 0 /\ r.attempt = 0 /\ r.value = queue'
    BY DEF Put
  <2>6. \A q \in DOMAIN disk' : \/ q \in DOMAIN disk /\ disk'[q] = disk[q]
                                \/ q \notin DOMAIN disk /\ disk'[q] = r
    BY <2>3, Asked DEF TypeOK, Requests
  <2>7. Gone' = Gone \cup {replaying}
    BY <1>1, <2>2 DEF Gone
  <2> HIDE DEF r
  <2>8. NothingLost'
    BY <1>1, <1>2, <2>1, <2>2 DEF NothingLost
  <2>9. QueueIsSaved'
    <3> SUFFICES ASSUME NEW b \in ToSet(queue') \ Gone'
                 PROVE  /\ b \in ToSet(stored) \/ YetSaved(b, 0)'
                        /\ \A q \in DOMAIN disk' : IsPut(q)' => b \in ToSet(disk'[q].value) \/ YetSaved(b, q)'
      BY <1>1 DEF QueueIsSaved, ToSet
    <3>1. b \in ToSet(queue) \ Gone
      BY <2>1, <2>2, <2>7
    <3>2. /\ b \in ToSet(stored) \/ YetSaved(b, 0)
          /\ \A q \in DOMAIN disk : IsPut(q) => b \in ToSet(disk[q].value) \/ YetSaved(b, q)
      BY <2>4, <3>1 DEF QueueIsSaved
    <3> QED
      BY <2>3, <2>5, <2>6, <3>2, AskMoves
  <2>10. SavedIsQueued'
    <3>1. ToSet(stored) \ Gone' \subseteq ToSet(queue')
      BY <2>1, <2>2, <2>4, <2>7
    <3>2. \A q \in DOMAIN disk' : IsPut(q)' => ToSet(disk'[q].value) \ Gone' \subseteq ToSet(queue')
      BY <2>1, <2>2, <2>3, <2>4, <2>5, <2>6, <2>7, AskMoves
    <3> QED
      BY <1>1, <1>2, <3>1, <3>2 DEF SavedIsQueued, ToSet
  <2>11. \A p, q \in DOMAIN disk' : ~IsPut(p)' /\ IsCall(q)' => q < p
    BY <1>1, <2>5, <2>6 DEF LossInv, IsPut, IsCall
  <2> QED
    BY <2>2, <2>8, <2>9, <2>10, <2>11 DEF KeepInv, LossInv
<1> QED
  BY <1>3, <1>4 DEF Replay

\* The first request is answered, and written if it is a save; what a save does not
\* write is done with.
LEMMA AnswerKeep ==
  ASSUME TypeOK, SavedInv, KeepInv, disk # <<>>, Answered,
         UNCHANGED <<queue, evicted, calls, taken, raced, unrestored>>, settled \subseteq settled',
         \/ Written /\ IsPut(1)
         \/ UNCHANGED stored /\ Head(disk).action \in Gone',
         ~raced => \/ UNCHANGED <<flushing, replaying>> /\ (IsPut(1) => ~unrestored)
                   \/ /\ ~unrestored
                      /\ flushing' \in {"replay", "retry"} => queue # <<>> /\ Head(queue) = replaying'
  PROVE  KeepInv'
<1> SUFFICES ASSUME ~raced' PROVE KeepInv'
  BY DEF KeepInv, LossInv, NothingLost
<1>1. ~raced /\ LossInv /\ NothingLost /\ QueueIsSaved /\ SavedIsQueued
  BY DEF KeepInv, LossInv
<1>2. Gone \subseteq Gone'
  BY DEF Gone
<1>3. stored' # stored => ~unrestored /\ stored' = disk[1].value
  BY <1>1, AnswerMoves DEF Written, LossInv, SavedIsQueued
<1>4. NothingLost'
  BY <1>1, <1>3 DEF NothingLost, ToSet
<1>5. QueueIsSaved'
  <2> SUFFICES ASSUME NEW b \in ToSet(queue) \ Gone'
               PROVE  /\ b \in ToSet(stored') \/ YetSaved(b, 0)'
                      /\ \A q \in DOMAIN disk' : IsPut(q)' => b \in ToSet(disk'[q].value) \/ YetSaved(b, q)'
    BY DEF QueueIsSaved, ToSet
  <2>1. /\ b \in ToSet(stored) \/ YetSaved(b, 0)
        /\ \A q \in DOMAIN disk : IsPut(q) => b \in ToSet(disk[q].value) \/ YetSaved(b, q)
    BY <1>1, <1>2 DEF QueueIsSaved
  <2>2. b \in ToSet(stored') \/ YetSaved(b, 0)'
    <3>1. CASE Written /\ IsPut(1)
      BY <2>1, <3>1, AnswerMoves DEF Written
    <3>2. CASE UNCHANGED stored /\ Head(disk).action \in Gone'
      BY <2>1, <3>2, AnswerMoves
    <3> QED
      BY <3>1, <3>2
  <2> QED
    BY <2>1, <2>2, AnswerMoves
<1>6. SavedIsQueued'
  <2>1. CASE unrestored
    BY <1>1, <2>1, AnswerMoves DEF SavedIsQueued, IsPut
  <2>2. CASE ~unrestored
    <3>1. /\ ToSet(stored) \ Gone \subseteq ToSet(queue)
          /\ \A q \in DOMAIN disk : IsPut(q) => ToSet(disk[q].value) \ Gone \subseteq ToSet(queue)
      BY <1>1, <2>2 DEF SavedIsQueued
    <3>2. ToSet(stored') \ Gone' \subseteq ToSet(queue)
      BY <1>2, <1>3, <3>1, AnswerMoves
    <3>3. \A q \in DOMAIN disk' : IsPut(q)' => ToSet(disk'[q].value) \ Gone' \subseteq ToSet(queue)
      BY <1>2, <3>1, AnswerMoves
    <3> QED
      BY <2>2, <3>2, <3>3 DEF SavedIsQueued, ToSet
  <2> QED
    BY <2>1, <2>2
<1>7. ASSUME NEW p \in DOMAIN disk', NEW q \in DOMAIN disk', ~IsPut(p)', IsCall(q)' PROVE q < p
  <2>1. p \in Nat /\ q \in Nat
    BY Advanced DEF TypeOK, Requests
  <2>2. p + 1 \in DOMAIN disk /\ q + 1 \in DOMAIN disk /\ ~IsPut(p + 1) /\ IsCall(q + 1)
    BY <1>7, AnswerMoves
  <2>3. q + 1 < p + 1
    BY <1>1, <2>2 DEF LossInv
  <2> QED
    BY <2>1, <2>3
<1>8. flushing' \in {"replay", "retry"} => queue # <<>> /\ Head(queue) = replaying'
  BY <1>1 DEF LossInv
<1> QED
  BY <1>4, <1>5, <1>6, <1>7, <1>8 DEF KeepInv, LossInv

\* No call waits when a restore is answered, so that what is stored is all that is
\* queued and not done with.
LEMMA RestoreKeep ==
  ASSUME TypeOK, SavedInv, KeepInv, NEW k \in Attempts, Restore(k) PROVE KeepInv'
<1> SUFFICES ASSUME ~raced' PROVE KeepInv'
  BY DEF KeepInv, LossInv, NothingLost
<1>1. /\ ~raced /\ LossInv /\ NothingLost /\ QueueIsSaved /\ SavedIsQueued
      /\ UNCHANGED <<stored, flushing, replaying, settled, evicted, calls, taken>>
      /\ ~unrestored' /\ Answered /\ disk # <<>> /\ Head(disk).attempt = k
      /\ queue' = queue \/ flushing \notin {"replay", "retry"}
      /\ queue' = IF stored = Unsaved THEN queue ELSE stored
  BY DEF KeepInv, LossInv, Restore, Due, actionVars
<1>2. /\ Gone' = Gone /\ ToSet(Unsaved) = {0} /\ 0 \in Gone
  BY <1>1 DEF Gone, Unsaved, ToSet
<1>3. ~IsPut(1) /\ 1 \in DOMAIN disk /\ \A q \in DOMAIN disk : q \in Nat /\ q > 0
  BY <1>1, Advanced DEF IsPut, Attempts, TypeOK, Requests
<1>4. ASSUME NEW b \in Actions PROVE ~YetSaved(b, 0)
  <2> SUFFICES ASSUME NEW p \in DOMAIN disk, disk[p].action = b PROVE FALSE
    BY DEF YetSaved
  <2>1. b # 0
    BY DEF Actions
  <2>2. IsCall(p)
    BY <2>1 DEF SavedInv, IsPut, IsCall
  <2>3. p < 1
    BY <1>1, <1>3, <2>2 DEF LossInv
  <2> QED
    BY <1>3, <2>3
<1>5. \A b \in ToSet(queue) \ Gone : b \in ToSet(stored)
  <2>1. \A b \in ToSet(queue) : b \in Actions
    BY ElementOfSeq, LenProperties DEF TypeOK, ToSet
  <2> QED
    BY <1>1, <1>4, <2>1 DEF QueueIsSaved
<1>6. ToSet(queue) \ Gone \subseteq ToSet(queue')
  BY <1>1, <1>2, <1>5
<1>7. NothingLost'
  <2>1. CASE unrestored
    <3>1. ToSet(queue) = {}
      BY <1>1, <2>1 DEF SavedIsQueued, ToSet
    <3>2. ToSet(stored) \subseteq ToSet(queue') \cup {0}
      BY <1>1, <1>2
    <3>3. 0 \notin 1 .. taken
      BY DEF TypeOK
    <3> QED
      BY <1>1, <2>1, <3>1, <3>2, <3>3 DEF NothingLost, Gone
  <2>2. CASE ~unrestored
    <3>1. 0 \notin 1 .. taken
      BY DEF TypeOK
    <3> QED
      BY <1>1, <1>6, <2>2, <3>1 DEF NothingLost, Gone
  <2> QED
    BY <2>1, <2>2
<1>8. ASSUME NEW b \in ToSet(queue') \ Gone, NEW q \in DOMAIN disk, IsPut(q)
      PROVE  b \in ToSet(disk[q].value) \/ YetSaved(b, q)
  <2>1. b \in ToSet(queue)
    BY <1>1, <1>8 DEF SavedIsQueued
  <2> QED
    BY <1>1, <1>8, <2>1 DEF QueueIsSaved
<1>9. QueueIsSaved'
  <2> SUFFICES ASSUME NEW b \in ToSet(queue') \ Gone
               PROVE  /\ b \in ToSet(stored)
                      /\ \A q \in DOMAIN disk' : IsPut(q)' => b \in ToSet(disk'[q].value) \/ YetSaved(b, q)'
    BY <1>1, <1>2 DEF QueueIsSaved, ToSet
  <2>1. b \in ToSet(stored)
    BY <1>1, <1>5
  <2> QED
    BY <1>1, <1>8, <2>1, AnswerMoves
<1>10. SavedIsQueued'
  <2>1. ToSet(stored) \ Gone \subseteq ToSet(queue')
    BY <1>1, <1>2
  <2>2. ASSUME NEW q \in DOMAIN disk PROVE IsPut(q) => ToSet(disk[q].value) \ Gone \subseteq ToSet(queue')
    BY <1>1, <1>6 DEF SavedIsQueued
  <2> QED
    BY <1>1, <1>2, <2>1, <2>2, AnswerMoves DEF SavedIsQueued, ToSet
<1>11. ASSUME NEW p \in DOMAIN disk', NEW q \in DOMAIN disk', ~IsPut(p)', IsCall(q)' PROVE q < p
  <2>1. q + 1 \in DOMAIN disk /\ IsCall(q + 1) /\ q \in Nat
    BY <1>1, <1>11, AnswerMoves, Advanced DEF TypeOK, Requests
  <2>2. q + 1 < 1
    BY <1>1, <1>3, <2>1 DEF LossInv
  <2> QED
    BY <2>1, <2>2
<1>12. flushing' \in {"replay", "retry"} => queue' # <<>> /\ Head(queue') = replaying'
  BY <1>1 DEF LossInv
<1> QED
  BY <1>7, <1>9, <1>10, <1>11, <1>12 DEF KeepInv, LossInv

\* A restart: what was queued, and whose call did not wait any more, is in the storage
\* whatever of the requests it has carried out.
LEMMA ReloadKeep ==
  ASSUME TypeOK, SavedInv, KeepInv, Reload PROVE KeepInv'
<1> SUFFICES ASSUME ~raced' PROVE KeepInv'
  BY DEF KeepInv, LossInv, NothingLost
<1>1. /\ ~raced /\ NothingLost /\ QueueIsSaved /\ SavedIsQueued /\ UNCHANGED <<evicted, taken>>
      /\ queue' = <<>> /\ flushing' = "no" /\ settled' = settled \cup calls \cup Saving
      /\ stored' \in {stored} \cup Writing /\ disk' = <<>> /\ DOMAIN disk' = {}
      /\ unrestored' = (stored' \notin {Unsaved, <<>>})
  BY DEF KeepInv, LossInv, Reload
<1>2. \A b \in Actions \ Saving : \A q : ~YetSaved(b, q)
  BY DEF YetSaved, Saving, Actions, ToSet
<1>3. \A b \in ToSet(queue) : b \in Actions
  BY ElementOfSeq, LenProperties DEF TypeOK, ToSet
<1>4. stored' = stored \/ \E q \in DOMAIN disk : IsPut(q) /\ stored' = disk[q].value
  BY <1>1 DEF Writing, ToSet, IsPut
<1>5. ASSUME NEW b \in ToSet(queue) \ (Gone \cup Saving) PROVE b \in ToSet(stored')
  BY <1>1, <1>2, <1>3, <1>4 DEF QueueIsSaved
<1>6. ASSUME NEW b \in ToSet(stored'), b # 0 PROVE unrestored'
  <2>1. stored' # <<>> /\ stored' # Unsaved
    BY <1>6 DEF ToSet, Unsaved
  <2> QED
    BY <1>1, <2>1
<1>7. ASSUME NEW b \in 1 .. taken, b \notin settled', b \notin evicted'
      PROVE  b \in ToSet(stored') /\ b # 0
  <2>1. b # 0
    BY DEF TypeOK
  <2>2. CASE b \in ToSet(queue)
    BY <1>1, <1>5, <1>7, <2>1, <2>2 DEF Gone
  <2>3. CASE b \notin ToSet(queue)
    <3>1. unrestored /\ b \in ToSet(stored)
      BY <1>1, <1>7, <2>3 DEF NothingLost
    <3>2. stored' = stored
      BY <1>1, <1>4, <3>1 DEF SavedIsQueued
    <3> QED
      BY <2>1, <3>1, <3>2
  <2> QED
    BY <2>2, <2>3
<1>8. NothingLost'
  <2> SUFFICES ASSUME NEW b \in 1 .. taken
               PROVE  b \in settled' \cup evicted' \cup (IF unrestored' THEN ToSet(stored') ELSE {})
    BY <1>1 DEF NothingLost, ToSet
  <2> QED
    BY <1>6, <1>7
<1>9. SavedIsQueued' /\ QueueIsSaved'
  <2>1. ~unrestored' => ToSet(stored') \subseteq {0}
    BY <1>6
  <2> QED
    BY <1>1, <2>1 DEF SavedIsQueued, QueueIsSaved, Gone, ToSet
<1> QED
  BY <1>1, <1>8, <1>9 DEF KeepInv, LossInv

LEMMA NextKeepInv == TypeOK /\ SavedInv /\ KeepInv /\ [Next]_vars => KeepInv'
<1> SUFFICES ASSUME TypeOK, SavedInv, KeepInv, [Next]_vars PROVE KeepInv'
  OBVIOUS
<1>1. ASSUME Saved \/ SaveFails PROVE KeepInv'
  <2>1. IsPut(1) /\ Head(disk) = disk[1] /\ disk # <<>> /\ Head(disk).action = 0 /\ Answered
    BY <1>1, AnswerMoves DEF Saved, SaveFails, Due, IsPut
  <2>2. ~raced => ~unrestored
    BY <2>1, <1>1, AnswerMoves DEF KeepInv, LossInv, SavedIsQueued, Saved, SaveFails
  <2>3. flushing' \in {"replay", "retry"} => queue # <<>> /\ Head(queue) = replaying'
    BY <1>1 DEF Saved, SaveFails, EndFlush
  <2>4. /\ UNCHANGED <<queue, evicted, calls, taken, raced, unrestored, settled>>
        /\ Written \/ UNCHANGED stored
    BY <1>1 DEF Saved, SaveFails, actionVars
  <2>5. 0 \in Gone'
    BY DEF Gone
  <2> QED
    BY <2>1, <2>2, <2>3, <2>4, <2>5, AnswerKeep
<1>2. ASSUME NEW a \in Actions, Enqueued(a) PROVE KeepInv'
  <2>1. IsPut(1) /\ Head(disk) = disk[1] /\ disk # <<>> /\ Head(disk).action = a /\ Answered
    BY <1>2, AnswerMoves DEF Enqueued, Due, IsPut
  <2>2. ~raced => ~unrestored
    BY <2>1, AnswerMoves DEF KeepInv, LossInv, SavedIsQueued
  <2>3. /\ UNCHANGED <<queue, evicted, calls, taken, raced, unrestored, flushing, replaying>>
        /\ settled \subseteq settled' /\ (Written \/ (UNCHANGED stored /\ a \in Gone'))
    BY <1>2 DEF Enqueued, Gone
  <2> QED
    BY <2>1, <2>2, <2>3, AnswerKeep
<1>3. ASSUME NEW k \in Attempts, RestoreFails(k) PROVE KeepInv'
  <2>1. disk # <<>> /\ Head(disk) = disk[1] /\ Answered /\ ~IsPut(1) /\ Head(disk).action \in Gone'
    BY <1>3, AnswerMoves DEF RestoreFails, Due, IsPut, Gone, Attempts
  <2>2. UNCHANGED <<queue, stored, evicted, calls, taken, raced, unrestored, flushing, replaying, settled>>
    BY <1>3 DEF RestoreFails, actionVars
  <2> QED
    BY <2>1, <2>2, AnswerKeep
<1>4. ASSUME NEW k \in Attempts, Connect(k) PROVE KeepInv'
  <2> SUFFICES ASSUME ~raced' PROVE KeepInv'
    BY DEF KeepInv, LossInv, NothingLost
  <2>1. /\ ~raced /\ LossInv /\ NothingLost /\ QueueIsSaved /\ SavedIsQueued /\ Ask(Get(k))
        /\ UNCHANGED <<queue, stored, flushing, replaying, unrestored, settled, evicted, calls, taken>>
    BY <1>4 DEF KeepInv, LossInv, Connect, actionVars
  <2>2. Get(k) \in Requests /\ Get(k).attempt = k /\ k # 0 /\ Get(k).value = <<>> /\ Get(k).action = 0
    BY ClientAssumption DEF Get, Requests, Attempts, ClientAssumption
  <2>3. \A q \in DOMAIN disk' : \/ q \in DOMAIN disk /\ disk'[q] = disk[q] /\ q < Len(disk) + 1
                                \/ q = Len(disk) + 1 /\ disk'[q] = Get(k)
    BY <2>1, <2>2, Asked DEF TypeOK, Requests
  <2>4. QueueIsSaved'
    <3> SUFFICES ASSUME NEW b \in ToSet(queue) \ Gone
                 PROVE  /\ b \in ToSet(stored) \/ YetSaved(b, 0)'
                        /\ \A q \in DOMAIN disk' : IsPut(q)' => b \in ToSet(disk'[q].value) \/ YetSaved(b, q)'
      BY <2>1 DEF QueueIsSaved, Gone, ToSet
    <3>1. /\ b \in ToSet(stored) \/ YetSaved(b, 0)
          /\ \A q \in DOMAIN disk : IsPut(q) => b \in ToSet(disk[q].value) \/ YetSaved(b, q)
      BY <2>1 DEF QueueIsSaved
    <3> QED
      BY <2>1, <2>2, <2>3, <3>1, AskMoves DEF IsPut
  <2>5. SavedIsQueued'
    <3>1. ToSet(<<>>) = {}
      BY DEF ToSet
    <3> QED
      BY <2>1, <2>2, <2>3, <3>1 DEF SavedIsQueued, Gone, IsPut, ToSet
  <2>6. \A p, q \in DOMAIN disk' : ~IsPut(p)' /\ IsCall(q)' => q < p
    BY <2>1, <2>2, <2>3 DEF LossInv, IsPut, IsCall
  <2>7. NothingLost'
    BY <2>1 DEF NothingLost, ToSet
  <2> QED
    BY <2>1, <2>4, <2>5, <2>6, <2>7 DEF KeepInv, LossInv
<1>5. ASSUME NEW a \in Actions, Answer(a) PROVE KeepInv'
  BY <1>5, QuietKeep DEF Answer, connVars, queueVars, KeepInv, LossInv
<1>6. ASSUME NEW k \in Attempts, OpenOvertaken(k) \/ OpenFails(k) PROVE KeepInv'
  BY <1>6, QuietKeep DEF OpenOvertaken, OpenFails, queueVars, actionVars, KeepInv, LossInv
<1>7. ASSUME StartFlush
      PROVE  /\ ~raced => (flushing' \in {"replay", "retry"} => queue # <<>> /\ Head(queue) = replaying')
             /\ unrestored /\ queue = <<>> /\ flushing = "no" => flushing' = "no"
  BY <1>7 DEF StartFlush, KeepInv, LossInv
<1>8. ASSUME NEW k \in Attempts, Open(k) PROVE KeepInv'
  BY <1>7, <1>8, QuietKeep DEF Open, actionVars
<1>9. ASSUME NEW k \in Attempts, Lose(k) \/ Retry(k) \/ RetryFails(k) PROVE KeepInv'
  BY <1>9, QuietKeep DEF Lose, Retry, RetryFails, SameQueue, queueVars, actionVars, KeepInv, LossInv
<1>10. ASSUME NEW k \in Attempts, Reopen(k) PROVE KeepInv'
  <2>1. /\ ~raced => (flushing' \in {"replay", "retry"} => queue # <<>> /\ Head(queue) = replaying')
        /\ unrestored /\ queue = <<>> /\ flushing = "no" => flushing' = "no"
    BY <1>7, <1>10 DEF Reopen, KeepInv, LossInv
  <2> QED
    BY <1>10, <2>1, QuietKeep DEF Reopen, actionVars
<1>11. CASE Disconnect \/ UNCHANGED vars
  BY <1>11, QuietKeep DEF Disconnect, vars, connVars, queueVars, actionVars, KeepInv, LossInv
<1> QED
  BY <1>1, <1>2, <1>3, <1>4, <1>5, <1>6, <1>8, <1>9, <1>10, <1>11, ActKeep, ReplayKeep,
     RestoreKeep, ReloadKeep DEF Next, Own, Socket

\* Every action is carried out, reported as failed, evicted or still kept, through lost
\* connections, flushes, restarts at any moment and a storage that rejects, unless its
\* call was cut off by a restart, or met a restore, a full queue in a flush or a stored
\* queue that was not restored, or a restore met a replay
\* (packages/js/src/queue/action-queue.ts:79-166, packages/js/src/client.ts:137-326).
THEOREM NothingIsLost == Spec => []NothingLost
<1>1. Init => TypeOK /\ SavedInv /\ KeepInv
  BY InitTypeOK, InitKeepInv
<1>2. TypeOK /\ SavedInv /\ KeepInv /\ [Next]_vars => (TypeOK /\ SavedInv /\ KeepInv)'
  BY NextTypeOK, NextKeepInv
<1>3. KeepInv => NothingLost
  BY DEF KeepInv
<1> QED
  BY <1>1, <1>2, <1>3, PTL DEF Spec

-----------------------------------------------------------------------------
(* The last word.                                                          *)

Empty == stored \in {Unsaved, <<>>}
NoPut == \A q \in DOMAIN disk : ~IsPut(q)
NoCall == \A q \in DOMAIN disk : ~IsCall(q)

\* The actions: the queue ends with the last one taken; when nothing is queued or under
\* way that one came last.
ActionsWin ==
  /\ queue # <<>> => queue[Len(queue)] = taken
  /\ calls \subseteq {taken}
  /\ calls # {} => flushing = "no" /\ queue = <<>>
  /\ connected /\ flushing = "no" => queue = <<>>
  /\ queue = <<>> /\ calls = {} /\ ~unrestored => latest = taken

\* The storage, once every call is saved: it ends with the last action, and is not empty
\* in a flush; once nothing is to be saved it is what is queued. Whatever may start a
\* flush, or send an action, has restored the queue before.
StoredWins ==
  /\ NoCall => (~Empty => stored[Len(stored)] = taken) /\ (flushing # "no" => ~Empty)
  /\ NoPut /\ ~unrestored => stored = queue \/ (stored = Unsaved /\ queue = <<>>)
  /\ flushing = "no" /\ queue = <<>> => NoPut
  /\ unrestored => /\ ~connected /\ wired = {} /\ calls = {} /\ ~Empty
                   /\ \A k \in Attempts : attempt[k] \notin {"opening", "flushing"}

\* What is to be saved last is what is queued, and a flush saves last.
LastIsSaved(q) ==
  /\ (\A p \in DOMAIN disk : p > q => ~IsCall(p)) =>
       disk[q].value = <<>> \/ disk[q].value[Len(disk[q].value)] = taken
  /\ (\A p \in DOMAIN disk : p > q => ~IsPut(p)) => disk[q].value = queue
  /\ IsCall(q) => disk[q].value # <<>>
  /\ ~IsCall(q) => flushing = "save" /\ \A p \in DOMAIN disk : p > q => ~IsPut(p)

DiskWins == \A q \in DOMAIN disk : IsPut(q) => LastIsSaved(q)

WinsInv == ~raced /\ ~mixed => ActionsWin /\ StoredWins /\ DiskWins

LEMMA NeverUnsaved == \A s \in Seq(Actions) : s # Unsaved
<1> SUFFICES ASSUME NEW s \in Seq(Actions), s = Unsaved PROVE FALSE
  OBVIOUS
<1>1. s = <<0>>
  BY DEF Unsaved
<1>2. Len(s) = 1 /\ s[1] = 0
  BY <1>1
<1>3. \A i \in 1 .. Len(s) : s[i] \in Actions
  BY ElementOfSeq
<1>4. 0 \in Actions
  BY <1>2, <1>3
<1> QED
  BY <1>4 DEF Actions

LEMMA InitWins == Init => WinsInv
<1> SUFFICES ASSUME Init PROVE ActionsWin /\ StoredWins /\ DiskWins
  BY DEF WinsInv
<1>1. DOMAIN disk = {}
  BY DEF Init
<1> QED
  BY <1>1 DEF Init, ActionsWin, StoredWins, DiskWins, Empty, NoPut, NoCall

\* Outside a flush nothing is to be saved but calls: where none is, nothing is.
LEMMA Idle ==
  ASSUME DiskWins, flushing # "save" PROVE NoCall => NoPut
BY DEF DiskWins, LastIsSaved, NoCall, NoPut

\* One more request to save: it comes last, and the others stay what they are.
LEMMA AskedLast ==
  ASSUME TypeOK, NEW r \in Requests, Ask(r), r.attempt = 0
  PROVE  \E n \in DOMAIN disk' :
           /\ disk'[n] = r /\ IsPut(n)' /\ (IsCall(n)' <=> r.action # 0)
           /\ \A q \in DOMAIN disk' : ~(q > n)
           /\ \A q \in DOMAIN disk' : q = n \/ q \in DOMAIN disk
           /\ \A q \in DOMAIN disk : /\ q \in DOMAIN disk' /\ n > q /\ disk'[q] = disk[q]
                                    /\ (IsPut(q)' <=> IsPut(q)) /\ (IsCall(q)' <=> IsCall(q))
<1>1. PICK n : n = Len(disk) + 1
  OBVIOUS
<1>0. disk \in Seq(Requests)
  BY DEF TypeOK, Requests
<1>2. /\ DOMAIN disk' = DOMAIN disk \cup {n} /\ disk'[n] = r /\ n \in Nat
      /\ \A q \in DOMAIN disk : disk'[q] = disk[q] /\ q < n /\ q \in Nat
  <2>1. /\ Len(disk) \in Nat /\ DOMAIN disk = 1 .. Len(disk)
        /\ DOMAIN disk' = DOMAIN disk \cup {Len(disk) + 1}
        /\ \A q \in DOMAIN disk : disk'[q] = disk[q] /\ q < Len(disk) + 1 /\ q \in Nat
        /\ disk'[Len(disk) + 1] = r
    BY <1>0, Asked
  <2> QED
    BY <1>1, <2>1
<1>3. IsPut(n)' /\ (IsCall(n)' <=> r.action # 0)
  BY <1>2 DEF IsPut, IsCall
<1>4. \A q \in DOMAIN disk : (IsPut(q)' <=> IsPut(q)) /\ (IsCall(q)' <=> IsCall(q))
  BY <1>2 DEF IsPut, IsCall
<1> QED
  BY <1>2, <1>3, <1>4

\* An action is sent where nothing is queued or stored, or saved behind those that are.
LEMMA ActWins ==
  ASSUME TypeOK, SavedInv, KeepInv, WinsInv, Act PROVE WinsInv'
<1> SUFFICES ASSUME ~raced', ~mixed' PROVE ActionsWin' /\ StoredWins' /\ DiskWins'
  BY DEF WinsInv
<1> DEFINE a == taken + 1
<1>1. a \in Actions /\ a # 0 /\ taken' = a
  BY ClientAssumption DEF ClientAssumption, Act, TypeOK, Actions
<1>2. /\ ~raced /\ ~mixed /\ ~Busy
      /\ UNCHANGED <<connected, wired, attempt, stored, flushing, replaying, latest, unrestored>>
  BY DEF Act, connVars
<1>3. calls = {} /\ flushing = "no" /\ ActionsWin /\ StoredWins /\ DiskWins
  BY <1>2 DEF Busy, WinsInv
<1>4. CASE connected
  <2>1. UNCHANGED <<queue, disk>> /\ calls' = {a}
    BY <1>3, <1>4 DEF Act
  <2>2. queue = <<>> /\ ~unrestored /\ NoPut /\ Empty
    BY <1>3, <1>4 DEF ActionsWin, StoredWins, Empty
  <2>3. NoPut' /\ Empty'
    BY <1>2, <2>1, <2>2 DEF NoPut, Empty, IsPut
  <2>4. ActionsWin'
    BY <1>1, <1>2, <1>3, <2>1, <2>2 DEF ActionsWin
  <2>5. StoredWins'
    BY <1>2, <1>3, <2>1, <2>2, <2>3 DEF StoredWins
  <2>6. DiskWins'
    BY <2>3 DEF DiskWins, NoPut
  <2> QED
    BY <2>4, <2>5, <2>6
<1>5. CASE ~connected
  <2>1. Enqueue(a) /\ calls' = calls /\ ~unrestored
    BY <1>5 DEF Act, MeetsQueue
  <2> DEFINE kept == IF Len(queue) >= MaxSize THEN Tail(queue) ELSE queue
             r == Put(a, queue')
  <2>2. kept \in Seq(Actions)
    <3>1. MaxSize \in Nat \ {0} /\ queue \in Seq(Actions)
      BY ClientAssumption DEF ClientAssumption, TypeOK
    <3>2. CASE Len(queue) >= MaxSize
      <4>1. queue # <<>>
        BY <3>1, <3>2
      <4> QED
        BY <3>1, <3>2, <4>1, Dropped
    <3> QED
      BY <3>1, <3>2
  <2>3. queue' = Append(kept, a)
    BY <2>1 DEF Enqueue
  <2>4. queue' # <<>> /\ queue'[Len(queue')] = a
    <3>1. /\ Append(kept, a) # <<>> /\ Len(Append(kept, a)) = Len(kept) + 1
          /\ Append(kept, a)[Len(kept) + 1] = a
      BY <1>1, <2>2, AppendProperties
    <3> HIDE DEF kept, a
    <3> QED
      BY <2>3, <3>1
  <2>5. Ask(r) /\ r \in Requests
    BY <1>1, <2>1, EnqueueTypes
  <2>6. r.action = a /\ r.attempt = 0 /\ r.value = queue'
    BY DEF Put
  <2> HIDE DEF kept, a, r
  <2>7. PICK n \in DOMAIN disk' :
          /\ disk'[n] = r /\ IsPut(n)' /\ IsCall(n)'
          /\ \A q \in DOMAIN disk' : ~(q > n)
          /\ \A q \in DOMAIN disk' : q = n \/ q \in DOMAIN disk
          /\ \A q \in DOMAIN disk : /\ q \in DOMAIN disk' /\ n > q /\ disk'[q] = disk[q]
                                   /\ (IsPut(q)' <=> IsPut(q)) /\ (IsCall(q)' <=> IsCall(q))
    BY <1>1, <2>5, <2>6, AskedLast DEF a
  <2>8. ~NoCall' /\ ~NoPut'
    BY <2>7 DEF NoCall, NoPut
  <2>9. ActionsWin'
    BY <1>1, <1>2, <1>3, <1>5, <2>1, <2>4 DEF ActionsWin, a
  <2>10. StoredWins'
    BY <1>2, <2>1, <2>4, <2>8 DEF StoredWins
  <2>11. ASSUME NEW q \in DOMAIN disk', IsPut(q)' PROVE LastIsSaved(q)'
    <3>1. CASE q = n
      <4>1. disk'[q].value = queue' /\ queue' # <<>> /\ queue'[Len(queue')] = taken'
        BY <1>1, <2>4, <2>6, <2>7, <3>1 DEF a
      <4> QED
        BY <2>7, <3>1, <4>1 DEF LastIsSaved
    <3>2. CASE q \in DOMAIN disk
      <4>1. LastIsSaved(q) /\ flushing # "save"
        BY <1>3, <2>7, <2>11, <3>2 DEF DiskWins
      <4>2. IsCall(q) /\ disk[q].value # <<>>
        BY <4>1 DEF LastIsSaved
      <4> QED
        BY <2>7, <3>2, <4>2 DEF LastIsSaved
    <3> QED
      BY <2>7, <3>1, <3>2
  <2> QED
    BY <2>9, <2>10, <2>11 DEF DiskWins
<1> QED
  BY <1>4, <1>5

\* What is replayed comes off the queue: when it was the last, it was the last taken.
LEMMA ReplayWins ==
  ASSUME TypeOK, SavedInv, KeepInv, WinsInv, Replay PROVE WinsInv'
<1> SUFFICES ASSUME ~raced', ~mixed' PROVE ActionsWin' /\ StoredWins' /\ DiskWins'
  BY DEF WinsInv
<1>1. /\ ~raced /\ ~mixed /\ flushing \in {"replay", "retry"}
      /\ UNCHANGED <<connected, wired, attempt, stored, replaying, calls, taken, unrestored>>
  BY DEF Replay, connVars
<1>2. queue # <<>> /\ Head(queue) = replaying /\ queue \in Seq(Actions) /\ ~unrestored
  BY <1>1 DEF KeepInv, LossInv, SavedIsQueued, TypeOK
<1>3. ActionsWin /\ StoredWins /\ DiskWins /\ calls = {} /\ queue[Len(queue)] = taken
  BY <1>1, <1>2 DEF WinsInv, ActionsWin
<1>4. CASE Dequeue
  <2> DEFINE r == Put(0, queue')
  <2>1. queue' = Tail(queue) /\ flushing' = "save" /\ latest' = replaying
    BY <1>1, <1>2, <1>4 DEF Dequeue, Replay
  <2>2. /\ Tail(queue) \in Seq(Actions) /\ Len(Tail(queue)) = Len(queue) - 1
        /\ \A i \in 1 .. Len(Tail(queue)) : Tail(queue)[i] = queue[i + 1]
        /\ Head(queue) = queue[1]
    BY <1>2, HeadTailProperties
  <2>3. Tail(queue) = <<>> => latest' = taken
    <3> SUFFICES ASSUME Tail(queue) = <<>> PROVE latest' = taken
      OBVIOUS
    <3>1. Len(queue) = 1
      <4>1. Len(queue) \in Nat
        BY <1>2, LenProperties
      <4>2. Len(Tail(queue)) = 0
        BY <2>2, EmptySeq
      <4>3. Len(queue) - 1 = 0
        BY <2>2, <4>2
      <4> QED
        BY <4>1, <4>3
    <3> QED
      BY <1>2, <1>3, <2>1, <2>2, <3>1
  <2>4. Tail(queue) # <<>> => Tail(queue)[Len(Tail(queue))] = taken
    <3> SUFFICES ASSUME Tail(queue) # <<>> PROVE Tail(queue)[Len(Tail(queue))] = taken
      OBVIOUS
    <3>1. Len(Tail(queue)) \in 1 .. Len(Tail(queue)) /\ Len(queue) \in Nat
      BY <1>2, <2>2, LenProperties, EmptySeq
    <3> QED
      BY <1>3, <2>2, <3>1
  <2>5. Ask(r) /\ r \in Requests
    BY <1>1, <1>4, DequeueTypes
  <2>6. r.action = 0 /\ r.attempt = 0 /\ r.value = Tail(queue)
    BY <2>1 DEF Put
  <2> HIDE DEF r
  <2>7. PICK n \in DOMAIN disk' :
          /\ disk'[n] = r /\ IsPut(n)' /\ ~IsCall(n)'
          /\ \A q \in DOMAIN disk' : ~(q > n)
          /\ \A q \in DOMAIN disk' : q = n \/ q \in DOMAIN disk
          /\ \A q \in DOMAIN disk : /\ q \in DOMAIN disk' /\ n > q /\ disk'[q] = disk[q]
                                   /\ (IsPut(q)' <=> IsPut(q)) /\ (IsCall(q)' <=> IsCall(q))
    BY <2>5, <2>6, AskedLast
  <2>8. ~NoPut' /\ (NoCall' => NoCall)
    BY <2>7 DEF NoCall, NoPut
  <2>9. ActionsWin'
    BY <1>1, <1>3, <2>1, <2>3, <2>4 DEF ActionsWin
  <2>10. StoredWins'
    BY <1>1, <1>2, <1>3, <2>1, <2>8 DEF StoredWins, Empty
  <2>11. ASSUME NEW q \in DOMAIN disk', IsPut(q)' PROVE LastIsSaved(q)'
    <3>1. CASE q = n
      <4>1. disk'[q].value = queue' /\ (queue' = <<>> \/ queue'[Len(queue')] = taken')
        BY <1>1, <2>1, <2>4, <2>6, <2>7, <3>1
      <4> QED
        BY <2>1, <2>7, <3>1, <4>1 DEF LastIsSaved
    <3>2. CASE q \in DOMAIN disk
      <4>1. LastIsSaved(q) /\ flushing # "save"
        BY <1>1, <1>3, <2>7, <2>11, <3>2 DEF DiskWins
      <4>2. IsCall(q)
        BY <4>1 DEF LastIsSaved
      <4>3. (\A p \in DOMAIN disk' : p > q => ~IsCall(p)') => \A p \in DOMAIN disk : p > q => ~IsCall(p)
        BY <2>7
      <4> QED
        BY <1>1, <2>7, <3>2, <4>1, <4>2, <4>3 DEF LastIsSaved
    <3> QED
      BY <2>7, <3>1, <3>2
  <2> QED
    BY <2>9, <2>10, <2>11 DEF DiskWins
<1>5. CASE ~Dequeue
  <2>1. UNCHANGED <<queue, disk>> /\ flushing' = "retry"
    BY <1>5 DEF Replay
  <2>2. ActionsWin'
    BY <1>1, <1>2, <1>3, <2>1 DEF ActionsWin
  <2>3. StoredWins'
    BY <1>1, <1>2, <1>3, <2>1 DEF StoredWins, Empty, NoCall, NoPut, IsCall, IsPut
  <2>4. DiskWins'
    BY <1>1, <1>3, <2>1 DEF DiskWins, LastIsSaved, IsCall, IsPut
  <2> QED
    BY <2>2, <2>3, <2>4
<1> QED
  BY <1>4, <1>5

\* What is still to be saved once the first request is answered.
LEMMA AnswerWins ==
  ASSUME TypeOK, disk # <<>>, Answered, DiskWins, UNCHANGED <<queue, taken>>,
         flushing' = flushing \/ NoPut'
  PROVE  /\ DiskWins' /\ (NoPut => NoPut') /\ (NoCall => NoCall')
         /\ NoPut' /\ ~IsPut(1) => NoPut
         /\ NoCall' /\ ~IsCall(1) => NoCall
         /\ IsPut(1) /\ ~IsCall(1) => NoPut'
         /\ IsPut(1) => /\ NoCall' => Head(disk).value = <<>> \/ Head(disk).value[Len(Head(disk).value)] = taken
                        /\ NoPut' => Head(disk).value = queue
                        /\ IsCall(1) => Head(disk).value # <<>>
                        /\ ~IsCall(1) => flushing = "save"
<1>1. /\ 1 \in DOMAIN disk /\ Head(disk) = disk[1]
      /\ \A q \in DOMAIN disk' : q + 1 \in DOMAIN disk /\ disk'[q] = disk[q + 1] /\ q \in Nat
                                 /\ (IsPut(q)' <=> IsPut(q + 1)) /\ (IsCall(q)' <=> IsCall(q + 1))
      /\ \A q \in DOMAIN disk : q \in Nat /\ q > 0
      /\ \A q \in DOMAIN disk : q # 1 => q - 1 \in DOMAIN disk' /\ q - 1 > 0 /\ disk'[q - 1] = disk[q]
  BY AnswerMoves, Advanced DEF TypeOK, Requests
<1>2. ASSUME NEW p \in DOMAIN disk, p > 1
      PROVE  p - 1 \in DOMAIN disk' /\ (IsPut(p - 1)' <=> IsPut(p)) /\ (IsCall(p - 1)' <=> IsCall(p))
  <2>1. p # 1
    BY <1>1, <1>2
  <2>2. p - 1 \in DOMAIN disk' /\ disk'[p - 1] = disk[p]
    BY <1>1, <2>1
  <2> QED
    BY <2>2 DEF IsPut, IsCall
<1>3. /\ NoPut' <=> \A p \in DOMAIN disk : p > 1 => ~IsPut(p)
      /\ NoCall' <=> \A p \in DOMAIN disk : p > 1 => ~IsCall(p)
  <2>1. \A q \in DOMAIN disk' : q + 1 > 1
    BY Advanced DEF TypeOK, Requests
  <2> QED
    BY <1>1, <1>2, <2>1 DEF NoPut, NoCall
<1>4. DiskWins'
  <2> SUFFICES ASSUME NEW q \in DOMAIN disk', IsPut(q)' PROVE LastIsSaved(q)'
    BY DEF DiskWins
  <2>1. q + 1 \in DOMAIN disk /\ disk'[q] = disk[q + 1] /\ LastIsSaved(q + 1) /\ q \in Nat
        /\ (IsCall(q)' <=> IsCall(q + 1))
    BY <1>1 DEF DiskWins
  <2>2. flushing' = flushing
    BY DEF NoPut
  <2>3. ASSUME NEW p \in DOMAIN disk, p > q + 1
        PROVE  /\ p - 1 \in DOMAIN disk' /\ p - 1 > q
               /\ (IsPut(p - 1)' <=> IsPut(p)) /\ (IsCall(p - 1)' <=> IsCall(p))
    BY <1>1, <1>2, <2>1, <2>3
  <2>4. ASSUME NEW p \in DOMAIN disk', p > q
        PROVE  /\ p + 1 \in DOMAIN disk /\ p + 1 > q + 1
               /\ (IsPut(p)' <=> IsPut(p + 1)) /\ (IsCall(p)' <=> IsCall(p + 1))
    BY <1>1, <2>1, <2>4
  <2>5. (\A p \in DOMAIN disk' : p > q => ~IsCall(p)') => \A p \in DOMAIN disk : p > q + 1 => ~IsCall(p)
    BY <2>3
  <2>6. (\A p \in DOMAIN disk' : p > q => ~IsPut(p)') <=> \A p \in DOMAIN disk : p > q + 1 => ~IsPut(p)
    BY <2>3, <2>4
  <2> QED
    BY <2>1, <2>2, <2>5, <2>6 DEF LastIsSaved
<1>5. \A p \in DOMAIN disk : p = 1 \/ p > 1
  BY <1>1
<1>6. IsPut(1) => LastIsSaved(1)
  BY <1>1 DEF DiskWins
<1> QED
  BY <1>1, <1>3, <1>4, <1>5, <1>6 DEF NoPut, NoCall, LastIsSaved

\* A restore brings back what a restart has left; otherwise it changes nothing.
LEMMA RestoreWins ==
  ASSUME TypeOK, SavedInv, KeepInv, WinsInv, NEW k \in Attempts, Restore(k) PROVE WinsInv'
<1> SUFFICES ASSUME ~raced', ~mixed' PROVE ActionsWin' /\ StoredWins' /\ DiskWins'
  BY DEF WinsInv
<1>0. /\ queue' = IF stored = Unsaved THEN queue ELSE stored
      /\ UNCHANGED <<connected, wired, stored, flushing, replaying, calls, taken, latest>>
  BY DEF Restore, actionVars
<1>a. disk # <<>> /\ Answered /\ Head(disk).attempt = k /\ k # 0
  BY DEF Restore, Due, Attempts
<1>b. ~raced /\ ~mixed /\ (queue' = queue \/ flushing = "no")
  BY DEF Restore
<1>1. /\ ~raced /\ ~mixed /\ disk # <<>> /\ Answered /\ Head(disk).attempt = k /\ k # 0
      /\ queue' = IF stored = Unsaved THEN queue ELSE stored
      /\ (queue' = queue \/ flushing = "no")
      /\ UNCHANGED <<connected, wired, stored, flushing, replaying, calls, taken, latest>>
  BY <1>0, <1>a, <1>b
<1>2. ActionsWin /\ StoredWins /\ DiskWins /\ LossInv /\ ~unrestored'
  BY <1>1 DEF WinsInv, KeepInv, Restore
<1>3. /\ 1 \in DOMAIN disk /\ ~IsPut(1) /\ ~IsCall(1)
      /\ \A q \in DOMAIN disk : q \in Nat /\ q > 0
  BY <1>1, Advanced DEF IsPut, IsCall, TypeOK, Requests
<1>4. NoCall
  BY <1>1, <1>2, <1>3 DEF LossInv, NoCall
<1>5. CASE unrestored
  <2>1. /\ queue = <<>> /\ flushing = "no" /\ NoPut /\ ~connected /\ wired = {} /\ calls = {} /\ ~Empty
        /\ queue' = stored /\ queue' # <<>>
    BY <1>1, <1>2, <1>5 DEF LossInv, SavedIsQueued, StoredWins, Empty, NoPut
  <2>2. NoPut' /\ DiskWins'
    <3>1. NoPut'
      BY <1>1, <2>1, AnswerMoves DEF NoPut
    <3> QED
      BY <3>1 DEF NoPut, DiskWins
  <2>3. ActionsWin'
    BY <1>1, <1>2, <1>4, <2>1 DEF ActionsWin, StoredWins
  <2>4. StoredWins'
    BY <1>1, <1>2, <1>4, <2>1, <2>2 DEF StoredWins, Empty
  <2> QED
    BY <2>2, <2>3, <2>4
<1>6. CASE ~unrestored
  <2>1. queue' = queue
    <3>1. CASE flushing = "no"
      <4>1. NoPut
        BY <1>2, <1>4, <3>1, Idle
      <4> QED
        BY <1>1, <1>2, <1>6, <4>1 DEF StoredWins
    <3> QED
      BY <1>1, <3>1
  <2>2. DiskWins' /\ (NoPut => NoPut') /\ (NoPut' => NoPut)
    BY <1>1, <1>2, <1>3, <2>1, AnswerWins
  <2>3. ActionsWin'
    BY <1>1, <1>2, <1>6, <2>1 DEF ActionsWin
  <2>4. StoredWins'
    BY <1>1, <1>2, <1>4, <1>6, <2>1, <2>2 DEF StoredWins, Empty
  <2> QED
    BY <2>2, <2>3, <2>4
<1> QED
  BY <1>5, <1>6

\* Steps that touch neither the actions nor what is stored of them, and start a flush
\* only of a queue that has been restored.
LEMMA QuietWins ==
  ASSUME TypeOK, WinsInv,
         UNCHANGED <<queue, stored, disk, unrestored, calls, taken, latest, raced, mixed>>,
         \/ UNCHANGED <<flushing, replaying>> /\ (connected' => connected)
         \/ StartFlush /\ ~unrestored,
         ~raced /\ ~mixed => (wired' = wired \/ ~unrestored),
         \A k \in Attempts : attempt'[k] \in {"opening", "flushing"} =>
           attempt[k] \in {"opening", "flushing"}
  PROVE  WinsInv'
<1> SUFFICES ASSUME ~raced, ~mixed PROVE ActionsWin' /\ StoredWins' /\ DiskWins'
  BY DEF WinsInv
<1>1. ActionsWin /\ StoredWins /\ DiskWins
  BY DEF WinsInv
<1>2. /\ NoPut' <=> NoPut
      /\ NoCall' <=> NoCall
      /\ Empty' <=> Empty
  BY DEF NoPut, NoCall, Empty, IsPut, IsCall
<1>3. CASE UNCHANGED <<flushing, replaying>> /\ (connected' => connected)
  <2>1. ActionsWin' /\ StoredWins'
    BY <1>1, <1>2, <1>3 DEF ActionsWin, StoredWins
  <2>2. DiskWins'
    BY <1>1, <1>3 DEF DiskWins, LastIsSaved, IsPut, IsCall
  <2> QED
    BY <2>1, <2>2
<1>4. CASE StartFlush /\ ~unrestored
  <2>1. \/ flushing' = flushing /\ (flushing = "no" => queue = <<>>)
        \/ flushing = "no" /\ queue # <<>> /\ flushing' = "replay"
    BY <1>4 DEF StartFlush
  <2>2. ActionsWin'
    BY <1>1, <2>1 DEF ActionsWin
  <2>3. flushing' # "no" /\ NoCall => ~Empty
    <3>1. CASE flushing' = flushing
      BY <1>1, <3>1 DEF StoredWins
    <3>2. CASE flushing = "no" /\ queue # <<>>
      <4>1. NoCall => NoPut
        BY <1>1, <3>2, Idle
      <4>2. queue # Unsaved
        BY NeverUnsaved DEF TypeOK
      <4> QED
        BY <1>1, <1>4, <3>2, <4>1, <4>2 DEF StoredWins, Empty
    <3> QED
      BY <2>1, <3>1, <3>2
  <2>4. StoredWins'
    BY <1>1, <1>2, <1>4, <2>1, <2>3 DEF StoredWins
  <2>5. flushing' = flushing \/ flushing # "save"
    BY <2>1
  <2>6. DiskWins'
    BY <1>1, <2>5 DEF DiskWins, LastIsSaved, IsPut, IsCall
  <2> QED
    BY <2>2, <2>4, <2>6
<1> QED
  BY <1>3, <1>4

\* A restart: what it leaves ends with the last action, or there was nothing left to do.
LEMMA ReloadWins ==
  ASSUME TypeOK, SavedInv, KeepInv, WinsInv, Reload PROVE WinsInv'
<1> SUFFICES ASSUME ~raced', ~mixed' PROVE ActionsWin' /\ StoredWins' /\ DiskWins'
  BY DEF WinsInv
<1>1. /\ ~raced /\ ~mixed /\ calls = {} /\ calls' = {} /\ Saving = {} /\ UNCHANGED taken
      /\ ~connected' /\ wired' = {} /\ queue' = <<>> /\ flushing' = "no" /\ disk' = <<>>
  BY DEF Reload
<1>a. latest' = latest \/ flushing \in {"replay", "retry"}
  BY <1>1 DEF Reload
<1>b. /\ stored' \in {stored} \cup Writing /\ DOMAIN disk' = {}
      /\ unrestored' = (stored' \notin {Unsaved, <<>>})
  <2>1. stored' \in {stored} \cup Writing /\ unrestored' = (stored' \notin {Unsaved, <<>>})
    BY DEF Reload
  <2>2. DOMAIN disk' = {}
    BY <1>1
  <2> QED
    BY <2>1, <2>2
<1>c. \A k \in Attempts : attempt'[k] \in {"unused", "done"}
  BY DEF Reload
<1>2. ActionsWin /\ StoredWins /\ DiskWins /\ LossInv
  BY <1>1, <1>a, <1>b, <1>c DEF WinsInv, KeepInv
<1>3. NoCall
  BY <1>1, <1>a, <1>b, <1>c DEF Saving, NoCall, IsCall, ToSet
<1>4. stored' = stored \/ \E q \in DOMAIN disk : IsPut(q) /\ stored' = disk[q].value
  BY <1>1, <1>a, <1>b, <1>c DEF Writing, ToSet, IsPut
<1>5. ASSUME NEW q \in DOMAIN disk, IsPut(q)
      PROVE  /\ disk[q].value = <<>> \/ disk[q].value[Len(disk[q].value)] = taken
             /\ disk[q].value = queue /\ flushing = "save" /\ ~unrestored
  BY <1>1, <1>a, <1>b, <1>c, <1>2, <1>3, <1>5 DEF DiskWins, LastIsSaved, NoCall, LossInv, SavedIsQueued
<1>6. ~Empty' => stored'[Len(stored')] = taken
  BY <1>2, <1>3, <1>4, <1>5 DEF StoredWins, Empty
<1>7. Empty' => latest' = taken
  <2> SUFFICES ASSUME Empty' PROVE latest' = taken
    OBVIOUS
  <2>1. CASE stored' = stored
    <3>1. Empty /\ ~unrestored /\ flushing = "no"
      BY <1>2, <1>3, <2>1 DEF StoredWins, Empty
    <3>2. NoPut
      BY <1>2, <1>3, <3>1, Idle
    <3>3. queue = <<>>
      <4>1. queue # Unsaved
        BY NeverUnsaved DEF TypeOK
      <4> QED
        BY <1>2, <3>1, <3>2, <4>1 DEF StoredWins, Empty
    <3> QED
      BY <1>1, <1>a, <1>b, <1>c, <1>2, <3>1, <3>3 DEF ActionsWin
  <2>2. CASE \E q \in DOMAIN disk : IsPut(q) /\ stored' = disk[q].value
    <3>1. stored' = queue /\ flushing = "save" /\ ~unrestored
      BY <1>5, <2>2
    <3>2. queue = <<>>
      <4>1. queue # Unsaved
        BY NeverUnsaved DEF TypeOK
      <4> QED
        BY <3>1, <4>1 DEF Empty
    <3> QED
      BY <1>1, <1>a, <1>b, <1>c, <1>2, <3>1, <3>2 DEF ActionsWin
  <2> QED
    BY <1>4, <2>1, <2>2
<1>8. ActionsWin'
  BY <1>1, <1>a, <1>b, <1>c, <1>7 DEF ActionsWin, Empty
<1>9. StoredWins'
  BY <1>1, <1>a, <1>b, <1>c, <1>6 DEF StoredWins, Empty, NoPut, NoCall
<1>10. DiskWins'
  BY <1>1, <1>a, <1>b, <1>c DEF DiskWins
<1> QED
  BY <1>8, <1>9, <1>10

LEMMA NextWinsInv == TypeOK /\ SavedInv /\ KeepInv /\ WinsInv /\ [Next]_vars => WinsInv'
<1> SUFFICES ASSUME TypeOK, SavedInv, KeepInv, WinsInv, [Next]_vars PROVE WinsInv'
  OBVIOUS
<1> USE DEF connVars, queueVars, actionVars
<1>1. ASSUME NEW a \in Actions, Enqueued(a) PROVE WinsInv'
  <2> SUFFICES ASSUME ~raced', ~mixed' PROVE ActionsWin' /\ StoredWins' /\ DiskWins'
    BY DEF WinsInv
  <2>1. /\ ~raced /\ ~mixed /\ disk # <<>> /\ Answered /\ stored' = Head(disk).value
        /\ Head(disk).attempt = 0 /\ Head(disk).action = a /\ a # 0
        /\ UNCHANGED <<connected, wired, attempt, queue, flushing, calls, taken, latest, unrestored>>
    BY <1>1 DEF Enqueued, Due, Written, Actions
  <2>2. ActionsWin /\ StoredWins /\ DiskWins /\ IsPut(1) /\ IsCall(1) /\ 1 \in DOMAIN disk /\ ~unrestored
    BY <2>1, AnswerMoves DEF WinsInv, IsPut, IsCall, KeepInv, LossInv, SavedIsQueued
  <2>3. /\ DiskWins' /\ (NoPut => NoPut')
        /\ NoCall' => stored' = <<>> \/ stored'[Len(stored')] = taken
        /\ NoPut' => stored' = queue
        /\ stored' # <<>>
    BY <2>1, <2>2, AnswerWins
  <2>4. ~Empty'
    <3>1. Head(disk).value \in Seq(Actions)
      BY <2>1, <2>2, Request, AnswerMoves DEF TypeOK, Requests
    <3> QED
      BY <2>1, <2>3, <3>1, NeverUnsaved DEF Empty
  <2>5. ActionsWin'
    BY <2>1, <2>2 DEF ActionsWin
  <2>6. StoredWins'
    BY <2>1, <2>2, <2>3, <2>4 DEF StoredWins
  <2> QED
    BY <2>3, <2>5, <2>6
<1>2. CASE Saved
  <2> SUFFICES ASSUME ~raced, ~mixed PROVE ActionsWin' /\ StoredWins' /\ DiskWins'
    BY <1>2 DEF WinsInv, Saved
  <2>1. /\ disk # <<>> /\ Answered /\ stored' = Head(disk).value
        /\ Head(disk).attempt = 0 /\ Head(disk).action = 0
        /\ UNCHANGED <<connected, wired, queue, calls, taken, latest, unrestored>>
        /\ flushing' # "no" => queue # <<>>
        /\ flushing' = "no" => queue = <<>>
    BY <1>2 DEF Saved, EndFlush, Due, Written
  <2>2. ActionsWin /\ StoredWins /\ DiskWins /\ IsPut(1) /\ ~IsCall(1) /\ 1 \in DOMAIN disk /\ ~unrestored
    BY <2>1, AnswerMoves DEF WinsInv, IsPut, IsCall, KeepInv, LossInv, SavedIsQueued
  <2>3. NoPut'
    <3>1. LastIsSaved(1)
      BY <2>2 DEF DiskWins
    <3>2. \A q \in DOMAIN disk' : q + 1 \in DOMAIN disk /\ q + 1 > 1 /\ (IsPut(q)' <=> IsPut(q + 1))
      BY <2>1, AnswerMoves, Advanced DEF TypeOK, Requests
    <3> QED
      BY <2>2, <3>1, <3>2 DEF LastIsSaved, NoPut
  <2>4. DiskWins' /\ stored' = queue /\ flushing = "save"
    BY <2>1, <2>2, <2>3, AnswerWins
  <2>5. calls = {}
    BY <2>2, <2>4 DEF ActionsWin
  <2>6. queue # Unsaved
    BY NeverUnsaved DEF TypeOK
  <2>7. ActionsWin'
    BY <2>1, <2>2, <2>5 DEF ActionsWin
  <2>8. StoredWins'
    BY <2>1, <2>2, <2>3, <2>4, <2>6 DEF StoredWins, ActionsWin, Empty
  <2> QED
    BY <2>4, <2>7, <2>8
<1>3. CASE SaveFails
  BY <1>3 DEF SaveFails, WinsInv
<1>4. ASSUME NEW k \in Attempts, Connect(k) \/ RestoreFails(k) PROVE WinsInv'
  <2> SUFFICES ASSUME ~raced, ~mixed PROVE ActionsWin' /\ StoredWins' /\ DiskWins'
    BY <1>4 DEF WinsInv, Connect, RestoreFails
  <2>1. /\ UNCHANGED <<connected, wired, queue, stored, flushing, calls, taken, latest, unrestored>>
        /\ \A j \in Attempts : attempt'[j] = attempt[j] \/ attempt'[j] \in {"restoring", "done"}
        /\ ActionsWin /\ StoredWins /\ DiskWins
    BY <1>4 DEF Connect, RestoreFails, WinsInv, TypeOK
  <2>2. DiskWins' /\ (NoPut' <=> NoPut) /\ (NoCall' <=> NoCall)
    <3>1. CASE Connect(k)
      <4>1. Ask(Get(k)) /\ Get(k) \in Requests /\ Get(k).attempt # 0
        BY <3>1, ClientAssumption DEF Connect, Get, Requests, Attempts, ClientAssumption
      <4>2. /\ \A q \in DOMAIN disk' : \/ q \in DOMAIN disk /\ disk'[q] = disk[q]
                                       \/ q \notin DOMAIN disk /\ disk'[q] = Get(k)
            /\ \A q \in DOMAIN disk : q \in DOMAIN disk' /\ disk'[q] = disk[q]
        BY <4>1, Asked DEF TypeOK, Requests
      <4>3. /\ \A q \in DOMAIN disk' : IsPut(q)' => q \in DOMAIN disk /\ IsPut(q) /\ disk'[q] = disk[q]
                                                   /\ (IsCall(q)' <=> IsCall(q))
            /\ \A q \in DOMAIN disk : (IsPut(q)' <=> IsPut(q)) /\ (IsCall(q)' <=> IsCall(q))
        BY <4>1, <4>2 DEF IsPut, IsCall
      <4>4. \A q \in DOMAIN disk' : IsCall(q)' => IsPut(q)'
        BY DEF IsPut, IsCall
      <4>5. (NoPut' <=> NoPut) /\ (NoCall' <=> NoCall)
        BY <4>2, <4>3, <4>4 DEF NoPut, NoCall
      <4>6. ASSUME NEW q \in DOMAIN disk', IsPut(q)' PROVE LastIsSaved(q)'
        <5>1. q \in DOMAIN disk /\ LastIsSaved(q) /\ disk'[q] = disk[q] /\ (IsCall(q)' <=> IsCall(q))
          BY <2>1, <4>3, <4>6 DEF DiskWins
        <5>2. /\ (\A p \in DOMAIN disk' : p > q => ~IsCall(p)') => \A p \in DOMAIN disk : p > q => ~IsCall(p)
              /\ (\A p \in DOMAIN disk' : p > q => ~IsPut(p)') <=> \A p \in DOMAIN disk : p > q => ~IsPut(p)
          BY <4>2, <4>3
        <5> QED
          BY <2>1, <5>1, <5>2 DEF LastIsSaved
      <4> QED
        BY <4>5, <4>6 DEF DiskWins
    <3>2. CASE RestoreFails(k)
      <4>1. disk # <<>> /\ Answered /\ ~IsPut(1) /\ ~IsCall(1)
        BY <3>2, AnswerMoves DEF RestoreFails, Due, IsPut, IsCall, Attempts
      <4> QED
        BY <2>1, <4>1, AnswerWins
    <3> QED
      BY <1>4, <3>1, <3>2
  <2>3. ActionsWin'
    BY <2>1 DEF ActionsWin
  <2>4. StoredWins'
    BY <2>1, <2>2 DEF StoredWins, Empty
  <2> QED
    BY <2>2, <2>3, <2>4
<1>5. ASSUME NEW a \in Actions, Answer(a) PROVE WinsInv'
  <2> SUFFICES ASSUME ~raced', ~mixed' PROVE ActionsWin' /\ StoredWins' /\ DiskWins'
    BY DEF WinsInv
  <2>1. /\ ~raced /\ ~mixed /\ a \in calls /\ calls' = calls \ {a} /\ latest' = a
        /\ UNCHANGED <<connected, wired, attempt, queue, stored, disk, flushing, replaying, taken, unrestored>>
    BY <1>5 DEF Answer
  <2>2. calls' = {} /\ latest' = taken /\ ActionsWin /\ StoredWins /\ DiskWins
    BY <2>1 DEF WinsInv, ActionsWin
  <2>3. ActionsWin'
    BY <2>1, <2>2 DEF ActionsWin
  <2>4. StoredWins'
    BY <2>1, <2>2 DEF StoredWins, Empty, NoPut, NoCall, IsPut, IsCall
  <2>5. DiskWins'
    BY <2>1, <2>2 DEF DiskWins, LastIsSaved, IsPut, IsCall
  <2> QED
    BY <2>3, <2>4, <2>5
<1>6. ASSUME NEW k \in Attempts, OpenOvertaken(k) \/ OpenFails(k) PROVE WinsInv'
  <2>1. \A j \in Attempts : attempt'[j] = attempt[j] \/ attempt'[j] = "done"
    BY <1>6 DEF OpenOvertaken, OpenFails, TypeOK
  <2> QED
    BY <1>6, <2>1, QuietWins DEF OpenOvertaken, OpenFails
<1>7. ASSUME NEW k \in Attempts, Open(k) PROVE WinsInv'
  <2> SUFFICES ASSUME ~raced, ~mixed PROVE WinsInv'
    BY <1>7 DEF Open, WinsInv
  <2>1. ~unrestored /\ attempt[k] = "opening"
    BY <1>7 DEF Open, WinsInv, StoredWins
  <2>2. \A j \in Attempts : attempt'[j] = attempt[j] \/ (j = k /\ attempt'[j] \in {"done", "flushing"})
    BY <1>7 DEF Open, TypeOK
  <2> QED
    BY <1>7, <2>1, <2>2, QuietWins DEF Open
<1>8. ASSUME NEW k \in Attempts, Lose(k) \/ Retry(k) \/ RetryFails(k) PROVE WinsInv'
  <2>1. connected' => connected
    BY <1>8 DEF Lose, Retry, RetryFails
  <2> QED
    BY <1>8, <2>1, QuietWins DEF Lose, Retry, RetryFails, SameQueue
<1>9. ASSUME NEW k \in Attempts, Reopen(k) PROVE WinsInv'
  <2> SUFFICES ASSUME ~raced, ~mixed PROVE WinsInv'
    BY <1>9 DEF Reopen, WinsInv
  <2>1. CASE k \in wired
    <3>1. ~unrestored
      BY <2>1 DEF WinsInv, StoredWins
    <3> QED
      BY <1>9, <2>1, <3>1, QuietWins DEF Reopen
  <2>2. CASE k \notin wired
    BY <1>9, <2>2, QuietWins DEF Reopen
  <2> QED
    BY <2>1, <2>2
<1>10. CASE Disconnect \/ UNCHANGED vars
  BY <1>10, QuietWins DEF Disconnect, vars
<1> QED
  BY <1>1, <1>2, <1>3, <1>4, <1>5, <1>6, <1>7, <1>8, <1>9, <1>10, ActWins, ReplayWins,
     RestoreWins, ReloadWins DEF Next, Own, Socket

\* LastActionWins: unless an action overlapped a request, a flush or a restart, failed,
\* was not saved, or met a restore, the server ends with the last action the user took,
\* through lost connections, second calls of connect(), offline queues and restarts
\* (packages/js/src/queue/action-queue.ts:79-166, packages/js/src/client.ts:137-326).
THEOREM LastWordIsTheUsers == Spec => []LastActionWins
<1>1. Init => TypeOK /\ SavedInv /\ KeepInv /\ WinsInv
  BY InitTypeOK, InitKeepInv, InitWins
<1>2. TypeOK /\ SavedInv /\ KeepInv /\ WinsInv /\ [Next]_vars
        => (TypeOK /\ SavedInv /\ KeepInv /\ WinsInv)'
  BY NextTypeOK, NextKeepInv, NextWinsInv
<1>3. WinsInv => LastActionWins
  BY DEF WinsInv, ActionsWin, StoredWins, LastActionWins, Quiet, Empty
<1> QED
  BY <1>1, <1>2, <1>3, PTL DEF Spec
=============================================================================
