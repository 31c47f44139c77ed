------------------------------ MODULE DigestProofs ------------------------------
(***************************************************************************)
(* For any number of instances, events and overlapping polls, any window,   *)
(* grace period and lock TTL: no event goes out in two digests and a buffer *)
(* is left without a keeper only by a mishap, with faults that recur; and   *)
(* no buffer expires unflushed, when window and lock fit the grace period.  *)
(***************************************************************************)
EXTENDS Digest, TLAPS

LEMMA InitDigestInv == Init => DigestInv
<1> SUFFICES ASSUME Init PROVE DigestInv
  OBVIOUS
<1>1. TypeOK
  <2>1. \A t \in Tasks : pc[t] \in Labels(t) /\ pc[t] \in SendLabels \cup PollLabels \cup LifeLabels
    BY DEF Init, Labels, SendLabels, PollLabels, LifeLabels
  <2>2. pc \in [Tasks -> SendLabels \cup PollLabels \cup LifeLabels]
    BY <2>1, Zenon DEF Init
  <2>3. ttl \in 0 .. Never /\ lock \in 0 .. LockTTL
    BY DigestAssumption DEF Init, Never
  <2>4. /\ checkpoint \in [Instances -> -1 .. Window]
        /\ tracked \in [Instances -> -1 .. Window]
        /\ timer \in [Instances -> 0 .. Window]
    BY DigestAssumption DEF Init, NoEntry
  <2> QED
    BY <2>1, <2>2, <2>3, <2>4, Zenon DEF Init, TypeOK
<1> QED
  BY <1>1 DEF Init, DigestInv, Apart, WhereIs, Undecided, InFlight, NothingForgotten, Tasks

-----------------------------------------------------------------------------
(* Types.                                                                  *)

\* A step of one task to one of its own labels.
LEMMA PcTypes ==
  ASSUME TypeOK, NEW t \in Tasks, NEW to \in Labels(t), pc' = [pc EXCEPT ![t] = to]
  PROVE  /\ pc' \in [Tasks -> SendLabels \cup PollLabels \cup LifeLabels]
         /\ \A s \in Tasks : pc'[s] \in Labels(s)
BY DEF TypeOK, Labels

\* The maps and hashes keep their types under the three ways they are changed.
LEMMA TrackTypes ==
  ASSUME TypeOK, NEW i \in Instances
  PROVE  /\ TrackKey(i) => tracked' \in [Instances -> -1 .. Window]
         /\ UntrackKey(i) => tracked' \in [Instances -> -1 .. Window]
         /\ \A x \in -1 .. Window :
              checkpoint' = [checkpoint EXCEPT ![i] = x] =>
                checkpoint' \in [Instances -> -1 .. Window]
         /\ \A x \in 0 .. Window :
              timer' = [timer EXCEPT ![i] = x] => timer' \in [Instances -> 0 .. Window]
BY DigestAssumption DEF TypeOK, TrackKey, UntrackKey, NoEntry

LEMMA HomeTypes == TypeOK => \A t \in Tasks : Home(t) \in Instances
BY DigestAssumption DEF TypeOK, Home, Tasks

\* addEvent() and the dispatch that may follow.
LEMMA SendTypes ==
  ASSUME TypeOK, NEW e \in Events,
         Add(e) \/ Count(e) \/ Track(e) \/ Dispatch(e) \/ AddFails(e)
  PROVE  TypeOK'
<1>1. e \in Tasks /\ home[e] \in Instances /\ Labels(e) = SendLabels
  BY DEF Tasks, TypeOK, Labels
<1>2. CASE Add(e)
  <2>1. pc' = [pc EXCEPT ![e] = "count"] /\ "count" \in Labels(e)
    BY <1>2, <1>1 DEF Add, Goto, SendLabels
  <2> QED
    BY <1>1, <1>2, <2>1, PcTypes, DigestAssumption DEF Add, TypeOK, fates, Never
<1>3. CASE Count(e)
  <2> DEFINE to == IF Cardinality(buffer) >= MaxCount THEN "track_full" ELSE "track"
  <2>1. pc' = [pc EXCEPT ![e] = to] /\ to \in Labels(e)
    BY <1>3, <1>1 DEF Count, Goto, SendLabels
  <2> QED
    BY <1>1, <1>3, <2>1, PcTypes DEF Count, TypeOK, redis, fates
<1>4. CASE Track(e)
  <2>1. PICK to \in {"digested", "lock"} : pc' = [pc EXCEPT ![e] = to]
    BY <1>4 DEF Track, Goto
  <2>2. to \in Labels(e)
    BY <1>1 DEF SendLabels
  <2> QED
    BY <1>1, <1>4, <2>1, <2>2, PcTypes, TrackTypes, DigestAssumption
    DEF Track, AfterStop, Mishap, TypeOK, Never
<1>5. CASE Dispatch(e)
  <2>1. pc' = [pc EXCEPT ![e] = "sent"] /\ "sent" \in Labels(e)
    BY <1>5, <1>1 DEF Dispatch, SendLabels
  <2> QED
    BY <1>1, <1>5, <2>1, PcTypes DEF Dispatch, TypeOK, redis
<1>6. CASE AddFails(e)
  <2>1. pc' = [pc EXCEPT ![e] = "digested"] /\ "digested" \in Labels(e)
    BY <1>6, <1>1 DEF AddFails, Fail, SendLabels
  <2> QED
    BY <1>1, <1>6, <2>1, PcTypes DEF AddFails, Mishap, TypeOK, redis
<1> QED
  BY <1>2, <1>3, <1>4, <1>5, <1>6

\* Where a flush leads its task.
LEMMA AfterTypes ==
  ASSUME NEW t \in Tasks
  PROVE  /\ After(t) \in Labels(t)
         /\ {"lock", "take", "unlock"} \subseteq Labels(t)
         /\ t \notin Events => "deliver" \in Labels(t)
         /\ t \in Polls => "exists" \in Labels(t)
BY DigestAssumption DEF After, Labels, SendLabels, PollLabels, LifeLabels, Tasks

LEMMA FlushTypes ==
  ASSUME TypeOK, NEW t \in Tasks, Flush(t)
  PROVE  TypeOK'
<1>1. Home(t) \in Instances
  BY HomeTypes
<1>2. CASE AcquireFlushLock(t)
  <2>1. PICK to \in {"take", "exists", After(t)} :
          pc' = [pc EXCEPT ![t] = to] /\ (to = "exists" => t \in Polls \/ to = After(t))
    BY <1>2 DEF AcquireFlushLock, Goto
  <2>2. to \in Labels(t)
    BY <2>1, AfterTypes
  <2>3. lock' \in 0 .. LockTTL
    BY <1>2, DigestAssumption DEF AcquireFlushLock, TypeOK
  <2>4. raced' \subseteq Events
    BY <1>2 DEF AcquireFlushLock, TypeOK
  <2>5. /\ pc' \in [Tasks -> SendLabels \cup PollLabels \cup LifeLabels]
        /\ \A s \in Tasks : pc'[s] \in Labels(s)
    BY <2>1, <2>2, PcTypes, Zenon
  <2> QED
    BY <1>2, <2>3, <2>4, <2>5, Zenon DEF AcquireFlushLock, TypeOK
<1>3. CASE AtomicFlush(t)
  <2>1. pc' = [pc EXCEPT ![t] = "unlock"] /\ "unlock" \in Labels(t)
    BY <1>3, AfterTypes DEF AtomicFlush, Goto
  <2>2. /\ pc' \in [Tasks -> SendLabels \cup PollLabels \cup LifeLabels]
        /\ \A s \in Tasks : pc'[s] \in Labels(s)
    BY <2>1, PcTypes, Zenon
  <2>3. buffer' \subseteq Events /\ raced' \subseteq Events /\ hand' \in [Tasks -> SUBSET Events]
    BY <1>3 DEF AtomicFlush, TypeOK
  <2>4. ttl' \in 0 .. Never
    BY <1>3, DigestAssumption DEF AtomicFlush, Never
  <2> QED
    BY <1>3, <2>2, <2>3, <2>4, Zenon DEF AtomicFlush, TypeOK
<1>4. CASE Unlock(t)
  <2>1. PICK to \in {"deliver", After(t)} :
          pc' = [pc EXCEPT ![t] = to] /\ (to = "deliver" => t \notin Events \/ to = After(t))
    BY <1>4 DEF Unlock, Goto
  <2>2. to \in Labels(t)
    BY <2>1, AfterTypes
  <2>3. /\ pc' \in [Tasks -> SendLabels \cup PollLabels \cup LifeLabels]
        /\ \A s \in Tasks : pc'[s] \in Labels(s)
    BY <2>1, <2>2, PcTypes, Zenon
  <2>4. lock' \in 0 .. LockTTL
    BY <1>4, DigestAssumption DEF Unlock
  <2>5. tracked' \in [Instances -> -1 .. Window]
    BY <1>1, <1>4, TrackTypes, Zenon DEF Unlock
  <2>6. hand' \in [Tasks -> SUBSET Events] /\ mishap' \in BOOLEAN
    BY <1>4 DEF Unlock, Mishap, TypeOK
  <2> QED
    BY <1>4, <2>3, <2>4, <2>5, <2>6, Zenon DEF Unlock, TypeOK
<1>5. CASE FlushFails(t)
  <2>1. pc' = [pc EXCEPT ![t] = After(t)] /\ After(t) \in Labels(t)
    BY <1>5, AfterTypes DEF FlushFails, Fail
  <2>2. lock' \in 0 .. LockTTL
    BY <1>5, DigestAssumption DEF FlushFails, TypeOK
  <2> QED
    BY <1>5, <2>1, <2>2, PcTypes DEF FlushFails, Mishap, TypeOK
<1> QED
  BY <1>2, <1>3, <1>4, <1>5 DEF Flush

\* onFlush, and the runs of the poller.
LEMMA PollTypes ==
  ASSUME TypeOK, NEW p \in Polls,
         Fire(p) \/ Checkpoint(p) \/ Exists(p) \/ CheckpointFails(p)
  PROVE  TypeOK'
<1>1. p \in Tasks /\ Poller[p] \in Instances /\ Labels(p) = PollLabels
  BY DigestAssumption DEF Tasks, Labels
<1>2. Window \in 0 .. Window /\ tracked[Poller[p]] \in -1 .. Window
  BY <1>1, DigestAssumption DEF TypeOK
<1>3. CASE Fire(p)
  <2>1. pc' = [pc EXCEPT ![p] = "checkpoint"] /\ "checkpoint" \in Labels(p)
    BY <1>3, <1>1 DEF Fire, Goto, PollLabels
  <2>2. timer' \in [Instances -> 0 .. Window]
    BY <1>1, <1>2, <1>3, TrackTypes, Zenon DEF Fire
  <2> QED
    BY <1>1, <1>3, <2>1, <2>2, PcTypes, Zenon DEF Fire, TypeOK, redis, fates
<1>4. CASE Checkpoint(p)
  <2>1. PICK to \in {"lock", "idle"} : pc' = [pc EXCEPT ![p] = to]
    BY <1>4 DEF Checkpoint, Goto
  <2>2. to \in Labels(p)
    BY <1>1 DEF PollLabels
  <2>3. checkpoint' \in [Instances -> -1 .. Window]
    BY <1>1, <1>2, <1>4, TrackTypes, Zenon DEF Checkpoint
  <2> QED
    BY <1>1, <1>4, <2>1, <2>2, <2>3, PcTypes, Zenon DEF Checkpoint, TypeOK, fates
<1>5. CASE Exists(p)
  <2>1. pc' = [pc EXCEPT ![p] = "idle"] /\ "idle" \in Labels(p)
    BY <1>5, <1>1 DEF Exists, Goto, PollLabels
  <2>2. tracked' \in [Instances -> -1 .. Window]
    BY <1>1, <1>5, TrackTypes, Zenon DEF Exists, TypeOK
  <2> QED
    BY <1>1, <1>5, <2>1, <2>2, PcTypes, Zenon DEF Exists, TypeOK, redis, fates
<1>6. CASE CheckpointFails(p)
  <2>1. PICK to \in {"lock", "idle"} : pc' = [pc EXCEPT ![p] = to]
    BY <1>6 DEF CheckpointFails, Fail
  <2>2. to \in Labels(p)
    BY <1>1 DEF PollLabels
  <2> QED
    BY <1>1, <1>6, <2>1, <2>2, PcTypes, Zenon DEF CheckpointFails, TypeOK, redis, fates
<1> QED
  BY <1>3, <1>4, <1>5, <1>6

LEMMA DeliverTypes ==
  ASSUME TypeOK, NEW t \in Polls \cup Instances, Deliver(t)
  PROVE  TypeOK'
<1>1. t \in Tasks
  BY DEF Tasks
<1>2. pc' = [pc EXCEPT ![t] = After(t)] /\ After(t) \in Labels(t)
  BY <1>1, AfterTypes DEF Deliver
<1>3. hand' \in [Tasks -> SUBSET Events] /\ batched' \subseteq Events
  BY <1>1 DEF Deliver, TypeOK
<1> QED
  BY <1>1, <1>2, <1>3, PcTypes, Zenon DEF Deliver, TypeOK, redis

\* start(), stop() and the death of a process.
LEMMA LifeTypes ==
  ASSUME TypeOK, NEW i \in Instances,
         \/ Start(i) \/ Load(i) \/ Scan(i) \/ Clean(i) \/ Stop(i) \/ Forget(i)
         \/ LifecycleFails(i)
  PROVE  TypeOK'
<1>1. i \in Tasks /\ Labels(i) = LifeLabels
  BY DigestAssumption DEF Tasks, Labels
<1>2. /\ 0 \in 0 .. Window /\ Window \in 0 .. Window /\ NoEntry \in -1 .. Window
      /\ checkpoint[i] \in -1 .. Window
  BY DigestAssumption DEF TypeOK, NoEntry
<1>3. PICK to \in LifeLabels : pc' = [pc EXCEPT ![i] = to]
  <2>1. {"load", "scan", "clean", "up", "forget", "lock", "down"} \subseteq LifeLabels
    BY DEF LifeLabels
  <2> QED
    BY <2>1 DEF Start, Load, Scan, Clean, Stop, Forget, LifecycleFails, Goto, Fail
<1>4. /\ pc' \in [Tasks -> SendLabels \cup PollLabels \cup LifeLabels]
      /\ \A s \in Tasks : pc'[s] \in Labels(s)
  BY <1>1, <1>3, PcTypes, Zenon
<1>5. tracked' \in [Instances -> -1 .. Window]
  <2>1. \/ tracked' = tracked \/ TrackKey(i) \/ UntrackKey(i)
        \/ tracked' = [tracked EXCEPT ![i] = checkpoint[i]]
    BY DEF Start, Load, Scan, Clean, Stop, Forget, LifecycleFails, TypeOK
  <2> QED
    BY <2>1, <1>2, TrackTypes DEF TypeOK
<1>6. checkpoint' \in [Instances -> -1 .. Window]
  <2>1. checkpoint' = checkpoint \/ checkpoint' = [checkpoint EXCEPT ![i] = NoEntry]
    BY DEF Start, Load, Scan, Clean, Stop, Forget, LifecycleFails, redis
  <2> QED
    BY <2>1, <1>2, TrackTypes, Zenon DEF TypeOK
<1>7. timer' \in [Instances -> 0 .. Window]
  <2>1. \/ timer' = timer \/ timer' = [timer EXCEPT ![i] = 0]
        \/ timer' = [timer EXCEPT ![i] = Window]
    BY DEF Start, Load, Scan, Clean, Stop, Forget, LifecycleFails
  <2> QED
    BY <2>1, <1>2, TrackTypes, Zenon DEF TypeOK
<1>8. UNCHANGED <<buffer, ttl, lock, home, hand, alone, batched, raced>>
  BY DEF Start, Load, Scan, Clean, Stop, Forget, LifecycleFails, redis, fates
<1>9. mishap' \in BOOLEAN
  BY DEF Start, Load, Scan, Clean, Stop, Forget, LifecycleFails, Mishap, fates, TypeOK
<1> QED
  BY <1>4, <1>5, <1>6, <1>7, <1>8, <1>9, Zenon DEF TypeOK

LEMMA CrashTypes ==
  ASSUME TypeOK, NEW i \in Instances, Crash(i)
  PROVE  TypeOK'
<1>1. pc' \in [Tasks -> SendLabels \cup PollLabels \cup LifeLabels]
  BY DEF Crash, TypeOK, SendLabels, PollLabels, LifeLabels
<1>2. \A t \in Tasks : pc'[t] \in Labels(t)
  <2> SUFFICES ASSUME NEW t \in Tasks PROVE pc'[t] \in Labels(t)
    OBVIOUS
  <2>1. pc[t] \in Labels(t)
    BY DEF TypeOK
  <2>2. CASE t = i
    BY <2>2, DigestAssumption DEF Crash, Labels, LifeLabels
  <2>3. CASE t # i /\ pc'[t] # pc[t]
    <3>1. Home(t) = i /\ pc'[t] = IF t \in Events THEN "gone" ELSE "idle"
      BY <2>3 DEF Crash
    <3>2. t \in Events \/ t \in Polls
      BY <2>3, <3>1 DEF Home, Tasks
    <3> QED
      BY <3>1, <3>2 DEF Labels, SendLabels, PollLabels
  <2> QED
    BY <2>1, <2>2, <2>3
<1>3. hand' \in [Tasks -> SUBSET Events]
  BY DEF Crash, TypeOK
<1>4. timer' \in [Instances -> 0 .. Window] /\ tracked' \in [Instances -> -1 .. Window]
  <2>1. 0 \in 0 .. Window
    BY DigestAssumption
  <2> QED
    BY <2>1, TrackTypes, Zenon DEF Crash
<1>5. mishap' \in BOOLEAN
  BY DEF Crash, Mishap, TypeOK
<1> QED
  BY <1>1, <1>2, <1>3, <1>4, <1>5, Zenon DEF Crash, TypeOK, redis

LEMMA TickTypes ==
  ASSUME TypeOK, Tick
  PROVE  TypeOK'
<1>1. \A age \in -1 .. Window : Older(age) \in -1 .. Window
  BY DigestAssumption DEF Older, NoEntry
<1>2. /\ checkpoint' \in [Instances -> -1 .. Window]
      /\ tracked' \in [Instances -> -1 .. Window]
  BY <1>1 DEF Tick, TypeOK
<1>3. timer' \in [Instances -> 0 .. Window]
  BY DigestAssumption DEF Tick, TypeOK
<1>4. ttl' \in 0 .. Never /\ lock' \in 0 .. LockTTL
  BY DigestAssumption DEF Tick, TypeOK, Never
<1>5. buffer' \subseteq Events /\ mishap' \in BOOLEAN
  BY DEF Tick, Mishap, TypeOK
<1> QED
  BY <1>2, <1>3, <1>4, <1>5, Zenon DEF Tick, TypeOK

LEMMA StutterTypes ==
  ASSUME TypeOK, UNCHANGED vars
  PROVE  TypeOK'
BY DEF TypeOK, vars

LEMMA NextTypes == TypeOK /\ [Next]_vars => TypeOK'
<1> SUFFICES ASSUME TypeOK, [Next]_vars PROVE TypeOK'
  OBVIOUS
<1> QED
  BY SendTypes, FlushTypes, DeliverTypes, PollTypes, LifeTypes, CrashTypes, TickTypes,
     StutterTypes, Zenon DEF Next

\* Every variable keeps its type: each action sends a task to a label of its own
\* kind, and no age, TTL or timer runs past its bound.
THEOREM TypeCorrect == Spec => []TypeOK
<1>1. Init => TypeOK
  BY InitDigestInv DEF DigestInv
<1> QED
  BY <1>1, NextTypes, PTL DEF Spec

-----------------------------------------------------------------------------
(* The keeper of the buffer.                                               *)

\* A step that untracks nothing, ends no addEvent() and fills no empty buffer.
LEMMA KeeperStays ==
  ASSUME NothingForgotten,
         \A i \in Instances : tracked[i] # NoEntry => tracked'[i] # NoEntry,
         \A e \in Events : pc[e] \in {"count", "track", "track_full"} =>
                            pc'[e] \in {"count", "track", "track_full"},
         buffer' # {} => buffer # {},
         mishap => mishap'
  PROVE  NothingForgotten'
BY DEF NothingForgotten, Kept

\* A step of one task that is not in the middle of addEvent().
LEMMA KeeperStaysPut ==
  ASSUME TypeOK, NothingForgotten, NEW t \in Tasks, NEW to,
         pc' = [pc EXCEPT ![t] = to],
         pc[t] \notin {"count", "track", "track_full"},
         \A i \in Instances : tracked[i] # NoEntry => tracked'[i] # NoEntry,
         buffer' # {} => buffer # {},
         mishap => mishap'
  PROVE  NothingForgotten'
<1>1. \A e \in Events : pc[e] \in {"count", "track", "track_full"} =>
                         pc'[e] \in {"count", "track", "track_full"}
  BY DEF TypeOK, Tasks
<1> QED
  BY <1>1, KeeperStays, Zenon

LEMMA SendKeeps ==
  ASSUME TypeOK, NothingForgotten, NEW e \in Events,
         Add(e) \/ Count(e) \/ Track(e) \/ Dispatch(e) \/ AddFails(e)
  PROVE  NothingForgotten'
<1>1. e \in Tasks /\ home[e] \in Instances
  BY DEF Tasks, TypeOK
<1>2. CASE Add(e)
  <2>1. pc'[e] = "count"
    BY <1>1, <1>2 DEF Add, Goto, TypeOK
  <2> QED
    BY <2>1 DEF NothingForgotten, Kept
<1>3. CASE Count(e)
  <2>1. pc'[e] \in {"track", "track_full"}
    BY <1>1, <1>3 DEF Count, Goto, TypeOK
  <2> QED
    BY <2>1 DEF NothingForgotten, Kept
<1>4. CASE Track(e)
  <2>1. tracked'[home[e]] # NoEntry
    BY <1>1, <1>4 DEF Track, TrackKey, TypeOK, NoEntry
  <2> QED
    BY <1>1, <2>1 DEF NothingForgotten, Kept
<1>5. CASE Dispatch(e)
  <2>1. pc[e] = "dispatch" /\ pc' = [pc EXCEPT ![e] = "sent"]
    BY <1>5 DEF Dispatch
  <2> QED
    BY <1>1, <1>5, <2>1, KeeperStaysPut DEF Dispatch, redis
<1>6. CASE AddFails(e)
  <2>1. CASE pc[e] = "new"
    <3>1. pc' = [pc EXCEPT ![e] = "digested"]
      BY <1>6 DEF AddFails, Fail
    <3> QED
      BY <1>1, <1>6, <2>1, <3>1, KeeperStaysPut DEF AddFails, Mishap, redis
  <2>2. CASE pc[e] # "new"
    BY <1>6, <2>2 DEF AddFails, Mishap, NothingForgotten
  <2> QED
    BY <2>1, <2>2
<1> QED
  BY <1>2, <1>3, <1>4, <1>5, <1>6

LEMMA FlushKeeps ==
  ASSUME TypeOK, NothingForgotten, NEW t \in Tasks, Flush(t)
  PROVE  NothingForgotten'
<1>1. CASE AcquireFlushLock(t)
  <2>1. PICK to : pc' = [pc EXCEPT ![t] = to] /\ pc[t] = "lock"
    BY <1>1 DEF AcquireFlushLock, Goto
  <2> QED
    BY <1>1, <2>1, KeeperStaysPut DEF AcquireFlushLock
<1>2. CASE AtomicFlush(t)
  BY <1>2 DEF AtomicFlush, NothingForgotten
<1>3. CASE Unlock(t)
  BY <1>3 DEF Unlock, Mishap, NothingForgotten
<1>4. CASE FlushFails(t)
  BY <1>4 DEF FlushFails, Mishap, NothingForgotten
<1> QED
  BY <1>1, <1>2, <1>3, <1>4 DEF Flush

LEMMA PollKeeps ==
  ASSUME TypeOK, NothingForgotten, NEW p \in Polls,
         Deliver(p) \/ Fire(p) \/ Checkpoint(p) \/ Exists(p) \/ CheckpointFails(p)
  PROVE  NothingForgotten'
<1>1. p \in Tasks
  BY DEF Tasks
<1>2. CASE Exists(p) /\ buffer = {}
  BY <1>2 DEF Exists, NothingForgotten, redis
<1>3. CASE ~(Exists(p) /\ buffer = {})
  <2>1. PICK to : pc' = [pc EXCEPT ![p] = to]
    BY DEF Deliver, Fire, Checkpoint, Exists, CheckpointFails, Goto, Fail
  <2>2. pc[p] \notin {"count", "track", "track_full"}
    BY DEF Deliver, Fire, Checkpoint, Exists, CheckpointFails, Goto, Fail
  <2>3. UNCHANGED <<tracked, buffer, mishap>>
    BY <1>3 DEF Deliver, Fire, Checkpoint, Exists, CheckpointFails, redis, fates
  <2> QED
    BY <1>1, <2>1, <2>2, <2>3, KeeperStaysPut
<1> QED
  BY <1>2, <1>3

LEMMA LifeKeeps ==
  ASSUME TypeOK, NothingForgotten, NEW i \in Instances,
         \/ Deliver(i) \/ Start(i) \/ Load(i) \/ Scan(i) \/ Clean(i) \/ Stop(i) \/ Forget(i)
         \/ LifecycleFails(i) \/ Crash(i)
  PROVE  NothingForgotten'
<1>1. i \in Tasks
  BY DEF Tasks
<1>2. CASE mishap' = (mishap \/ buffer # {}) /\ buffer' = buffer
  BY <1>2 DEF NothingForgotten
<1>3. CASE ~(mishap' = (mishap \/ buffer # {}) /\ buffer' = buffer)
  <2>1. PICK to : pc' = [pc EXCEPT ![i] = to]
    BY <1>3 DEF Deliver, Start, Load, Scan, Clean, Stop, Forget, LifecycleFails, Crash, Mishap,
       redis, Goto, Fail
  <2>2. pc[i] \notin {"count", "track", "track_full"}
    BY <1>1, DigestAssumption DEF TypeOK, Labels, LifeLabels
  <2>3. UNCHANGED <<buffer, mishap>>
    BY <1>3 DEF Deliver, Start, Load, Scan, Clean, Stop, Forget, LifecycleFails, Crash, Mishap,
       redis, fates
  <2>4. \/ tracked' = tracked
        \/ TrackKey(i)
        \/ tracked' = [tracked EXCEPT ![i] = checkpoint[i]] /\ checkpoint[i] # NoEntry
    BY <1>3 DEF Deliver, Start, Load, Scan, Clean, Stop, Forget, LifecycleFails, Crash, Mishap,
       redis, TypeOK
  <2>5. \A j \in Instances : tracked[j] # NoEntry => tracked'[j] # NoEntry
    BY <2>4 DEF TypeOK, TrackKey
  <2> QED
    BY <1>1, <2>1, <2>2, <2>3, <2>5, KeeperStaysPut
<1> QED
  BY <1>2, <1>3

LEMMA TickKeeps ==
  ASSUME TypeOK, NothingForgotten, Tick
  PROVE  NothingForgotten'
<1>1. \A i \in Instances : tracked[i] # NoEntry => tracked'[i] # NoEntry
  BY DEF Tick, Older, TypeOK, NoEntry
<1> QED
  BY <1>1, KeeperStays DEF Tick, Mishap

LEMMA NextKeeps == TypeOK /\ NothingForgotten /\ [Next]_vars => NothingForgotten'
<1> SUFFICES ASSUME TypeOK, NothingForgotten, [Next]_vars PROVE NothingForgotten'
  OBVIOUS
<1>1. CASE UNCHANGED vars
  BY <1>1 DEF vars, NothingForgotten, Kept
<1> QED
  BY <1>1, SendKeeps, FlushKeeps, PollKeeps, LifeKeeps, TickKeeps, Zenon DEF Next

\* Some instance knows of a buffer with events in it, or is about to, unless it was
\* refilled while a flush removed its entry, a stop or a death left it behind, or
\* Redis failed in the middle of addEvent().
THEOREM BufferKept == Spec => []NothingForgotten
<1>1. Init => TypeOK /\ NothingForgotten
  BY InitDigestInv DEF DigestInv
<1>2. (TypeOK /\ NothingForgotten) /\ [Next]_vars => (TypeOK /\ NothingForgotten)'
  BY NextTypes, NextKeeps
<1> QED
  BY <1>1, <1>2, PTL DEF Spec

-----------------------------------------------------------------------------
(* The place of an event.                                                  *)

Places == Apart /\ \A e \in Events : WhereIs(e)

Decided == {"unlock", "dispatch", "sent"}

\* An event whose task moves on, or stays, in a step that puts nothing anywhere:
\* a send gets back to no earlier stage, and leaves its flush either with its event
\* out of the buffer or raced.
Onward(e) ==
  /\ pc'[e] = "new" => pc[e] = "new"
  /\ pc[e] = "sent" => pc'[e] = "sent"
  /\ Undecided(e)' => Undecided(e) \/ e \in raced'
  /\ pc'[e] \in Decided => pc[e] \in Decided \/ e \in raced'

LEMMA PlacesStay ==
  ASSUME Places, buffer' \subseteq buffer, batched' = batched, alone' = alone,
         raced \subseteq raced',
         \A t \in Tasks : hand'[t] \subseteq hand[t],
         \A e \in Events : Onward(e)
  PROVE  Places'
<1>1. Apart'
  BY DEF Places, Apart
<1>2. ASSUME NEW e \in Events PROVE WhereIs(e)'
  <2>1. WhereIs(e) /\ Onward(e)
    BY <1>2 DEF Places
  <2> QED
    BY <2>1 DEF WhereIs, Onward, Decided, Undecided, InFlight
<1> QED
  BY <1>1, <1>2 DEF Places

\* A step of a task other than a send leaves every send where it is.
LEMMA OthersStay ==
  ASSUME TypeOK, NEW t \in Tasks \ Events, NEW to, pc' = [pc EXCEPT ![t] = to]
  PROVE  \A e \in Events : Onward(e)
<1>1. \A e \in Events : pc'[e] = pc[e]
  BY DEF TypeOK, Tasks
<1> QED
  BY <1>1 DEF Onward, Undecided, InFlight

\* A step of one send.
LEMMA SendMoves ==
  ASSUME TypeOK, NEW e \in Events, NEW to, pc' = [pc EXCEPT ![e] = to],
         pc[e] # "sent", to # "new",
         to \in Decided => pc[e] \in Decided \/ e \in raced',
         to \notin {"digested", "gone"} => Undecided(e) \/ e \in raced'
  PROVE  \A f \in Events : Onward(f)
<1>1. \A f \in Events : pc'[f] = IF f = e THEN to ELSE pc[f]
  BY DEF TypeOK, Tasks
<1> QED
  BY <1>1 DEF Onward, Undecided, InFlight, Decided

LEMMA SendPlaces ==
  ASSUME TypeOK, Places, NEW e \in Events,
         Add(e) \/ Count(e) \/ Track(e) \/ Dispatch(e) \/ AddFails(e)
  PROVE  Places'
<1>1. e \in Tasks /\ WhereIs(e)
  BY DEF Tasks, Places
<1>2. CASE Add(e)
  <2>1. /\ pc[e] = "new" /\ buffer' = buffer \cup {e}
        /\ UNCHANGED <<hand, batched, alone, raced>>
    BY <1>2 DEF Add, Goto, fates
  <2>2. \A f \in Events : pc'[f] = IF f = e THEN "count" ELSE pc[f]
    BY <1>2 DEF Add, Goto, TypeOK, Tasks
  <2>3. e \notin batched /\ \A t \in Tasks : e \notin hand[t]
    BY <1>1, <2>1 DEF WhereIs
  <2>4. Apart'
    BY <2>1, <2>3 DEF Apart, Places
  <2>5. ASSUME NEW f \in Events PROVE WhereIs(f)'
    <3>1. WhereIs(f)
      BY <2>5 DEF Places
    <3> QED
      BY <1>1, <2>1, <2>2, <2>3, <3>1 DEF WhereIs, Undecided, InFlight
  <2> QED
    BY <2>4, <2>5 DEF Places
<1>3. CASE Count(e) \/ Track(e)
  <2>1. PICK to : pc' = [pc EXCEPT ![e] = to] /\ to \in {"track_full", "track", "lock", "digested"}
    BY <1>3 DEF Count, Track, Goto
  <2>2. InFlight(e)
    BY <1>3 DEF Count, Track, Goto, InFlight
  <2>3. \A f \in Events : Onward(f)
    BY <2>1, <2>2, SendMoves DEF Undecided, InFlight, Decided
  <2> QED
    BY <1>3, <2>3, PlacesStay DEF Count, Track, redis, fates
<1>4. CASE Dispatch(e)
  <2>1. /\ pc[e] = "dispatch" /\ alone' = alone \cup {e}
        /\ UNCHANGED <<buffer, hand, batched, raced>>
    BY <1>4 DEF Dispatch, redis
  <2>2. \A f \in Events : pc'[f] = IF f = e THEN "sent" ELSE pc[f]
    BY <1>4 DEF Dispatch, TypeOK, Tasks
  <2>3. Apart'
    BY <2>1 DEF Apart, Places
  <2>4. ASSUME NEW f \in Events PROVE WhereIs(f)'
    <3>1. WhereIs(f)
      BY <2>4 DEF Places
    <3> QED
      BY <2>1, <2>2, <3>1 DEF WhereIs, Undecided, InFlight
  <2> QED
    BY <2>3, <2>4 DEF Places
<1>5. CASE AddFails(e)
  <2>1. pc' = [pc EXCEPT ![e] = "digested"] /\ pc[e] # "sent"
    BY <1>5 DEF AddFails, Fail
  <2>2. \A f \in Events : Onward(f)
    BY <2>1, SendMoves DEF Decided
  <2> QED
    BY <1>5, <2>2, PlacesStay DEF AddFails, redis
<1> QED
  BY <1>2, <1>3, <1>4, <1>5

LEMMA FlushPlaces ==
  ASSUME TypeOK, Places, NEW t \in Tasks, Flush(t)
  PROVE  Places'
<1>1. CASE AcquireFlushLock(t)
  <2>1. PICK to : pc' = [pc EXCEPT ![t] = to] /\ pc[t] = "lock"
                  /\ (t \in Events => to \in {"take", "dispatch"})
                  /\ (t \in Events /\ to = "dispatch" => t \in raced')
    BY <1>1, DigestAssumption DEF AcquireFlushLock, Goto, After
  <2>2. \A f \in Events : Onward(f)
    BY <2>1, OthersStay, SendMoves DEF Undecided, InFlight, Decided
  <2> QED
    BY <1>1, <2>2, PlacesStay DEF AcquireFlushLock
<1>2. CASE AtomicFlush(t)
  <2>1. /\ pc[t] = "take" /\ buffer' = {} /\ UNCHANGED <<batched, alone>>
        /\ hand' = [hand EXCEPT ![t] = buffer]
        /\ raced' = IF t \in Events THEN raced ELSE raced \cup {e \in buffer : InFlight(e)}
    BY <1>2 DEF AtomicFlush, Goto
  <2>2. \A s \in Tasks : pc'[s] = IF s = t THEN "unlock" ELSE pc[s]
    BY <1>2 DEF AtomicFlush, Goto, TypeOK
  <2>3. \A s \in Tasks : hand'[s] = IF s = t THEN buffer ELSE hand[s]
    BY <2>1 DEF TypeOK
  <2>4. Apart'
    BY <2>1, <2>3 DEF Apart, Places
  <2>5. ASSUME NEW f \in Events PROVE WhereIs(f)'
    <3>1. WhereIs(f) /\ f \in Tasks
      BY <2>5 DEF Places, Tasks
    <3> QED
      BY <2>1, <2>2, <2>3, <3>1 DEF WhereIs, Undecided, InFlight
  <2> QED
    BY <2>4, <2>5 DEF Places
<1>3. CASE Unlock(t)
  <2>1. PICK to : pc' = [pc EXCEPT ![t] = to] /\ pc[t] = "unlock"
                  /\ (t \in Events => to = "dispatch")
    BY <1>3 DEF Unlock, Goto, After
  <2>2. \A f \in Events : Onward(f)
    BY <2>1, OthersStay, SendMoves DEF Undecided, InFlight, Decided
  <2>3. \A s \in Tasks : hand'[s] \subseteq hand[s]
    BY <1>3 DEF Unlock, TypeOK
  <2> QED
    BY <1>3, <2>2, <2>3, PlacesStay DEF Unlock
<1>4. CASE FlushFails(t)
  <2>1. PICK to : pc' = [pc EXCEPT ![t] = to] /\ pc[t] \in {"lock", "take", "unlock", "exists"}
                  /\ (t \in Events => to = "dispatch")
    BY <1>4 DEF FlushFails, Fail, After
  <2>2. raced \subseteq raced' /\ (t \in Events /\ pc[t] # "unlock" => t \in raced')
    BY <1>4 DEF FlushFails
  <2>3. t \in Events => pc[t] # "exists"
    BY DEF TypeOK, Labels, SendLabels
  <2>4. \A f \in Events : Onward(f)
    BY <2>1, <2>2, <2>3, OthersStay, SendMoves DEF Undecided, InFlight, Decided
  <2>5. \A s \in Tasks : hand'[s] \subseteq hand[s]
    BY <1>4 DEF FlushFails, TypeOK
  <2> QED
    BY <1>4, <2>2, <2>4, <2>5, PlacesStay DEF FlushFails
<1> QED
  BY <1>1, <1>2, <1>3, <1>4 DEF Flush

LEMMA DeliverPlaces ==
  ASSUME TypeOK, Places, NEW t \in Polls \cup Instances, Deliver(t)
  PROVE  Places'
<1>1. t \in Tasks \ Events
  BY DigestAssumption DEF Tasks
<1>2. /\ UNCHANGED <<buffer, alone, raced>>
      /\ batched \subseteq batched' /\ batched' \subseteq batched \cup hand[t]
  BY DEF Deliver, redis
<1>3. \A s \in Tasks : hand'[s] = IF s = t THEN {} ELSE hand[s]
  BY <1>1 DEF Deliver, TypeOK
<1>4. \A f \in Events : pc'[f] = pc[f]
  BY <1>1 DEF Deliver, TypeOK, Tasks
<1>5. Apart'
  <2>1. hand[t] \cap buffer = {} /\ buffer \cap batched = {}
    BY <1>1 DEF Places, Apart
  <2>2. \A s \in Tasks : s # t => hand[s] \cap (buffer \cup batched \cup hand[t]) = {}
    BY <1>1 DEF Places, Apart
  <2>3. \A s, u \in Tasks : s # u => hand'[s] \cap hand'[u] = {}
    BY <1>3 DEF Places, Apart
  <2> QED
    BY <1>2, <1>3, <2>1, <2>2, <2>3 DEF Apart
<1>6. ASSUME NEW f \in Events PROVE WhereIs(f)'
  <2>1. WhereIs(f)
    BY <1>6 DEF Places
  <2> QED
    BY <1>1, <1>2, <1>3, <1>4, <2>1 DEF WhereIs, Undecided, InFlight
<1> QED
  BY <1>5, <1>6 DEF Places

LEMMA OtherPlaces ==
  ASSUME TypeOK, Places, NEW t \in Polls \cup Instances,
         \/ t \in Polls /\ (Fire(t) \/ Checkpoint(t) \/ Exists(t) \/ CheckpointFails(t))
         \/ t \in Instances /\ (\/ Start(t) \/ Load(t) \/ Scan(t) \/ Clean(t) \/ Stop(t)
                                 \/ Forget(t) \/ LifecycleFails(t))
  PROVE  Places'
<1>1. t \in Tasks \ Events
  BY DigestAssumption DEF Tasks
<1>2. PICK to : pc' = [pc EXCEPT ![t] = to]
  BY DEF Fire, Checkpoint, Exists, CheckpointFails, Start, Load, Scan, Clean, Stop, Forget,
     LifecycleFails, Goto, Fail
<1>3. UNCHANGED <<buffer, hand, batched, alone, raced>>
  BY DEF Fire, Checkpoint, Exists, CheckpointFails, Start, Load, Scan, Clean, Stop, Forget,
     LifecycleFails, redis, fates
<1> QED
  BY <1>1, <1>2, <1>3, OthersStay, PlacesStay

LEMMA CrashPlaces ==
  ASSUME TypeOK, Places, NEW i \in Instances, Crash(i)
  PROVE  Places'
<1>1. \A e \in Events : pc'[e] = pc[e] \/ (pc'[e] = "gone" /\ pc[e] \notin {"new", "sent"})
  BY DigestAssumption DEF Crash, Tasks
<1>2. \A e \in Events : Onward(e)
  BY <1>1 DEF Onward, Undecided, InFlight, Decided
<1>3. \A t \in Tasks : hand'[t] \subseteq hand[t]
  BY DEF Crash
<1> QED
  BY <1>2, <1>3, PlacesStay DEF Crash, redis

LEMMA TickPlaces ==
  ASSUME TypeOK, Places, Tick
  PROVE  Places'
<1>1. \A e \in Events : Onward(e)
  BY DEF Tick, Onward, Undecided, InFlight
<1>2. buffer' \subseteq buffer
  BY DEF Tick
<1> QED
  BY <1>1, <1>2, PlacesStay DEF Tick

LEMMA NextPlaces == TypeOK /\ Places /\ [Next]_vars => Places'
<1> SUFFICES ASSUME TypeOK, Places, [Next]_vars PROVE Places'
  OBVIOUS
<1>1. CASE UNCHANGED vars
  BY <1>1, PlacesStay DEF vars, Onward, Undecided, InFlight
<1> QED
  BY <1>1, SendPlaces, FlushPlaces, DeliverPlaces, OtherPlaces, CrashPlaces, TickPlaces, Zenon
  DEF Next

\* No event goes to onFlush twice, however often the flush lock runs out under its
\* holder or is deleted by another, and an event that goes out both alone and in a
\* digest is one another flush ran into as its send() reached the threshold.
THEOREM NeverTwice == Spec => []DeliveredOnce
<1>1. Init => TypeOK /\ Places
  BY InitDigestInv DEF DigestInv, Places
<1>2. (TypeOK /\ Places) /\ [Next]_vars => (TypeOK /\ Places)'
  BY NextTypes, NextPlaces
<1>3. TypeOK /\ Places => DeliveredOnce
  BY DEF TypeOK, Places, WhereIs, Undecided, DeliveredOnce
<1> QED
  BY <1>1, <1>2, <1>3, PTL DEF Spec

-----------------------------------------------------------------------------
(* The race against the TTL.                                               *)

Pending == \E e \in Events : pc[e] \in {"count", "track", "track_full"}
Taking  == \E t \in Tasks : pc[t] = "take"

\* A poll of i that will try to flush, if the digest is due.
Trying == {"checkpoint", "lock", "take"}
Polling(i) == \E p \in Polls : Poller[p] = i /\ pc[p] \in Trying

\* The ticks until the poller of i fires, once i is up.
Left(i) == IF pc[i] \in {"load", "scan", "clean"} THEN Window ELSE timer[i]

\* The engine of i flushes before the buffer expires: the buffer outlives the window
\* of the entry by the grace period and, when the entry is due, the next poll.
InTime(i) ==
  /\ tracked[i] # NoEntry
  /\ tracked[i] # Window => ttl >= Window + Grace - tracked[i]
  /\ tracked[i] = Window => ttl > Left(i) \/ Polling(i)

\* A lock left behind is as old as the buffer at least.
OldLock == lock > 0 => ttl + LockTTL >= Window + Grace + lock

Due == Pending \/ \E i \in Instances : InTime(i)

\* A process that does not run, or is about to load its checkpoint, has no old entry.
Fresh ==
  ~mishap => \A i \in Instances :
    /\ pc[i] \in {"down", "deliver"} => tracked[i] = NoEntry
    /\ pc[i] = "load" => tracked[i] \in {NoEntry, 0}

\* A buffer is about to be flushed, or somebody will flush it in time.
Deadline ==
  Window <= Grace /\ LockTTL <= Grace /\ ~mishap /\ buffer # {} => Taking \/ (OldLock /\ Due)

\* Harm done over a buffer with events in it, or a buffer without any.
LEMMA HarmDone ==
  ASSUME Deadline, buffer' = {} \/ (mishap' /\ mishap' \in BOOLEAN)
  PROVE  Deadline'
BY DEF Deadline

\* An entry that is in time stays so while its age and the TTL do not change and the
\* poller comes no later.
LEMMA InTimeStays ==
  ASSUME TypeOK, TypeOK', NEW i \in Instances, InTime(i), tracked'[i] = tracked[i], ttl' = ttl,
         Left(i)' <= Left(i),
         tracked[i] = Window => (Polling(i) => Polling(i)')
  PROVE  InTime(i)'
<1>1. ttl \in Int /\ Left(i) \in Int /\ Left(i)' \in Int
  BY DigestAssumption DEF TypeOK, Left, Never
<1> QED
  BY <1>1 DEF InTime

\* A step of one task that changes neither the buffer nor its TTL nor an entry that is
\* there, and leaves neither addEvent() nor a poll that is due.
LEMMA DueStays ==
  ASSUME TypeOK, TypeOK', Due, NEW t \in Tasks, NEW to, pc' = [pc EXCEPT ![t] = to], ttl' = ttl,
         \A i \in Instances : tracked[i] # NoEntry => tracked'[i] = tracked[i],
         \A i \in Instances : tracked[i] # NoEntry => Left(i)' <= Left(i),
         pc[t] \in {"count", "track", "track_full"} => to \in {"count", "track", "track_full"},
         t \in Polls /\ pc[t] \in Trying /\ tracked[Poller[t]] = Window => to \in Trying
  PROVE  Due'
<1>1. \A s \in Tasks : pc'[s] = IF s = t THEN to ELSE pc[s]
  BY DEF TypeOK
<1>2. CASE Pending
  BY <1>1, <1>2 DEF Pending, Due, Tasks
<1>3. ASSUME NEW i \in Instances, InTime(i) PROVE InTime(i)'
  <2>1. tracked'[i] = tracked[i] /\ Left(i)' <= Left(i)
    BY <1>3 DEF InTime
  <2>2. tracked[i] = Window /\ Polling(i) => Polling(i)'
    BY <1>1 DEF Polling, Tasks
  <2> QED
    BY <1>3, <2>1, <2>2, InTimeStays
<1> QED
  BY <1>2, <1>3 DEF Due

LEMMA DeadlineStays ==
  ASSUME TypeOK, TypeOK', Deadline, NEW t \in Tasks, NEW to, pc' = [pc EXCEPT ![t] = to],
         pc[t] # "take", UNCHANGED <<buffer, ttl, lock>>, mishap => mishap',
         \A i \in Instances : tracked[i] # NoEntry => tracked'[i] = tracked[i],
         \A i \in Instances : tracked[i] # NoEntry => Left(i)' <= Left(i),
         pc[t] \in {"count", "track", "track_full"} => to \in {"count", "track", "track_full"},
         t \in Polls /\ pc[t] \in Trying /\ tracked[Poller[t]] = Window => to \in Trying
  PROVE  Deadline'
<1>1. Taking => Taking'
  BY DEF Taking, TypeOK
<1>2. OldLock => OldLock'
  BY DEF OldLock
<1>3. Due => Due'
  BY DueStays
<1> QED
  BY <1>1, <1>2, <1>3 DEF Deadline

\* While its timer runs on, the poller of an instance comes no later for a step to
\* any label but those of start().
LEMMA LeftStays ==
  ASSUME TypeOK, NEW t \in Tasks, NEW to, pc' = [pc EXCEPT ![t] = to], timer' = timer,
         to \notin {"load", "scan", "clean"}
  PROVE  \A i \in Instances : Left(i)' <= Left(i)
<1> SUFFICES ASSUME NEW i \in Instances PROVE Left(i)' <= Left(i)
  OBVIOUS
<1>1. pc'[i] = IF i = t THEN to ELSE pc[i]
  BY DEF TypeOK, Tasks
<1>2. timer[i] \in Int /\ timer[i] <= Window /\ Window \in Int
  BY DigestAssumption DEF TypeOK
<1> QED
  BY <1>1, <1>2 DEF Left

LEMMA SendDeadline ==
  ASSUME TypeOK, TypeOK', Deadline, NEW e \in Events,
         Add(e) \/ Count(e) \/ Track(e) \/ Dispatch(e) \/ AddFails(e)
  PROVE  Deadline'
<1>1. e \in Tasks /\ e \notin Polls /\ home[e] \in Instances
  BY DigestAssumption DEF Tasks, TypeOK
<1>2. CASE Add(e)
  <2>1. pc' = [pc EXCEPT ![e] = "count"] /\ pc[e] = "new"
        /\ UNCHANGED <<lock, mishap>>
    BY <1>2 DEF Add, Goto, fates
  <2>2. Due'
    BY <1>1, <2>1 DEF Due, Pending, TypeOK
  <2>3. CASE buffer = {}
    <3>1. ttl' = Window + Grace + 1
      BY <1>2, <2>3 DEF Add, Never
    <3>2. OldLock'
      BY <2>1, <3>1, DigestAssumption DEF OldLock, TypeOK
    <3> QED
      BY <2>2, <3>2 DEF Deadline
  <2>4. CASE buffer # {}
    <3>1. ttl' = ttl
      BY <1>2, <2>4 DEF Add
    <3>2. (Taking => Taking') /\ (OldLock => OldLock')
      BY <2>1, <3>1 DEF Taking, OldLock, TypeOK
    <3> QED
      BY <2>1, <2>2, <2>4, <3>2 DEF Deadline
  <2> QED
    BY <2>3, <2>4
<1>3. CASE Count(e)
  <2>1. PICK to \in {"track_full", "track"} : pc' = [pc EXCEPT ![e] = to] /\ pc[e] = "count"
    BY <1>3 DEF Count, Goto
  <2>2. UNCHANGED <<buffer, ttl, lock, tracked, timer, mishap>>
    BY <1>3 DEF Count, redis, fates
  <2>3. \A i \in Instances : Left(i)' <= Left(i)
    BY <1>1, <2>1, <2>2, LeftStays
  <2> QED
    BY <1>1, <2>1, <2>2, <2>3, DeadlineStays
<1>4. CASE Track(e)
  <2> SUFFICES ASSUME Window <= Grace, LockTTL <= Grace, ~mishap', buffer' # {}
               PROVE  Taking' \/ (OldLock' /\ Due')
    BY DEF Deadline
  <2>1. ttl' = Window + Grace /\ UNCHANGED <<lock, timer>>
    BY <1>4 DEF Track
  <2>2. OldLock'
    BY <2>1, DigestAssumption DEF OldLock, TypeOK
  <2>3. tracked'[home[e]] # NoEntry /\ tracked'[home[e]] \in -1 .. Window
    BY <1>1, <1>4 DEF Track, TrackKey, TypeOK, NoEntry
  <2>4. Left(home[e])' \in 0 .. Window
    <3>1. home'[e] = home[e] /\ timer'[home[e]] \in 0 .. Window
      BY <1>1, <1>4 DEF Track, TypeOK
    <3> QED
      BY <3>1, DigestAssumption DEF Left
  <2>5. InTime(home[e])'
    <3>1. home' = home
      BY <1>4 DEF Track
    <3> QED
      BY <2>1, <2>3, <2>4, <3>1, DigestAssumption DEF InTime, NoEntry
  <2>6. home' = home
    BY <1>4 DEF Track
  <2> QED
    BY <1>1, <2>2, <2>5, <2>6 DEF Due
<1>5. CASE Dispatch(e)
  <2>1. pc' = [pc EXCEPT ![e] = "sent"] /\ pc[e] = "dispatch"
    BY <1>5 DEF Dispatch
  <2>2. UNCHANGED <<buffer, ttl, lock, tracked, timer, mishap>>
    BY <1>5 DEF Dispatch, redis
  <2>3. \A i \in Instances : Left(i)' <= Left(i)
    BY <1>1, <2>1, <2>2, LeftStays
  <2> QED
    BY <1>1, <2>1, <2>2, <2>3, DeadlineStays
<1>6. CASE AddFails(e)
  <2>1. CASE pc[e] = "new"
    <3>1. pc' = [pc EXCEPT ![e] = "digested"]
      BY <1>6 DEF AddFails, Fail
    <3>2. UNCHANGED <<buffer, ttl, lock, tracked, timer, mishap>>
      BY <1>6, <2>1 DEF AddFails, Mishap, redis, TypeOK
    <3>3. \A i \in Instances : Left(i)' <= Left(i)
      BY <1>1, <3>1, <3>2, LeftStays
    <3> QED
      BY <1>1, <2>1, <3>1, <3>2, <3>3, DeadlineStays
  <2>2. CASE pc[e] # "new"
    BY <1>6, <2>2, HarmDone DEF AddFails, Mishap
  <2> QED
    BY <2>1, <2>2
<1> QED
  BY <1>2, <1>3, <1>4, <1>5, <1>6

\* A poll that is refused the lock finds it held by who is about to empty the buffer, or
\* left behind over a buffer that outlives the next poll.
LEMMA FlushDeadline ==
  ASSUME TypeOK, TypeOK', Deadline, NEW t \in Tasks, Flush(t)
  PROVE  Deadline'
<1>1. CASE AtomicFlush(t) \/ Unlock(t) \/ FlushFails(t)
  BY <1>1, HarmDone DEF AtomicFlush, Unlock, FlushFails, Mishap
<1>2. CASE AcquireFlushLock(t) /\ lock = 0
  <2>1. Taking'
    BY <1>2 DEF AcquireFlushLock, Goto, Taking, TypeOK
  <2> QED
    BY <2>1 DEF Deadline
<1>3. CASE AcquireFlushLock(t) /\ lock > 0
  <2> SUFFICES ASSUME Window <= Grace, LockTTL <= Grace, ~mishap', buffer' # {}
               PROVE  Taking' \/ (OldLock' /\ Due')
    BY DEF Deadline
  <2>1. UNCHANGED <<buffer, ttl, lock, tracked, timer, mishap>>
    BY <1>3 DEF AcquireFlushLock, TypeOK
  <2>2. PICK to \in {"exists", "dispatch", "idle", "forget"} :
          pc' = [pc EXCEPT ![t] = to] /\ pc[t] = "lock"
    BY <1>3 DEF AcquireFlushLock, Goto, After, TypeOK
  <2>3. \A s \in Tasks : pc'[s] = IF s = t THEN to ELSE pc[s]
    BY <2>2 DEF TypeOK
  <2>4. CASE Taking
    BY <2>2, <2>3, <2>4 DEF Taking
  <2>5. CASE OldLock /\ Due
    <3>1. OldLock'
      BY <2>1, <2>5 DEF OldLock
    <3>2. CASE Pending
      BY <2>2, <2>3, <3>1, <3>2 DEF Pending, Due, Tasks
    <3>3. ASSUME NEW i \in Instances, InTime(i) PROVE InTime(i)'
      <4>1. Left(i)' <= Left(i) /\ Left(i) <= Window /\ Left(i) \in Int /\ Left(i)' \in Int
        BY <2>1, <2>2, LeftStays, DigestAssumption DEF Left, TypeOK
      <4>2. ttl > Window
        BY <1>3, <2>5, DigestAssumption DEF OldLock, TypeOK
      <4> QED
        BY <2>1, <3>3, <4>1, <4>2, DigestAssumption DEF InTime, TypeOK
    <3> QED
      BY <2>5, <3>1, <3>2, <3>3 DEF Due
  <2> QED
    BY <2>1, <2>4, <2>5 DEF Deadline
<1> QED
  BY <1>1, <1>2, <1>3, DigestAssumption DEF Flush, TypeOK

LEMMA PollDeadline ==
  ASSUME TypeOK, TypeOK', Deadline, NEW p \in Polls,
         Deliver(p) \/ Fire(p) \/ Checkpoint(p) \/ Exists(p) \/ CheckpointFails(p)
  PROVE  Deadline'
<1>1. p \in Tasks /\ p \notin Events /\ Poller[p] \in Instances
  BY DigestAssumption DEF Tasks
<1>2. CASE Fire(p)
  <2>1. /\ pc' = [pc EXCEPT ![p] = "checkpoint"] /\ pc[p] = "idle"
        /\ timer' = [timer EXCEPT ![Poller[p]] = Window]
        /\ UNCHANGED <<buffer, ttl, lock, tracked, mishap>>
    BY <1>2 DEF Fire, Goto, redis, fates
  <2>2. \A s \in Tasks : pc'[s] = IF s = p THEN "checkpoint" ELSE pc[s]
    BY <2>1 DEF TypeOK
  <2>3. (Taking => Taking') /\ (OldLock => OldLock') /\ (Pending => Pending')
    BY <2>1, <2>2 DEF Taking, OldLock, Pending, Tasks
  <2>4. ASSUME NEW i \in Instances, InTime(i) PROVE InTime(i)'
    <3>1. CASE i = Poller[p]
      <4>1. Polling(i)'
        BY <1>1, <2>2, <3>1 DEF Polling, Trying
      <4> QED
        BY <2>1, <2>4, <4>1 DEF InTime
    <3>2. CASE i # Poller[p]
      <4>1. Polling(i) => Polling(i)'
        BY <2>1, <2>2 DEF Polling, Trying, Tasks
      <4>2. Left(i)' = Left(i) /\ Left(i) \in Int
        BY <1>1, <2>1, <2>2, <3>2, DigestAssumption DEF Left, TypeOK, Tasks
      <4> QED
        BY <2>1, <2>4, <4>1, <4>2, InTimeStays
    <3> QED
      BY <3>1, <3>2
  <2> QED
    BY <2>1, <2>3, <2>4 DEF Deadline, Due
<1>3. CASE Exists(p) /\ buffer = {}
  BY <1>3, HarmDone DEF Exists, redis
<1>4. CASE ~Fire(p) /\ ~(Exists(p) /\ buffer = {})
  <2>1. PICK to \in {"idle", "lock"} : pc' = [pc EXCEPT ![p] = to]
                   /\ (pc[p] \in Trying /\ tracked[Poller[p]] = Window => to \in Trying)
    BY <1>1, <1>4, DigestAssumption
    DEF Deliver, Checkpoint, Exists, CheckpointFails, Goto, Fail, After, Expired, Trying
  <2>2. pc[p] \notin {"take", "count", "track", "track_full"}
    BY <1>4 DEF Deliver, Checkpoint, Exists, CheckpointFails, Goto, Fail
  <2>3. UNCHANGED <<buffer, ttl, lock, tracked, timer, mishap>>
    BY <1>4 DEF Deliver, Checkpoint, Exists, CheckpointFails, redis, fates
  <2>4. \A i \in Instances : Left(i)' <= Left(i)
    BY <1>1, <2>1, <2>3, LeftStays
  <2> QED
    BY <1>1, <2>1, <2>2, <2>3, <2>4, DeadlineStays
<1> QED
  BY <1>2, <1>3, <1>4

LEMMA LifeDeadline ==
  ASSUME TypeOK, TypeOK', Fresh, Deadline, NEW i \in Instances,
         \/ Deliver(i) \/ Start(i) \/ Load(i) \/ Scan(i) \/ Clean(i) \/ Stop(i) \/ Forget(i)
         \/ LifecycleFails(i) \/ Crash(i)
  PROVE  Deadline'
<1>1. i \in Tasks /\ i \notin Events \cup Polls
  BY DigestAssumption DEF Tasks
<1>2. CASE Forget(i) \/ Crash(i) \/ (LifecycleFails(i) /\ pc[i] = "forget")
  BY <1>2, HarmDone DEF Forget, Crash, LifecycleFails, Fail, Mishap, redis
<1>3. CASE Load(i) /\ tracked[i] # NoEntry /\ checkpoint[i] # NoEntry
  <2> SUFFICES ASSUME Window <= Grace, LockTTL <= Grace, ~mishap', buffer' # {}
               PROVE  Taking' \/ (OldLock' /\ Due')
    BY DEF Deadline
  <2>1. /\ pc' = [pc EXCEPT ![i] = "scan"] /\ pc[i] = "load"
        /\ UNCHANGED <<buffer, ttl, lock, checkpoint, timer, mishap>>
        /\ tracked' = [tracked EXCEPT ![i] = checkpoint[i]]
    BY <1>3 DEF Load, Goto, redis, fates
  <2>2. \A s \in Tasks : pc'[s] = IF s = i THEN "scan" ELSE pc[s]
    BY <2>1 DEF TypeOK
  <2>3. (Taking => Taking') /\ (OldLock => OldLock') /\ (Pending => Pending')
    BY <1>1, <2>1, <2>2 DEF Taking, OldLock, Pending, Tasks
  <2>4. ASSUME NEW j \in Instances, InTime(j) PROVE InTime(j)'
    <3>1. Left(j)' = Left(j) /\ Left(j) \in Int
      BY <1>1, <2>1, <2>2, DigestAssumption DEF Left, TypeOK, Tasks
    <3>2. CASE j = i
      <4>1. tracked[i] = 0
        BY <1>3, <2>1 DEF Fresh, TypeOK
      <4>2. ttl >= Window + Grace
        BY <2>4, <3>2, <4>1, DigestAssumption DEF InTime, TypeOK
      <4>3. tracked'[i] = checkpoint[i] /\ checkpoint[i] \in 0 .. Window
        BY <1>3, <2>1 DEF TypeOK, NoEntry
      <4>4. Left(i)' = Window
        BY <1>1, <2>2 DEF Left
      <4> QED
        BY <2>1, <3>2, <4>2, <4>3, <4>4, DigestAssumption DEF InTime, TypeOK, NoEntry
    <3>3. CASE j # i
      <4>1. tracked'[j] = tracked[j]
        BY <2>1, <3>3 DEF TypeOK
      <4>2. Polling(j) => Polling(j)'
        BY <2>1, <2>2 DEF Polling, Trying, Tasks
      <4> QED
        BY <2>1, <2>4, <3>1, <4>1, <4>2, InTimeStays
    <3> QED
      BY <3>2, <3>3
  <2> QED
    BY <2>1, <2>3, <2>4 DEF Deadline, Due
<1>4. CASE \/ Deliver(i) \/ Start(i) \/ Scan(i) \/ Clean(i) \/ Stop(i)
           \/ Load(i) /\ (tracked[i] = NoEntry \/ checkpoint[i] = NoEntry)
           \/ LifecycleFails(i) /\ pc[i] # "forget"
  <2>1. PICK to : pc' = [pc EXCEPT ![i] = to]
    BY <1>4 DEF Deliver, Start, Load, Scan, Clean, Stop, LifecycleFails, Goto, Fail
  <2>2. pc[i] \notin {"take", "count", "track", "track_full"}
    BY <1>4 DEF Deliver, Start, Load, Scan, Clean, Stop, LifecycleFails, Goto, Fail
  <2>3. UNCHANGED <<buffer, ttl, lock, mishap>>
    BY <1>4 DEF Deliver, Start, Load, Scan, Clean, Stop, LifecycleFails, Fail, redis, fates
  <2>4. \A j \in Instances : tracked[j] # NoEntry => tracked'[j] = tracked[j]
    BY <1>4 DEF Deliver, Start, Load, Scan, Clean, Stop, LifecycleFails, Fail, TrackKey, TypeOK
  <2>5. ASSUME ~mishap, NEW j \in Instances, tracked[j] # NoEntry PROVE Left(j)' <= Left(j)
    <3>1. \A k \in Instances : k # i => Left(k)' = Left(k)
      BY <1>1, <1>4, <2>1
      DEF Left, TypeOK, Tasks, Deliver, Start, Load, Scan, Clean, Stop, LifecycleFails
    <3>2. Left(i)' <= Left(i) \/ pc[i] = "down"
      BY <1>1, <1>4, DigestAssumption
      DEF Left, TypeOK, Tasks, Deliver, Start, Load, Scan, Clean, Stop, LifecycleFails, Goto, Fail,
          After
    <3>3. \A k \in Instances : Left(k) \in Int
      BY DigestAssumption DEF Left, TypeOK
    <3> QED
      BY <2>5, <3>1, <3>2, <3>3 DEF Fresh
  <2> QED
    BY <1>1, <2>1, <2>2, <2>3, <2>4, <2>5, DeadlineStays DEF Deadline
<1> QED
  BY <1>2, <1>3, <1>4

\* Time passes while nothing is under way: every entry grows as much older as the
\* buffer comes nearer to its end, and the poller of a due one nearer to its turn.
LEMMA InTimeEnough ==
  ASSUME TypeOK, Fresh, ~mishap, Window <= Grace, Quiet, NEW i \in Instances, InTime(i)
  PROVE  pc[i] = "up" /\ timer[i] > 0 /\ ttl > 1 /\ ~Polling(i)
<1>1. pc[i] = "up" /\ timer[i] > 0
  BY DEF Quiet, InTime, Fresh
<1>2. ~Polling(i)
  BY DEF Quiet, Polling, Trying
<1>3. Left(i) = timer[i]
  BY <1>1 DEF Left
<1>4. tracked[i] \in -1 .. Window /\ timer[i] \in 0 .. Window /\ ttl \in Int
  BY DigestAssumption DEF TypeOK, Never
<1>5. ttl > 1
  <2>1. CASE tracked[i] = Window
    BY <1>1, <1>2, <1>3, <1>4, <2>1 DEF InTime
  <2>2. CASE tracked[i] # Window
    <3>1. ttl >= Window + Grace - tracked[i]
      BY <2>2 DEF InTime
    <3> QED
      BY <1>4, <2>2, <3>1, DigestAssumption
  <2> QED
    BY <2>1, <2>2
<1> QED
  BY <1>1, <1>2, <1>5

LEMMA QuietDeadline ==
  ASSUME TypeOK, Fresh, Deadline, ~mishap, Window <= Grace, LockTTL <= Grace, Quiet, buffer # {}
  PROVE  OldLock /\ \E i \in Instances : InTime(i)
<1>1. ~Taking /\ ~Pending
  BY DEF Quiet, Taking, Pending, Tasks
<1> QED
  BY <1>1 DEF Deadline, Due

LEMMA TickDeadline ==
  ASSUME TypeOK, TypeOK', Fresh, Deadline, Tick
  PROVE  Deadline'
<1> SUFFICES ASSUME Window <= Grace, LockTTL <= Grace, ~mishap', buffer' # {}
             PROVE  Taking' \/ (OldLock' /\ Due')
  BY DEF Deadline
<1>1. ~mishap /\ Quiet /\ buffer # {}
  BY DEF Tick, Mishap
<1>2. OldLock /\ \E i \in Instances : InTime(i)
  BY <1>1, QuietDeadline
<1>3. PICK i \in Instances : InTime(i)
  BY <1>2
<1>4. pc[i] = "up" /\ timer[i] > 0 /\ ttl > 1 /\ ~Polling(i)
  BY <1>1, <1>3, InTimeEnough
<1>5. ttl' \in {ttl, ttl - 1} /\ (ttl' = ttl => ttl = Never)
  BY <1>4, DigestAssumption DEF Tick, TypeOK, Never
<1>6. OldLock'
  BY <1>2, <1>5, DigestAssumption DEF OldLock, Tick, TypeOK, Never
<1>7. timer'[i] = timer[i] - 1 /\ pc' = pc /\ tracked'[i] = Older(tracked[i])
  BY <1>4 DEF Tick
<1>8. Left(i) = timer[i] /\ Left(i)' = timer[i] - 1
  BY <1>4, <1>7 DEF Left
<1>9. tracked[i] \in 0 .. Window /\ timer[i] \in 1 .. Window
  BY <1>3, <1>4 DEF InTime, TypeOK, NoEntry
<1>10. CASE tracked[i] = Window
  <2>1. ttl > timer[i]
    BY <1>3, <1>4, <1>8, <1>10 DEF InTime
  <2>2. tracked'[i] = Window
    BY <1>7, <1>10 DEF Older
  <2>3. InTime(i)'
    BY <1>5, <1>8, <1>9, <2>1, <2>2, DigestAssumption DEF InTime, TypeOK, Never, NoEntry
  <2> QED
    BY <1>6, <2>3 DEF Due
<1>11. CASE tracked[i] # Window
  <2>1. ttl >= Window + Grace - tracked[i]
    BY <1>3, <1>11 DEF InTime
  <2>2. tracked'[i] = tracked[i] + 1
    BY <1>7, <1>9, <1>11, DigestAssumption DEF Older, NoEntry
  <2>3. InTime(i)'
    BY <1>5, <1>8, <1>9, <2>1, <2>2, DigestAssumption DEF InTime, TypeOK, Never, NoEntry
  <2> QED
    BY <1>6, <2>3 DEF Due
<1> QED
  BY <1>10, <1>11

-----------------------------------------------------------------------------
(* Entries of processes that start and stop.                               *)

LEMMA FreshStays ==
  ASSUME TypeOK, Fresh, mishap => mishap',
         \A i \in Instances : pc'[i] \in {"down", "deliver", "load"} => pc'[i] = pc[i],
         \A i \in Instances : pc[i] \in {"down", "deliver", "load"} =>
                               tracked'[i] \in {NoEntry, tracked[i]}
  PROVE  Fresh'
BY DEF Fresh

LEMMA NextFresh == TypeOK /\ Fresh /\ [Next]_vars => Fresh'
<1> SUFFICES ASSUME TypeOK, Fresh, [Next]_vars PROVE Fresh'
  OBVIOUS
<1>1. ASSUME NEW e \in Events, Track(e) PROVE Fresh'
  <2>1. \A i \in Instances : pc'[i] = pc[i]
    BY <1>1, DigestAssumption DEF Track, Goto, TypeOK, Tasks
  <2>2. home[e] \in Instances /\ pc[home[e]] # "down"
    BY <1>1 DEF Track, Goto, Alive, Home, TypeOK
  <2>3. mishap' = (mishap \/ pc[home[e]] \in {"unlock", "deliver", "forget"})
    BY <1>1 DEF Track, AfterStop, Mishap
  <2>4. \A i \in Instances :
          tracked'[i] = IF i = home[e] /\ tracked[i] = NoEntry THEN 0 ELSE tracked[i]
    BY <1>1, <2>2 DEF Track, TrackKey, TypeOK
  <2> QED
    BY <2>1, <2>2, <2>3, <2>4 DEF Fresh
<1>2. ASSUME NEW e \in Events, Add(e) \/ Count(e) \/ Dispatch(e) \/ AddFails(e) PROVE Fresh'
  <2>1. \A i \in Instances : pc'[i] = pc[i]
    BY <1>2, DigestAssumption DEF Add, Count, Dispatch, AddFails, Goto, Fail, TypeOK, Tasks
  <2>2. tracked' = tracked
    BY <1>2 DEF Add, Count, Dispatch, AddFails
  <2>3. CASE Add(e) \/ Count(e) \/ Dispatch(e)
    <3>1. mishap' = mishap
      BY <2>3 DEF Add, Count, Dispatch, fates
    <3> QED
      BY <2>1, <2>2, <3>1, FreshStays
  <2>4. CASE AddFails(e)
    <3>1. mishap => mishap'
      BY <2>4 DEF AddFails, Mishap
    <3> QED
      BY <2>1, <2>2, <3>1, FreshStays
  <2> QED
    BY <1>2, <2>3, <2>4
<1>3. ASSUME NEW t \in Tasks, AcquireFlushLock(t) \/ AtomicFlush(t) \/ FlushFails(t) PROVE Fresh'
  <2>1. \A i \in Instances : pc'[i] \in {"down", "deliver", "load"} => pc'[i] = pc[i]
    BY <1>3, DigestAssumption
    DEF AcquireFlushLock, AtomicFlush, FlushFails, Goto, Fail, After, TypeOK, Tasks
  <2>2. tracked' = tracked
    BY <1>3 DEF AcquireFlushLock, AtomicFlush, FlushFails
  <2>3. CASE AcquireFlushLock(t) \/ AtomicFlush(t)
    <3>1. mishap' = mishap
      BY <2>3 DEF AcquireFlushLock, AtomicFlush
    <3> QED
      BY <2>1, <2>2, <3>1, FreshStays
  <2>4. CASE FlushFails(t)
    <3>1. mishap => mishap'
      BY <2>4 DEF FlushFails, Mishap
    <3> QED
      BY <2>1, <2>2, <3>1, FreshStays
  <2> QED
    BY <1>3, <2>3, <2>4
<1>4. ASSUME NEW t \in Tasks, Unlock(t) PROVE Fresh'
  <2>1. Home(t) \in Instances
    BY HomeTypes
  <2>2. \A i \in Instances : tracked'[i] = IF i = Home(t) THEN NoEntry ELSE tracked[i]
    BY <1>4, <2>1 DEF Unlock, UntrackKey, TypeOK
  <2>3. \A i \in Instances : i # t => pc'[i] = pc[i]
    BY <1>4 DEF Unlock, Goto, TypeOK, Tasks
  <2>4. t \in Instances => Home(t) = t
    BY DigestAssumption DEF Home
  <2>5. mishap => mishap'
    BY <1>4 DEF Unlock, Mishap
  <2> QED
    BY <2>1, <2>2, <2>3, <2>4, <2>5 DEF Fresh
<1>5. ASSUME NEW t \in Polls \cup Instances, Deliver(t) PROVE Fresh'
  <2>1. \A i \in Instances : pc'[i] \in {"down", "deliver", "load"} => pc'[i] = pc[i]
    BY <1>5, DigestAssumption DEF Deliver, After, TypeOK, Tasks
  <2> QED
    BY <1>5, <2>1, FreshStays DEF Deliver
<1>6. ASSUME NEW p \in Polls, Fire(p) \/ Checkpoint(p) \/ Exists(p) \/ CheckpointFails(p)
      PROVE  Fresh'
  <2>1. \A i \in Instances : pc'[i] = pc[i]
    BY <1>6, DigestAssumption
    DEF Fire, Checkpoint, Exists, CheckpointFails, Goto, Fail, TypeOK, Tasks
  <2>2. tracked' = tracked \/ tracked' = [tracked EXCEPT ![Poller[p]] = NoEntry]
    BY <1>6 DEF Fire, Checkpoint, Exists, CheckpointFails, UntrackKey, redis
  <2>3. mishap' = mishap
    BY <1>6 DEF Fire, Checkpoint, Exists, CheckpointFails, fates
  <2>4. \A i \in Instances : tracked'[i] \in {NoEntry, tracked[i]}
    BY <2>2 DEF TypeOK
  <2> QED
    BY <2>1, <2>3, <2>4, FreshStays
<1>7. ASSUME NEW i \in Instances,
             Start(i) \/ Load(i) \/ Scan(i) \/ Clean(i) \/ Stop(i) \/ Forget(i) \/ LifecycleFails(i)
      PROVE  Fresh'
  <2>1. \A j \in Instances : j # i => pc'[j] = pc[j] /\ tracked'[j] = tracked[j]
    BY <1>7 DEF Start, Load, Scan, Clean, Stop, Forget, LifecycleFails, Goto, Fail, TrackKey,
       UntrackKey, TypeOK, Tasks
  <2>2. pc'[i] = "load" => pc[i] = "down" /\ tracked'[i] = tracked[i]
    BY <1>7 DEF Start, Load, Scan, Clean, Stop, Forget, LifecycleFails, Goto, Fail, TypeOK, Tasks
  <2>3. pc'[i] \in {"down", "deliver"} => tracked'[i] = NoEntry
    BY <1>7 DEF Start, Load, Scan, Clean, Stop, Forget, LifecycleFails, Goto, Fail, UntrackKey,
       TypeOK, Tasks
  <2>4. mishap => mishap'
    BY <1>7 DEF Start, Load, Scan, Clean, Stop, Forget, LifecycleFails, Mishap, fates
  <2> QED
    BY <2>1, <2>2, <2>3, <2>4 DEF Fresh
<1>8. ASSUME NEW i \in Instances, Crash(i) PROVE Fresh'
  <2>1. \A j \in Instances : j # i => pc'[j] = pc[j] /\ tracked'[j] = tracked[j]
    BY <1>8, DigestAssumption DEF Crash, UntrackKey, Home, TypeOK, Tasks
  <2>2. tracked'[i] = NoEntry
    BY <1>8 DEF Crash, UntrackKey, TypeOK
  <2>3. mishap => mishap'
    BY <1>8 DEF Crash, Mishap
  <2> QED
    BY <2>1, <2>2, <2>3 DEF Fresh
<1>9. ASSUME Tick PROVE Fresh'
  <2> SUFFICES ASSUME ~mishap' PROVE Fresh'
    BY DEF Fresh
  <2>1. Quiet /\ ~mishap /\ pc' = pc
    BY <1>9 DEF Tick, Mishap
  <2>2. \A i \in Instances : pc[i] # "load" /\ (tracked[i] = NoEntry => tracked'[i] = NoEntry)
    BY <1>9, <2>1 DEF Tick, Quiet, Older
  <2> QED
    BY <2>1, <2>2 DEF Fresh
<1>10. CASE UNCHANGED vars
  BY <1>10 DEF vars, Fresh
<1> QED
  BY <1>1, <1>2, <1>3, <1>4, <1>5, <1>6, <1>7, <1>8, <1>9, <1>10, Zenon DEF Next, Flush

LEMMA NextDeadline == TypeOK /\ Fresh /\ Deadline /\ [Next]_vars => Deadline'
<1> SUFFICES ASSUME TypeOK, TypeOK', Fresh, Deadline, [Next]_vars PROVE Deadline'
  BY NextTypes
<1>1. CASE UNCHANGED vars
  BY <1>1 DEF vars, Deadline, Taking, OldLock, Due, Pending, InTime, Left, Polling
<1> QED
  BY <1>1, SendDeadline, FlushDeadline, PollDeadline, LifeDeadline, TickDeadline, Zenon DEF Next

\* A buffer is flushed before it expires: its TTL runs longer than the window by the
\* grace period, in which every digest that is due has its turn with the poller, and
\* a lock that nobody holds any more is older than the buffer it keeps from the poller.
THEOREM FlushedInTime == Spec => []NothingExpires
<1>1. Init => TypeOK /\ Fresh /\ Deadline
  <2>1. Init => TypeOK
    BY InitDigestInv DEF DigestInv
  <2>2. Init => Fresh /\ Deadline
    BY DEF Init, Fresh, Deadline
  <2> QED
    BY <2>1, <2>2
<1>2. TypeOK /\ Fresh /\ Deadline /\ [Next]_vars => (TypeOK /\ Fresh /\ Deadline)'
  BY NextTypes, NextFresh, NextDeadline
<1>3. TypeOK /\ Fresh /\ Deadline => NothingExpires
  <2> SUFFICES ASSUME TypeOK, Fresh, Deadline, Window <= Grace, LockTTL <= Grace, ~mishap, Quiet,
                      buffer # {}
               PROVE  ttl > 1
    BY DEF NothingExpires
  <2>1. PICK i \in Instances : InTime(i)
    BY QuietDeadline
  <2> QED
    BY <2>1, InTimeEnough
<1> QED
  BY <1>1, <1>2, <1>3, PTL DEF Spec

=============================================================================
