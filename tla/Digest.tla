-------------------------------- MODULE Digest --------------------------------
(***************************************************************************)
(* The digest engine (packages/core/src/digest) on one buffer, that of a    *)
(* subscriber and an event type, shared by several instances through Redis: *)
(* the digest step of send(), the poller, start() and stop().               *)
(*                                                                         *)
(* An action is one Redis command, or one MULTI, and what its caller does   *)
(* with the reply before it awaits again.  Time is counted in ticks.        *)
(***************************************************************************)
EXTENDS Integers, FiniteSets

CONSTANTS
  Instances,   \* server processes, each with an engine
  Restarted,   \* those that stop, or die, and start again
  Events,      \* events to digest; each is the task of the send() that brings it
  Polls,       \* runs of the pollers that may overlap
  Poller,      \* the instance of each
  MaxCount,    \* config.maxCount
  Window,      \* config.windowMs, in ticks
  Grace,       \* the 60 seconds a buffer outlives its window, in ticks
  LockTTL,     \* the 30 seconds a flush lock lives, in ticks
  Consumer,    \* what onFlush may do: a subset of {"resolves", "rejects"}, {} if not wired
  Faults,      \* which of {"redis", "crash", "stall"} happen
  Recurring    \* whether others follow the first that did harm

Tasks == Events \cup Polls \cup Instances

ASSUME DigestAssumption ==
  /\ Events \cap Polls = {} /\ Events \cap Instances = {} /\ Polls \cap Instances = {}
  /\ Restarted \subseteq Instances
  /\ Poller \in [Polls -> Instances]
  /\ MaxCount \in Nat \ {0}
  /\ Window \in Nat \ {0} /\ Grace \in Nat \ {0} /\ LockTTL \in Nat \ {0}
  /\ Consumer \subseteq {"resolves", "rejects"}
  /\ Faults \subseteq {"redis", "crash", "stall"} /\ Recurring \in BOOLEAN

VARIABLES
  \* Redis
  buffer,      \* emito:digest:{subscriber}:{type}
  ttl,         \* ticks the buffer has left
  lock,        \* ticks the flush lock has left, 0 when it is free
  checkpoint,  \* per instance, age of the digest in its checkpoint
  \* the processes
  tracked,     \* per instance, age of the digest in activeDigests
  timer,       \* per instance, ticks until its poller fires, 0 when it has none
  pc,          \* where each task stands; an instance's own is its start() or stop()
  home,        \* the instance that runs a send
  hand,        \* events a task has taken out of the buffer
  \* histories
  alone,       \* events dispatched on their own
  batched,     \* events that onFlush took
  raced,       \* events sent on their own though a flush took them or left them
  mishap       \* whether something happened that may leave a buffer behind

redis == <<buffer, ttl, lock, checkpoint>>
fates == <<alone, batched, raced, mishap>>
vars  == <<buffer, ttl, lock, checkpoint, tracked, timer, pc, home, hand,
           alone, batched, raced, mishap>>

NoEntry == -1                    \* the digest is not in the map or the hash
Never   == Window + Grace + 1    \* the TTL of a buffer before its first EXPIRE

Home(t) == IF t \in Events THEN home[t] ELSE IF t \in Polls THEN Poller[t] ELSE t
Alive(i) == pc[i] # "down"

\* A task that talks to Redis moves on; a stopped instance has quit Redis.
Goto(t, from, to) ==
  /\ pc[t] = from /\ Alive(Home(t))
  /\ pc' = [pc EXCEPT ![t] = to]

Mishap(condition) == mishap' = (mishap \/ condition)

Init ==
  /\ buffer = {} /\ ttl = 0 /\ lock = 0
  /\ checkpoint = [i \in Instances |-> NoEntry]
  /\ tracked = [i \in Instances |-> NoEntry]
  /\ timer \in [Instances -> 1 .. Window]
  /\ pc = [t \in Tasks |-> IF t \in Events THEN "new"
                           ELSE IF t \in Polls THEN "idle" ELSE "up"]
  /\ home \in [Events -> Instances]
  /\ hand = [t \in Tasks |-> {}]
  /\ alone = {} /\ batched = {} /\ raced = {} /\ mishap = FALSE

-----------------------------------------------------------------------------
(* addEvent(): ZADD, ZCARD, EXPIRE, and the in-memory entry at the end.     *)

Add(e) ==
  /\ Goto(e, "new", "count")
  /\ buffer' = buffer \cup {e}
  /\ ttl' = IF buffer = {} THEN Never ELSE ttl
  /\ UNCHANGED <<lock, checkpoint, tracked, timer, home, hand, fates>>

Count(e) ==
  /\ Goto(e, "count", IF Cardinality(buffer) >= MaxCount THEN "track_full" ELSE "track")
  /\ UNCHANGED <<redis, tracked, timer, home, hand, fates>>

TrackKey(i) == tracked' = [tracked EXCEPT ![i] = IF @ = NoEntry THEN 0 ELSE @]

UntrackKey(i) == tracked' = [tracked EXCEPT ![i] = NoEntry]

\* An event added when stop() has made its last flush.
AfterStop(e) == Mishap(pc[home[e]] \in {"unlock", "deliver", "forget"})

\* Mutants: a TTL of just the window; no entry.
TrackTight(e) ==
  /\ Goto(e, "track", "digested") \/ Goto(e, "track_full", "lock")
  /\ ttl' = IF buffer = {} THEN ttl ELSE Window
  /\ TrackKey(home[e])
  /\ AfterStop(e)
  /\ UNCHANGED <<buffer, lock, checkpoint, timer, home, hand, alone, batched, raced>>

TrackNothing(e) ==
  /\ Goto(e, "track", "digested") \/ Goto(e, "track_full", "lock")
  /\ ttl' = IF buffer = {} THEN ttl ELSE Window + Grace
  /\ AfterStop(e)
  /\ UNCHANGED <<buffer, lock, checkpoint, tracked, timer, home, hand, alone, batched, raced>>

\* Below the threshold send() answers "digested"; at the threshold it flushes.
Track(e) ==
  /\ Goto(e, "track", "digested") \/ Goto(e, "track_full", "lock")
  /\ ttl' = IF buffer = {} THEN ttl ELSE Window + Grace
  /\ TrackKey(home[e])
  /\ AfterStop(e)
  /\ UNCHANGED <<buffer, lock, checkpoint, timer, home, hand, alone, batched, raced>>

-----------------------------------------------------------------------------
(* A flush: by a send at the threshold, by a poll, by stop().               *)

InFlight(e) == pc[e] \in {"count", "track", "track_full", "lock", "take"}

\* What a task does when it has nothing to hand to onFlush, or has done so.
After(t) ==
  IF t \in Events THEN "dispatch" ELSE IF t \in Polls THEN "idle" ELSE "forget"

\* Mutant: the lock lives as long as the buffer.
AcquireFlushLockLong(t) ==
  /\ \/ lock = 0 /\ Goto(t, "lock", "take") /\ lock' = Window + Grace /\ UNCHANGED raced
     \/ /\ lock > 0
        /\ Goto(t, "lock", IF t \in Polls THEN "exists" ELSE After(t))
        /\ raced' = raced \cup ({t} \cap Events)
        /\ UNCHANGED lock
  /\ UNCHANGED <<buffer, ttl, checkpoint, tracked, timer, home, hand,
                 alone, batched, mishap>>

\* SET NX EX.  Who is refused goes on: send() dispatches its event, which stays
\* in the buffer; a poll looks whether there is anything left.
AcquireFlushLock(t) ==
  /\ \/ lock = 0 /\ Goto(t, "lock", "take") /\ lock' = LockTTL /\ UNCHANGED raced
     \/ /\ lock > 0
        /\ Goto(t, "lock", IF t \in Polls THEN "exists" ELSE After(t))
        /\ raced' = raced \cup ({t} \cap Events)
        /\ UNCHANGED lock
  /\ UNCHANGED <<buffer, ttl, checkpoint, tracked, timer, home, hand,
                 alone, batched, mishap>>

\* Mutant: the buffer is read and not deleted.
AtomicFlushKeeps(t) ==
  /\ Goto(t, "take", "unlock")
  /\ hand' = [hand EXCEPT ![t] = buffer]
  /\ raced' = IF t \in Events THEN raced ELSE raced \cup {e \in buffer : InFlight(e)}
  /\ UNCHANGED <<redis, tracked, timer, home, alone, batched, mishap>>

\* MULTI: ZRANGEBYSCORE and DEL.
AtomicFlush(t) ==
  /\ Goto(t, "take", "unlock")
  /\ hand' = [hand EXCEPT ![t] = buffer]
  /\ buffer' = {} /\ ttl' = 0
  /\ raced' = IF t \in Events THEN raced ELSE raced \cup {e \in buffer : InFlight(e)}
  /\ UNCHANGED <<lock, checkpoint, tracked, timer, home, alone, batched, mishap>>

\* DEL of the lock, whoever holds it by now, and of the entry, whatever has been
\* added by now.  send() makes nothing of the events that flush() returns.
Unlock(t) ==
  /\ lock' = 0
  /\ UntrackKey(Home(t))
  /\ \/ /\ t \in Events /\ Goto(t, "unlock", After(t))
        /\ hand' = [hand EXCEPT ![t] = {}]
     \/ /\ t \notin Events
        /\ Goto(t, "unlock", IF hand[t] = {} THEN After(t) ELSE "deliver")
        /\ UNCHANGED hand
  /\ Mishap(buffer # {})
  /\ UNCHANGED <<buffer, ttl, checkpoint, timer, home, alone, batched, raced>>

\* onFlush, which may take its time; what it throws is logged.
Deliver(t) ==
  /\ pc[t] = "deliver" /\ pc' = [pc EXCEPT ![t] = After(t)]
  /\ hand' = [hand EXCEPT ![t] = {}]
  /\ \/ "resolves" \in Consumer /\ batched' = batched \cup hand[t]
     \/ ("rejects" \in Consumer \/ Consumer = {}) /\ UNCHANGED batched
  /\ UNCHANGED <<redis, tracked, timer, home, alone, raced, mishap>>

\* EXISTS, after a poll was refused the lock.
Exists(p) ==
  /\ Goto(p, "exists", "idle")
  /\ IF buffer = {} THEN UntrackKey(Poller[p]) ELSE UNCHANGED tracked
  /\ UNCHANGED <<redis, timer, home, hand, fates>>

Dispatch(e) ==
  /\ pc[e] = "dispatch" /\ pc' = [pc EXCEPT ![e] = "sent"]
  /\ alone' = alone \cup {e}
  /\ UNCHANGED <<redis, tracked, timer, home, hand, batched, raced, mishap>>

-----------------------------------------------------------------------------
(* The poller, start() and stop().                                         *)

Fire(p) ==
  /\ pc[Poller[p]] = "up" /\ timer[Poller[p]] = 0
  /\ Goto(p, "idle", "checkpoint")
  /\ timer' = [timer EXCEPT ![Poller[p]] = Window]
  /\ UNCHANGED <<redis, tracked, home, hand, fates>>

Expired(i) == tracked[i] = Window

\* The checkpoint is brought up to date, then the digest is flushed if it is due.
Checkpoint(p) ==
  /\ Goto(p, "checkpoint", IF Expired(Poller[p]) THEN "lock" ELSE "idle")
  /\ checkpoint' = [checkpoint EXCEPT ![Poller[p]] = tracked[Poller[p]]]
  /\ UNCHANGED <<buffer, ttl, lock, tracked, timer, home, hand, fates>>

\* A process starts when nothing of the one before it is left.
Start(i) ==
  /\ pc[i] = "down" /\ \A t \in Events \cup Polls :
       Home(t) = i => pc[t] \in {"new", "idle", "digested", "sent", "gone"}
  /\ pc' = [pc EXCEPT ![i] = "load"]
  /\ UNCHANGED <<redis, tracked, timer, home, hand, fates>>

Load(i) ==
  /\ Goto(i, "load", "scan")
  /\ tracked' = [tracked EXCEPT ![i] = IF checkpoint[i] = NoEntry THEN @ ELSE checkpoint[i]]
  /\ UNCHANGED <<redis, timer, home, hand, fates>>

Scan(i) ==
  /\ Goto(i, "scan", "clean")
  /\ IF buffer = {} THEN UNCHANGED tracked ELSE TrackKey(i)
  /\ UNCHANGED <<redis, timer, home, hand, fates>>

Clean(i) ==
  /\ Goto(i, "clean", "up")
  /\ checkpoint' = [checkpoint EXCEPT ![i] = NoEntry]
  /\ timer' = [timer EXCEPT ![i] = Window]
  /\ UNCHANGED <<buffer, ttl, lock, tracked, home, hand, fates>>

Stop(i) ==
  /\ i \in Restarted
  /\ Goto(i, "up", IF tracked[i] = NoEntry THEN "forget" ELSE "lock")
  /\ timer' = [timer EXCEPT ![i] = 0]
  /\ UNCHANGED <<redis, tracked, home, hand, fates>>

\* stop() deletes the checkpoint, and the process quits Redis.
Forget(i) ==
  /\ Goto(i, "forget", "down")
  /\ checkpoint' = [checkpoint EXCEPT ![i] = NoEntry]
  /\ UntrackKey(i)
  /\ Mishap(buffer # {})
  /\ UNCHANGED <<buffer, ttl, lock, timer, home, hand, alone, batched, raced>>

-----------------------------------------------------------------------------
(* Faults and time.                                                        *)

\* A fault strikes; when faults do not recur the first to do harm is the last.
Strikes(fault) == fault \in Faults /\ (Recurring \/ ~mishap)

Unreachable(t) == Strikes("redis") \/ ~Alive(Home(t))

Fail(t, from, to) == pc[t] \in from /\ pc' = [pc EXCEPT ![t] = to]

\* addEvent() answers false: send() calls the event digested.
AddFails(e) ==
  /\ Unreachable(e) /\ (pc[e] = "new" => Strikes("redis"))
  /\ Fail(e, {"new", "count", "track", "track_full"}, "digested")
  /\ Mishap(pc[e] # "new")
  /\ UNCHANGED <<redis, tracked, timer, home, hand, alone, batched, raced>>

\* A flush that fails keeps its entry, what it took to itself, and its lock, unless
\* only the reply to the DEL was lost.
FlushFails(t) ==
  /\ Unreachable(t) /\ Fail(t, {"lock", "take", "unlock", "exists"}, After(t))
  /\ lock' = lock \/ (pc[t] = "unlock" /\ Alive(Home(t)) /\ lock' = 0)
  /\ raced' = IF pc[t] = "unlock" THEN raced ELSE raced \cup ({t} \cap Events)
  /\ hand' = [hand EXCEPT ![t] = {}]
  /\ Mishap(buffer # {})
  /\ UNCHANGED <<buffer, ttl, checkpoint, tracked, timer, home, alone, batched>>

CheckpointFails(p) ==
  /\ Unreachable(p)
  /\ Fail(p, {"checkpoint"}, IF Expired(Poller[p]) THEN "lock" ELSE "idle")
  /\ UNCHANGED <<redis, tracked, timer, home, hand, fates>>

\* start() goes on without recovery, stop() without deleting the checkpoint.
LifecycleFails(i) ==
  /\ Strikes("redis")
  /\ \/ /\ Fail(i, {"load", "scan", "clean"}, "up")
        /\ timer' = [timer EXCEPT ![i] = Window]
        /\ UNCHANGED <<tracked, mishap>>
     \/ /\ Fail(i, {"forget"}, "down")
        /\ UntrackKey(i)
        /\ Mishap(buffer # {})
        /\ UNCHANGED timer
  /\ UNCHANGED <<redis, home, hand, alone, batched, raced>>

\* The process dies, and everything it runs with it.
Crash(i) ==
  LET dead == {t \in Tasks : Home(t) = i} IN
  /\ Strikes("crash") /\ i \in Restarted /\ Alive(i)
  /\ pc' = [t \in Tasks |->
              IF t = i THEN "down"
              ELSE IF t \notin dead \/ pc[t] \in {"new", "digested", "sent"} THEN pc[t]
              ELSE IF t \in Events THEN "gone" ELSE "idle"]
  /\ hand' = [t \in Tasks |-> IF t \in dead THEN {} ELSE hand[t]]
  /\ UntrackKey(i)
  /\ timer' = [timer EXCEPT ![i] = 0]
  /\ Mishap(buffer # {})
  /\ UNCHANGED <<redis, home, alone, batched, raced>>

\* Tasks answer within a tick, onFlush apart, and timers fire when they are due.
Quiet ==
  /\ \A e \in Events : pc[e] \in {"new", "dispatch", "digested", "sent", "gone"}
  /\ \A p \in Polls : pc[p] \in {"idle", "deliver"}
  /\ \A i \in Instances : pc[i] \in {"down", "deliver"} \/ (pc[i] = "up" /\ timer[i] > 0)

Older(age) == IF age \in {NoEntry, Window} THEN age ELSE age + 1

Tick ==
  /\ Quiet \/ Strikes("stall")
  /\ Mishap(~Quiet)
  /\ buffer' = IF ttl = 1 THEN {} ELSE buffer
  /\ ttl' = IF ttl \in {0, Never} THEN ttl ELSE ttl - 1
  /\ lock' = IF lock = 0 THEN 0 ELSE lock - 1
  /\ checkpoint' = [i \in Instances |-> Older(checkpoint[i])]
  /\ tracked' = [i \in Instances |-> Older(tracked[i])]
  /\ timer' = [i \in Instances |-> IF pc[i] = "up" /\ timer[i] > 0 THEN timer[i] - 1 ELSE timer[i]]
  /\ UNCHANGED <<pc, home, hand, alone, batched, raced>>

Flush(t) == AcquireFlushLock(t) \/ AtomicFlush(t) \/ Unlock(t) \/ FlushFails(t)

Next ==
  \/ \E e \in Events : Add(e) \/ Count(e) \/ Track(e) \/ Dispatch(e) \/ AddFails(e)
  \/ \E t \in Tasks : Flush(t)
  \/ \E t \in Polls \cup Instances : Deliver(t)
  \/ \E p \in Polls :
       Fire(p) \/ Checkpoint(p) \/ Exists(p) \/ CheckpointFails(p)
  \/ \E i \in Instances :
       Start(i) \/ Load(i) \/ Scan(i) \/ Clean(i) \/ Stop(i) \/ Forget(i)
       \/ LifecycleFails(i) \/ Crash(i)
  \/ Tick

Spec == Init /\ [][Next]_vars

-----------------------------------------------------------------------------
(* Properties.                                                             *)

SendLabels == {"new", "count", "track", "track_full", "lock", "take", "unlock",
               "dispatch", "digested", "sent", "gone"}
PollLabels == {"idle", "checkpoint", "lock", "take", "unlock", "exists", "deliver"}
LifeLabels == {"down", "load", "scan", "clean", "up", "lock", "take", "unlock", "deliver",
               "forget"}

Labels(t) ==
  IF t \in Events THEN SendLabels ELSE IF t \in Polls THEN PollLabels ELSE LifeLabels

\* Every variable keeps its type: the Redis keys of the digest, the map and the
\* timer of each engine, and the tasks under way.
TypeOK ==
  /\ buffer \subseteq Events
  /\ ttl \in 0 .. Never
  /\ lock \in 0 .. LockTTL
  /\ checkpoint \in [Instances -> -1 .. Window]
  /\ tracked \in [Instances -> -1 .. Window]
  /\ timer \in [Instances -> 0 .. Window]
  /\ pc \in [Tasks -> SendLabels \cup PollLabels \cup LifeLabels]
  /\ \A t \in Tasks : pc[t] \in Labels(t)
  /\ home \in [Events -> Instances]
  /\ hand \in [Tasks -> SUBSET Events]
  /\ alone \subseteq Events /\ batched \subseteq Events /\ raced \subseteq Events
  /\ mishap \in BOOLEAN

\* An event is in one place at most.
Apart ==
  /\ \A t \in Tasks :
       /\ hand[t] \cap (buffer \cup batched) = {}
       /\ \A s \in Tasks \ {t} : hand[s] \cap hand[t] = {}
  /\ buffer \cap batched = {}

\* No event goes to onFlush twice, though the flush lock may run out under its
\* holder and be deleted by who no longer holds it: a flush empties the buffer in
\* the same MULTI that reads it.  An event goes out both alone and in a digest
\* only if another flush was under way as its own send() reached the threshold.
DeliveredOnce ==
  /\ Apart
  /\ alone \cap batched \subseteq raced

\* Somebody knows of the buffer: an engine has it in its map, or a send() is about
\* to put it there.
Kept ==
  \/ \E i \in Instances : tracked[i] # NoEntry
  \/ \E e \in Events : pc[e] \in {"count", "track", "track_full"}

\* A buffer with events in it is known to some instance, except after one of these:
\* it was refilled while a flush was removing its entry, an instance stopped or
\* died and left it behind, or Redis failed in the middle of addEvent().
NothingForgotten == buffer # {} /\ ~mishap => Kept

\* Why DeliveredOnce holds: where a send stands tells where its event can be.
Undecided(e) == InFlight(e) \/ pc[e] \in {"unlock", "dispatch", "sent"}

WhereIs(e) ==
  /\ pc[e] = "new" => e \notin buffer \cup batched /\ \A t \in Tasks : e \notin hand[t]
  /\ Undecided(e) /\ e \notin raced =>
       e \notin batched /\ \A t \in Tasks \ Events : e \notin hand[t]
  /\ pc[e] \in {"unlock", "dispatch", "sent"} /\ e \notin raced => e \notin buffer
  /\ e \in alone => pc[e] = "sent"

DigestInv == TypeOK /\ Apart /\ (\A e \in Events : WhereIs(e)) /\ NothingForgotten

\* With a window no longer than the grace period, and a flush lock that lives no
\* longer either, a buffered event is flushed before its buffer expires, wherever it
\* falls between two runs of the poller and whatever lock a flush that failed over
\* an empty buffer left behind, unless one of these, or a stall, happened.
NothingExpires ==
  Window <= Grace /\ LockTTL <= Grace /\ ~mishap /\ Quiet /\ buffer # {} => ttl > 1

\* The comment at the threshold says that the digest consumer will handle the
\* batched payload: an event that send() called digested is in the buffer, on its
\* way to onFlush, or there.
BatchHandled ==
  \A e \in Events :
    pc[e] = "digested" => e \in buffer \cup batched \cup UNION {hand[t] : t \in Tasks}
=============================================================================
