-------------------------------- MODULE Client --------------------------------
(***************************************************************************)
(* The JavaScript client: connecting and disconnecting, its WebSocket       *)
(* adapter, and the queue of actions taken while offline                    *)
(* (packages/js/src/client.ts, transport/websocket.ts, queue/action-queue). *)
(*                                                                         *)
(* A step runs from one await or callback to the next.  Attempt k to connect *)
(* makes adapter k; an action is its place in the order of the user's calls. *)
(* The storage answers what it was asked in order, and may reject any of it.  *)
(***************************************************************************)
EXTENDS Naturals, Sequences, SequencesExt

CONSTANTS
  MaxConnects,  \* bound on the calls of connect()
  MaxActions,   \* bound on the user's actions
  MaxReloads,   \* bound on restarts of the application
  MaxSize       \* maxQueueSize

ASSUME ClientAssumption ==
  MaxConnects \in Nat /\ MaxActions \in Nat /\ MaxReloads \in Nat /\ MaxSize \in Nat \ {0}

Attempts == 1 .. MaxConnects
Actions == 1 .. MaxActions
Unsaved == <<0>>    \* nothing under the storage key

VARIABLES
  connected, connecting,
  current,      \* the attempt whose generation is the client's, 0 after disconnect()
  transport,    \* the adapter installed, 0 when null
  attempt,      \* where each call of connect() stands
  adapter,      \* the state of each adapter
  wired,        \* adapters whose callbacks reach the client
  queue,        \* the actions queued, in memory
  stored,       \* the queue in the storage
  disk,         \* what the storage was asked and has not answered, in order
  flushing,     \* where the flush stands
  replaying,    \* the action it replays
  calls,        \* actions whose own request is under way
  taken,        \* number of actions so far
  reloads,
  latest,       \* the server: the action it applied last, 0 before any
  settled,      \* history: actions that succeeded, whose failure was reported, or
                \*   whose call a restart has cut off
  evicted,      \* history: actions dropped from a full queue
  unrestored,   \* history: a restart left a queue in the storage that is not restored yet
  leaked,       \* history: adapters the client lost track of, still alive
  raced,        \* history: an action met a restore, or a full queue in a flush, or a
                \*   restore met a replay
  mixed         \* history: an action overlapped another, or was not saved, or failed

connVars == <<connected, connecting, current, transport, attempt, adapter, wired>>
queueVars == <<queue, stored, disk, flushing, replaying, unrestored>>
actionVars == <<calls, taken, reloads, latest, settled, evicted>>
vars == <<connVars, queueVars, actionVars, leaked, raced, mixed>>

Init ==
  /\ connected = FALSE /\ connecting = FALSE
  /\ current = 0 /\ transport = 0
  /\ attempt = [k \in Attempts |-> "unused"]
  /\ adapter = [k \in Attempts |-> "none"]
  /\ wired = {}
  /\ queue = <<>> /\ stored = Unsaved /\ disk = <<>> /\ unrestored = FALSE
  /\ flushing = "no" /\ replaying = 0
  /\ calls = {} /\ taken = 0 /\ reloads = 0 /\ latest = 0
  /\ settled = {} /\ evicted = {} /\ leaked = {}
  /\ raced = FALSE /\ mixed = FALSE

Restoring == \E k \in Attempts : attempt[k] = "restoring"

-----------------------------------------------------------------------------
(* The storage.                                                            *)

Put(a, q) == [attempt |-> 0, action |-> a, value |-> q]      \* a is 0 for a flush
Get(k)    == [attempt |-> k, action |-> 0, value |-> <<>>]

Ask(request) == disk' = Append(disk, request)

\* The storage answers this request next.
Due(k, a) == disk # <<>> /\ Head(disk).attempt = k /\ Head(disk).action = a

Answered == disk' = Tail(disk)

Written == stored' = Head(disk).value

\* Calls that wait for their action to be saved, and what may yet be written.
Saving == {r.action : r \in ToSet(disk)} \ {0}
Writing == {r.value : r \in {q \in ToSet(disk) : q.attempt = 0}}

-----------------------------------------------------------------------------
(* The queue.                                                              *)

\* flush(): nothing to do while another flush runs or the queue is empty.
StartFlush ==
  IF flushing = "no" /\ queue # <<>>
  THEN flushing' = "replay" /\ replaying' = Head(queue)
  ELSE UNCHANGED <<flushing, replaying>>

\* Mutant: a full queue drops the action that was just taken.
EnqueueDropsNewest(a) ==
  /\ queue' = IF Len(queue) >= MaxSize THEN queue ELSE Append(queue, a)
  /\ evicted' = IF Len(queue) >= MaxSize THEN evicted \cup {a} ELSE evicted
  /\ Ask(Put(a, queue'))

\* Mutant: the queue has no limit.
EnqueueUnlimited(a) ==
  /\ queue' = Append(queue, a)
  /\ Ask(Put(a, queue'))
  /\ UNCHANGED evicted

\* enqueue(): a full queue drops its oldest action first; the call waits until the
\* queue is saved.
Enqueue(a) ==
  /\ queue' = Append(IF Len(queue) >= MaxSize THEN Tail(queue) ELSE queue, a)
  /\ evicted' = IF Len(queue) >= MaxSize THEN evicted \cup {Head(queue)} ELSE evicted
  /\ Ask(Put(a, queue'))

\* The call is answered; or it throws, and the action is in the memory only.
Enqueued(a) ==
  /\ Due(0, a) /\ Answered
  /\ \/ Written /\ UNCHANGED <<settled, mixed>>
     \/ UNCHANGED stored /\ settled' = settled \cup {a} /\ mixed' = TRUE
  /\ UNCHANGED <<connVars, queue, flushing, replaying, unrestored, calls, taken, reloads,
                 latest, evicted, leaked, raced>>

\* The replay of the oldest action succeeds, or fails twice and is reported: the
\* queue then drops what is first by now, and the rest is to be saved.
Dequeue ==
  /\ queue' = IF queue = <<>> THEN <<>> ELSE Tail(queue)
  /\ Ask(Put(0, queue'))
  /\ settled' = settled \cup {replaying}
  /\ flushing' = "save"

\* A request that fails may have been carried out all the same.
Replay ==
  /\ \/ flushing \in {"replay", "retry"} /\ latest' = replaying /\ Dequeue /\ UNCHANGED mixed
     \/ /\ flushing = "replay" /\ flushing' = "retry"
        /\ latest' \in {latest, replaying}
        /\ UNCHANGED <<queue, disk, settled, mixed>>
     \/ /\ flushing = "retry" /\ latest' \in {latest, replaying}
        /\ Dequeue
        /\ mixed' = TRUE
  /\ UNCHANGED <<connVars, stored, replaying, unrestored, calls, taken, reloads, evicted,
                 leaked, raced>>

\* The flush ends, and with it the connect() that waited for it.
EndFlush ==
  /\ flushing' = "no" /\ replaying' = 0
  /\ attempt' = [k \in Attempts |-> IF attempt[k] = "flushing" THEN "done" ELSE attempt[k]]
  /\ connecting' = (connecting /\ attempt' = attempt)

\* Mutant: the flush clears the storage instead of saving what is left.
SavedEmpty ==
  /\ Due(0, 0) /\ Answered
  /\ IF queue # <<>>
     THEN /\ flushing' = "replay" /\ replaying' = Head(queue)
          /\ UNCHANGED <<attempt, connecting>>
     ELSE EndFlush
  /\ stored' = <<>>
  /\ UNCHANGED <<connected, current, transport, adapter, wired, queue, unrestored,
                 actionVars, leaked, raced, mixed>>

\* The queue is saved: the flush goes on with what is first now, or ends.
Saved ==
  /\ Due(0, 0) /\ Answered /\ Written
  /\ IF queue # <<>>
     THEN /\ flushing' = "replay" /\ replaying' = Head(queue)
          /\ UNCHANGED <<attempt, connecting>>
     ELSE EndFlush
  /\ UNCHANGED <<connected, current, transport, adapter, wired, queue, unrestored,
                 actionVars, leaked, raced, mixed>>

\* The queue cannot be saved: the flush ends whatever is queued, and the connect()
\* that waited for it throws, although the client is connected.
SaveFails ==
  /\ Due(0, 0) /\ Answered
  /\ EndFlush
  /\ mixed' = TRUE
  /\ UNCHANGED <<connected, current, transport, adapter, wired, queue, stored, unrestored,
                 actionVars, leaked, raced>>

-----------------------------------------------------------------------------
(* The user's actions.                                                     *)

MeetsQueue ==
  \/ Restoring
  \/ flushing # "no" /\ Len(queue) >= MaxSize
  \/ unrestored

Busy == calls # {} \/ flushing # "no"

\* markAsRead() and its like: offline the action is queued, online it is sent.
\* A queue that was not restored after a reload is saved over the stored one.
Act ==
  LET a == taken + 1 IN
  /\ taken < MaxActions
  /\ taken' = a
  /\ IF connected THEN calls' = calls \cup {a} /\ UNCHANGED <<queue, disk, evicted>>
                  ELSE Enqueue(a) /\ UNCHANGED calls
  /\ raced' = (raced \/ (~connected /\ MeetsQueue))
  /\ mixed' = (mixed \/ Busy)
  /\ UNCHANGED <<connVars, stored, flushing, replaying, unrestored, reloads, latest,
                 settled, leaked>>

\* The answer of the action's own request.
Answer(a) ==
  /\ a \in calls
  /\ calls' = calls \ {a}
  /\ \/ latest' = a /\ UNCHANGED mixed
     \/ latest' \in {latest, a} /\ mixed' = TRUE
  /\ settled' = settled \cup {a}
  /\ UNCHANGED <<connVars, queueVars, taken, reloads, evicted, leaked, raced>>

-----------------------------------------------------------------------------
(* Connecting.                                                             *)

SetAdapter(k, s) == adapter' = [adapter EXCEPT ![k] = s]

\* connect(): restore() asks for what is stored.
Connect(k) ==
  /\ ~connected /\ ~connecting
  /\ attempt[k] = "unused" /\ \A j \in 1 .. (k - 1) : attempt[j] # "unused"
  /\ connecting' = TRUE /\ current' = k
  /\ attempt' = [attempt EXCEPT ![k] = "restoring"]
  /\ Ask(Get(k))
  /\ UNCHANGED <<connected, transport, adapter, wired, queue, stored, flushing, replaying,
                 unrestored, actionVars, leaked, raced, mixed>>

\* What is stored replaces the queue, whatever became of it since; an attempt that
\* was overtaken ends here.
Restore(k) ==
  /\ attempt[k] = "restoring" /\ Due(k, 0) /\ Answered
  /\ queue' = IF stored = Unsaved THEN queue ELSE stored
  /\ unrestored' = FALSE
  /\ raced' = (raced \/ (queue' # queue /\ flushing \in {"replay", "retry"}))
  /\ mixed' = (mixed \/ (queue' # queue /\ flushing # "no"))
  /\ IF current = k
     THEN /\ attempt' = [attempt EXCEPT ![k] = "opening"]
          /\ SetAdapter(k, "opening")
          /\ UNCHANGED connecting
     ELSE /\ attempt' = [attempt EXCEPT ![k] = "done"]
          /\ connecting' = FALSE
          /\ UNCHANGED adapter
  /\ UNCHANGED <<connected, current, transport, wired, stored, flushing, replaying,
                 actionVars, leaked>>

\* The storage cannot be read: connect() throws before it has made an adapter.
RestoreFails(k) ==
  /\ attempt[k] = "restoring" /\ Due(k, 0) /\ Answered
  /\ attempt' = [attempt EXCEPT ![k] = "done"]
  /\ connecting' = FALSE
  /\ UNCHANGED <<connected, current, transport, adapter, wired, queue, stored, flushing,
                 replaying, unrestored, actionVars, leaked, raced, mixed>>

\* Mutant: an attempt that was overtaken keeps its adapter.
OpenRegardless(k) ==
  /\ attempt[k] = "opening"
  /\ current # k
  /\ SetAdapter(k, "open")
  /\ attempt' = [attempt EXCEPT ![k] = "done"]
  /\ connecting' = FALSE
  /\ UNCHANGED <<connected, current, transport, wired, queueVars, actionVars,
                 leaked, raced, mixed>>

\* The socket opens for an attempt that has been overtaken: it is closed again.
\* The flag it resets may be that of the attempt that overtook it.
OpenOvertaken(k) ==
  /\ attempt[k] = "opening"
  /\ current # k
  /\ SetAdapter(k, "off")
  /\ attempt' = [attempt EXCEPT ![k] = "done"]
  /\ connecting' = FALSE
  /\ UNCHANGED <<connected, current, transport, wired, queueVars, actionVars,
                 leaked, raced, mixed>>

\* The socket opens: the adapter is installed, in the place of one that may be
\* reconnecting on its own, and the queue is flushed.
Open(k) ==
  /\ attempt[k] = "opening"
  /\ current = k
  /\ SetAdapter(k, "open")
  /\ leaked' = IF transport = 0 THEN leaked ELSE leaked \cup {transport}
  /\ transport' = k
  /\ wired' = wired \cup {k}
  /\ connected' = TRUE
  /\ StartFlush
  /\ attempt' = [attempt EXCEPT ![k] = IF flushing' = flushing THEN "done" ELSE "flushing"]
  /\ connecting' = (flushing' # flushing)
  /\ UNCHANGED <<current, queue, stored, disk, unrestored, actionVars, raced, mixed>>

\* The socket does not open, and connect() throws.  After an error event the
\* adapter that nobody holds goes on trying; after a mere close it is off.
OpenFails(k) ==
  /\ attempt[k] = "opening"
  /\ \/ SetAdapter(k, "waiting") /\ leaked' = leaked \cup {k}
     \/ SetAdapter(k, "off") /\ UNCHANGED leaked
  /\ attempt' = [attempt EXCEPT ![k] = "done"]
  /\ connecting' = FALSE
  /\ UNCHANGED <<connected, current, transport, wired, queueVars, actionVars,
                 raced, mixed>>

\* disconnect(): an adapter that waits for its token cannot be called off.
Disconnect ==
  /\ connecting \/ connected \/ transport # 0
  /\ connecting' = FALSE /\ current' = 0 /\ connected' = FALSE /\ transport' = 0
  /\ IF transport = 0 THEN UNCHANGED <<adapter, leaked>>
     ELSE IF adapter[transport] = "token"
     THEN SetAdapter(transport, "late") /\ leaked' = leaked \cup {transport}
     ELSE SetAdapter(transport, "off") /\ UNCHANGED leaked
  /\ UNCHANGED <<attempt, wired, queueVars, actionVars, raced, mixed>>

-----------------------------------------------------------------------------
(* The adapter on its own.                                                 *)

SameQueue == UNCHANGED <<queueVars, actionVars, raced, mixed>>

\* The socket is lost: onerror or the heartbeat tells the client, onclose alone
\* does not; one that was closed on purpose stays closed.
Lose(k) ==
  /\ adapter[k] \in {"open", "late_open"}
  /\ SetAdapter(k, IF adapter[k] = "open" THEN "waiting" ELSE "off")
  /\ connected' \in {connected, connected /\ k \notin wired}
  /\ UNCHANGED <<connecting, current, transport, attempt, wired, leaked>>
  /\ SameQueue

\* The timer of scheduleReconnect() fires: the token is asked for first.
Retry(k) ==
  /\ adapter[k] = "waiting"
  /\ SetAdapter(k, "token")
  /\ UNCHANGED <<connected, connecting, current, transport, attempt, wired, leaked>>
  /\ SameQueue

\* The token is there and the socket opens: onReconnect.
Reopen(k) ==
  /\ adapter[k] \in {"token", "late"}
  /\ SetAdapter(k, IF adapter[k] = "token" THEN "open" ELSE "late_open")
  /\ IF k \in wired THEN connected' = TRUE /\ StartFlush
                    ELSE UNCHANGED <<connected, flushing, replaying>>
  /\ UNCHANGED <<connecting, current, transport, attempt, wired, leaked,
                 queue, stored, disk, unrestored, actionVars, raced, mixed>>

\* No token, or a close without an error, and nothing tries again; or an error,
\* and onclose tries again unless the close was on purpose.
RetryFails(k) ==
  /\ adapter[k] \in {"token", "late"}
  /\ \/ SetAdapter(k, "off") /\ UNCHANGED connected
     \/ /\ SetAdapter(k, IF adapter[k] = "token" THEN "waiting" ELSE "off")
        /\ connected' = (connected /\ k \notin wired)
  /\ UNCHANGED <<connecting, current, transport, attempt, wired, leaked>>
  /\ SameQueue

\* The application starts anew: only the storage is left, with more or less of what
\* it was asked to save.  Requests under way may still be carried out.
Reload ==
  /\ reloads < MaxReloads /\ reloads' = reloads + 1
  /\ connected' = FALSE /\ connecting' = FALSE /\ current' = 0 /\ transport' = 0
  /\ attempt' = [k \in Attempts |-> IF attempt[k] = "unused" THEN "unused" ELSE "done"]
  /\ adapter' = [k \in Attempts |-> IF adapter[k] = "none" THEN "none" ELSE "off"]
  /\ wired' = {} /\ leaked' = {}
  /\ queue' = <<>> /\ flushing' = "no" /\ replaying' = 0
  /\ stored' \in {stored} \cup Writing /\ disk' = <<>>
  /\ unrestored' = (stored' \notin {Unsaved, <<>>})
  /\ calls' = {} /\ settled' = settled \cup calls \cup Saving
  /\ latest' \in {latest} \cup calls
                  \cup IF flushing \in {"replay", "retry"} THEN {replaying} ELSE {}
  /\ mixed' = (mixed \/ calls \cup Saving # {})
  /\ UNCHANGED <<taken, evicted, raced>>

Own(k) == Restore(k) \/ RestoreFails(k) \/ OpenOvertaken(k) \/ Open(k) \/ OpenFails(k)
Socket(k) == Lose(k) \/ Retry(k) \/ Reopen(k) \/ RetryFails(k)

Next ==
  \/ \E k \in Attempts : Connect(k) \/ Own(k) \/ Socket(k)
  \/ Disconnect \/ Act \/ (\E a \in Actions : Answer(a) \/ Enqueued(a))
  \/ Replay \/ Saved \/ SaveFails \/ Reload

Spec == Init /\ [][Next]_vars

-----------------------------------------------------------------------------
(* Properties.                                                             *)

TypeOK ==
  /\ connected \in BOOLEAN /\ connecting \in BOOLEAN
  /\ current \in 0 .. MaxConnects /\ transport \in 0 .. MaxConnects
  /\ attempt \in [Attempts -> {"unused", "restoring", "opening", "flushing", "done"}]
  /\ adapter \in [Attempts -> {"none", "opening", "open", "waiting", "token", "late",
                               "late_open", "off"}]
  /\ wired \subseteq Attempts /\ leaked \subseteq Attempts
  /\ queue \in Seq(Actions) /\ Len(queue) <= MaxSize /\ stored \in Seq(0 .. MaxActions)
  /\ disk \in Seq([attempt : 0 .. MaxConnects, action : 0 .. MaxActions,
                   value : Seq(Actions)])
  /\ flushing \in {"no", "replay", "retry", "save"} /\ replaying \in 0 .. MaxActions
  /\ calls \subseteq Actions /\ settled \subseteq Actions /\ evicted \subseteq Actions
  /\ taken \in 0 .. MaxActions /\ latest \in 0 .. MaxActions /\ reloads \in 0 .. MaxReloads
  /\ unrestored \in BOOLEAN /\ raced \in BOOLEAN /\ mixed \in BOOLEAN

\* Every action is carried out, reported as failed (its save included), dropped from
\* a full queue, or still kept, through lost connections, restarts at any moment and
\* a storage that rejects.  What a restart leaves is what the storage has, so an
\* action whose call was answered is in the storage too; one whose call was cut off
\* may be lost.  The other ways to lose an action are a call that meets a restore, a
\* full queue in a flush, or a stored queue that has not been restored, and a restore
\* that changes the queue in the middle of a replay.
NothingLost ==
  ~raced => 1 .. taken \subseteq settled \cup evicted \cup calls \cup ToSet(queue)
                                 \cup IF unrestored THEN ToSet(stored) ELSE {}

\* Once nothing is queued, stored or under way, the server has applied the latest
\* action last, unless an action overlapped a request, a flush or a restart, or
\* failed, or was not saved, or a restore changed the queue in a flush.
Quiet == calls = {} /\ flushing = "no" /\ queue = <<>> /\ stored \in {Unsaved, <<>>}

LastActionWins == Quiet /\ ~raced /\ ~mixed => latest = taken

\* The client calls itself connected only with a transport, and a socket that is
\* alive is the transport's or that of an attempt: everything else was leaked by
\* a first connection that failed, a second connect() while the transport was
\* reconnecting, or a disconnect() while it waited for a token.
Alive(k) == adapter[k] \in {"opening", "open", "waiting", "token", "late", "late_open"}

SocketsAccountedFor ==
  /\ connected => transport # 0 \/ leaked # {}
  /\ \A k \in Attempts :
       Alive(k) => k \in leaked \/ (k = transport /\ attempt[k] \in {"flushing", "done"})
                                \/ attempt[k] = "opening"
=============================================================================
