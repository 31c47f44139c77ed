------------------------------- MODULE Realtime -------------------------------
(***************************************************************************)
(* How a notification reaches the client: the connection registry of each   *)
(* server instance, the Redis stream that joins them, and the catch-up of a  *)
(* socket that reconnects (packages/server/src/transport/registry.ts and     *)
(* ws-handler.ts, with the messages of the client's WebSocket adapter).      *)
(*                                                                         *)
(* One subscriber. Notifications are numbered as they are created, which is *)
(* the order of their ids in the stream. An instance has one connection to   *)
(* Redis: its commands are executed, and their replies come, in the order   *)
(* they were issued. A command is executed in the step that issues it.       *)
(***************************************************************************)
EXTENDS Client, FiniteSets

CONSTANTS
  Instances,
  Nowhere,       \* no instance
  MaxEntries,    \* bound on the notifications
  CatchUpLimit,  \* how many entries a catch-up reads
  MaxPolls,      \* bound on the polls of an instance under way
  MaxErrors      \* bound on failing commands and dying instances

ASSUME RealtimeAssumption ==
  /\ Nowhere \notin Instances
  /\ MaxEntries \in Nat /\ CatchUpLimit \in Nat \ {0}
  /\ MaxPolls \in Nat /\ MaxErrors \in Nat

Entries == 1 .. MaxEntries

VARIABLES
  posted,    \* notifications created so far
  stream,    \* those in the Redis stream
  replies,   \* the replies each instance waits for, in their order
  cursor,    \* lastReadIds of each instance, 0 when unset
  own,       \* localStreamIds of each instance
  home,      \* where the socket of each adapter is registered and alive
  ghosts,    \* instances with registered sockets that are dead
  lastId,    \* lastEventId of each adapter, 0 when unset
  resumeId,  \* lastEventId of the client
  seen,      \* how often each is in the client's list, 2 for more
  errors,
  passedBy,  \* history: notifications an id may pass without the client having seen them
  doubled    \* history: something that may bring a notification twice has happened

serverVars == <<posted, stream, replies, cursor, own, ghosts, errors>>
clientSide == <<home, lastId, resumeId, seen, passedBy, doubled>>
realtimeVars == <<vars, serverVars, clientSide>>

RealtimeInit ==
  /\ Init
  /\ posted = 0 /\ stream = {}
  /\ replies = [i \in Instances |-> <<>>]
  /\ cursor = [i \in Instances |-> 0]
  /\ own = [i \in Instances |-> {}]
  /\ home = [k \in Attempts |-> Nowhere]
  /\ ghosts = {}
  /\ lastId = [k \in Attempts |-> 0] /\ resumeId = 0
  /\ seen = [n \in Entries |-> 0]
  /\ errors = 0
  /\ passedBy = {} /\ doubled = FALSE

-----------------------------------------------------------------------------
(* Commands and messages.                                                  *)

Reply(command, entries, socket) ==
  [command |-> command, entries |-> entries, socket |-> socket]

Issue(i, reply) == replies' = [replies EXCEPT ![i] = Append(@, reply)]

\* The next reply at i is to this command.
Comes(i, command) == replies[i] # <<>> /\ Head(replies[i]).command = command

Taken(i) == replies' = [replies EXCEPT ![i] = Tail(@)]

Coming(i, commands) ==
  UNION {r.entries : r \in {q \in ToSet(replies[i]) : q.command \in commands}}

Waits(i, commands) == \E r \in ToSet(replies[i]) : r.command \in commands

Sockets(i) == {k \in Attempts : home[k] = i}

\* The client's list takes every notification, known or not.
Show(S, K) ==
  LET copies == Cardinality(K \cap wired) IN
  seen' = [n \in Entries |-> IF n \notin S THEN seen[n]
                             ELSE IF seen[n] + copies > 2 THEN 2 ELSE seen[n] + copies]

\* Entries of the stream are written to the sockets K, oldest first: the id of the
\* last one is the adapter's, and the client's, from then on.
Write(S, K) ==
  /\ Show(S, K)
  /\ lastId' = [k \in Attempts |-> IF k \in K /\ S # {} THEN Max(S) ELSE lastId[k]]
  /\ resumeId' = IF K \cap wired # {} /\ S # {} THEN Max(S) ELSE resumeId
  /\ doubled' = (doubled \/ \E k \in K : S # {} /\ Max(S) < lastId[k])
  /\ UNCHANGED <<home, passedBy>>

-----------------------------------------------------------------------------
(* broadcast().                                                            *)

\* A notification is created on instance i: XADD.
Post(i) ==
  /\ posted < MaxEntries
  /\ posted' = posted + 1
  /\ stream' = stream \cup {posted'}
  /\ Issue(i, Reply("add", {posted'}, 0))
  /\ UNCHANGED <<vars, cursor, own, ghosts, errors, clientSide>>

\* XADD fails: the notification goes to the sockets of this instance, without an id.
PostUnstreamed(i) ==
  /\ posted < MaxEntries /\ errors < MaxErrors
  /\ posted' = posted + 1 /\ errors' = errors + 1
  /\ Show({posted'}, Sockets(i))
  /\ UNCHANGED <<vars, stream, replies, cursor, own, ghosts,
                 home, lastId, resumeId, passedBy, doubled>>

\* The id: the cursor moves to it, past what others have written before and no
\* poll has read; XTRIM.
Added(i) ==
  /\ Comes(i, "add")
  /\ LET n == Max(Head(replies[i]).entries) IN
     /\ replies' = [replies EXCEPT ![i] = Append(Tail(@), Reply("trim", {n}, 0))]
     /\ own' = [own EXCEPT ![i] = @ \cup {n}]
     /\ cursor' = [cursor EXCEPT ![i] = n]
     /\ passedBy' = IF Sockets(i) = {} THEN passedBy
                    ELSE passedBy \cup
                         ({m \in stream : cursor[i] < m /\ m < n} \ Coming(i, {"read"}))
  /\ UNCHANGED <<vars, posted, stream, ghosts, errors,
                 home, lastId, resumeId, seen, doubled>>

\* The reply is lost: written out without an id, and not known as its own.
AddUnanswered(i) ==
  /\ Comes(i, "add") /\ Taken(i)
  /\ errors < MaxErrors /\ errors' = errors + 1
  /\ Show(Head(replies[i]).entries, Sockets(i))
  /\ doubled' = TRUE
  /\ UNCHANGED <<vars, posted, stream, cursor, own, ghosts, home, lastId, resumeId, passedBy>>

\* Mutant: where XTRIM fails, the notification is not written out.
TrimmedAbandoned(i) ==
  /\ Comes(i, "trim") /\ Taken(i)
  /\ \/ Write(Head(replies[i]).entries, Sockets(i))
     \/ UNCHANGED clientSide
  /\ UNCHANGED <<vars, posted, stream, cursor, own, ghosts, errors>>

\* XTRIM has answered, or failed: broadcastLocal().
Trimmed(i) ==
  /\ Comes(i, "trim") /\ Taken(i)
  /\ Write(Head(replies[i]).entries, Sockets(i))
  /\ UNCHANGED <<vars, posted, stream, cursor, own, ghosts, errors>>

-----------------------------------------------------------------------------
(* pollStreams().                                                          *)

\* XREAD behind the cursor, for who has sockets here; without a cursor it reads
\* behind the end of the stream, which is nothing.
PollStream(i) ==
  LET unread == {n \in stream : n > cursor[i]} IN
  /\ Sockets(i) # {} \/ i \in ghosts
  /\ cursor[i] # 0 /\ unread # {}
  /\ Cardinality({q \in DOMAIN replies[i] : replies[i][q].command = "read"}) < MaxPolls
  /\ Issue(i, Reply("read", unread, 0))
  /\ doubled' = (doubled \/ Waits(i, {"read"}))
  /\ UNCHANGED <<vars, posted, stream, cursor, own, ghosts, errors,
                 home, lastId, resumeId, seen, passedBy>>

\* What was written here is skipped; the rest goes to the sockets.
PollAnswered(i) ==
  /\ Comes(i, "read") /\ Taken(i)
  /\ LET read == Head(replies[i]).entries IN
     /\ cursor' = [cursor EXCEPT ![i] = Max(read)]
     /\ own' = [own EXCEPT ![i] = @ \ read]
     /\ Write(read \ own[i], Sockets(i))
  /\ UNCHANGED <<vars, posted, stream, ghosts, errors>>

\* XREAD fails: what it read is read again, except what a notification of this
\* instance has moved the cursor past since.
PollFails(i) ==
  /\ Comes(i, "read") /\ Taken(i)
  /\ errors < MaxErrors /\ errors' = errors + 1
  /\ passedBy' = passedBy \cup {n \in Head(replies[i]).entries : n < cursor[i]}
  /\ UNCHANGED <<vars, posted, stream, cursor, own, ghosts,
                 home, lastId, resumeId, seen, doubled>>

-----------------------------------------------------------------------------
(* Sockets.                                                                *)

\* Mutant: XRANGE from the last id on, that one included.
MissedInclusive(k) == {n \in stream : n >= lastId[k]}

\* What a socket that comes with a last id has missed.
Missed(k) == {n \in stream : n > lastId[k]}

\* XRANGE ... COUNT 100.
CatchUp(k) == {n \in Missed(k) : Cardinality({m \in Missed(k) : m <= n}) <= CatchUpLimit}

\* i may still send something of the stream as it is now.
Behind(i) ==
  \/ Waits(i, {"add", "trim", "read"})
  \/ cursor[i] # 0 /\ \E n \in stream : n > cursor[i]

\* What was on its way to a socket of i with a lower id than the last it has had.
Overtaken(k) ==
  {n \in UNION {r.entries : r \in {q \in ToSet(replies[home[k]]) :
                                     q.command # "range" \/ q.socket = k}} : n < lastId[k]}

Forsaken(K) == UNION {Overtaken(k) : k \in {j \in K : home[j] # Nowhere}}

\* catchUp() writes to an open socket only.
Voided(r, K) == IF r.command = "range" /\ r.socket \in K THEN Reply("range", {}, 0) ELSE r

\* A socket of k opens on i: register(), then XRANGE if it brings an id. What was
\* there before is not sent to one without.
Register(k, i) ==
  /\ home' = [home EXCEPT ![k] = i]
  /\ IF lastId[k] # 0
     THEN /\ Issue(i, Reply("range", CatchUp(k), k))
          /\ passedBy' = passedBy \cup (Missed(k) \ CatchUp(k))
          /\ doubled' = (doubled \/ Behind(i)
                                 \/ (k \in wired' /\ lastId[k] # resumeId)
                                 \/ \E j \in wired : home[j] # Nowhere)
     ELSE /\ UNCHANGED replies
          /\ passedBy' = passedBy \cup stream
          /\ doubled' = (doubled \/ (k \in wired' /\ resumeId # 0)
                                 \/ \E j \in wired : home[j] # Nowhere)
  /\ UNCHANGED <<ghosts, lastId, resumeId, seen>>

\* The sockets of K are closed: their instances have yet to unregister them.
Abandon(K) ==
  /\ home' = [k \in Attempts |-> IF k \in K THEN Nowhere ELSE home[k]]
  /\ ghosts' = (ghosts \cup {home[k] : k \in K}) \ {Nowhere}
  /\ replies' = [i \in Instances |-> [q \in DOMAIN replies[i] |-> Voided(replies[i][q], K)]]

Linked(state) == state \in {"open", "late_open"}

\* The sockets that a step of the client closes, and the adapters it makes.
Closed  == {k \in Attempts : Linked(adapter[k]) /\ ~Linked(adapter'[k])}
Created == {k \in Attempts : adapter[k] = "none" /\ adapter'[k] = "opening"}

\* A step of the client (module Client): sockets open and close with it, a new
\* adapter takes over the client's last id, whatever is on its way to another one,
\* and a restart forgets everything.
ClientStep ==
  /\ Next
  /\ \/ \E k \in Attempts : /\ Linked(adapter'[k]) /\ ~Linked(adapter[k])
                            /\ \E i \in Instances : Register(k, i)
     \/ /\ \A k \in Attempts : Linked(adapter'[k]) => Linked(adapter[k])
        /\ Abandon(Closed)
        /\ passedBy' = passedBy \cup Forsaken(IF Created = {} THEN Closed ELSE wired)
        /\ IF reloads' # reloads
           THEN /\ lastId' = [k \in Attempts |-> 0] /\ resumeId' = 0
                /\ seen' = [n \in Entries |-> 0]
           ELSE /\ lastId' = [k \in Attempts |-> IF k \in Created THEN resumeId ELSE lastId[k]]
                /\ UNCHANGED <<resumeId, seen>>
        /\ UNCHANGED doubled
  /\ UNCHANGED <<posted, stream, cursor, own, errors>>

\* catchUp() writes what it has read, whatever was written meanwhile.
CaughtUp(i) ==
  /\ Comes(i, "range") /\ Taken(i)
  /\ Write(Head(replies[i]).entries, {Head(replies[i]).socket})
  /\ UNCHANGED <<vars, posted, stream, cursor, own, ghosts, errors>>

CatchUpFails(i) ==
  /\ Comes(i, "range") /\ Taken(i)
  /\ Head(replies[i]).entries # {}
  /\ errors < MaxErrors /\ errors' = errors + 1
  /\ passedBy' = passedBy \cup Head(replies[i]).entries
  /\ UNCHANGED <<vars, posted, stream, cursor, own, ghosts,
                 home, lastId, resumeId, seen, doubled>>

\* The network carries nothing any more, which neither side knows yet.
Cut(k) ==
  /\ home[k] # Nowhere
  /\ Abandon({k}) /\ passedBy' = passedBy \cup Forsaken({k})
  /\ UNCHANGED <<vars, posted, stream, cursor, own, errors, lastId, resumeId, seen, doubled>>

\* unregister(), after a close, an error or a missing pong: with the last socket
\* the cursor goes.
Unregister(i) ==
  /\ i \in ghosts /\ ghosts' = ghosts \ {i}
  /\ cursor' = IF Sockets(i) = {} THEN [cursor EXCEPT ![i] = 0] ELSE cursor
  /\ UNCHANGED <<vars, posted, stream, replies, own, errors, clientSide>>

\* An instance dies and starts again.
Restart(i) ==
  /\ errors < MaxErrors /\ errors' = errors + 1
  /\ home' = [k \in Attempts |-> IF home[k] = i THEN Nowhere ELSE home[k]]
  /\ ghosts' = ghosts \ {i}
  /\ replies' = [replies EXCEPT ![i] = <<>>]
  /\ cursor' = [cursor EXCEPT ![i] = 0]
  /\ own' = [own EXCEPT ![i] = {}]
  /\ passedBy' = passedBy \cup Forsaken(Sockets(i))
  /\ UNCHANGED <<vars, posted, stream, lastId, resumeId, seen, doubled>>

Registry(i) ==
  \/ Post(i) \/ PostUnstreamed(i) \/ Added(i) \/ AddUnanswered(i) \/ Trimmed(i)
  \/ PollStream(i) \/ PollAnswered(i) \/ PollFails(i)
  \/ CaughtUp(i) \/ CatchUpFails(i) \/ Unregister(i) \/ Restart(i)

RealtimeNext ==
  ClientStep \/ (\E i \in Instances : Registry(i)) \/ (\E k \in Attempts : Cut(k))

RealtimeSpec == RealtimeInit /\ [][RealtimeNext]_realtimeVars

-----------------------------------------------------------------------------
(* Properties.                                                             *)

RealtimeTypeOK ==
  /\ TypeOK
  /\ posted \in 0 .. MaxEntries /\ stream \subseteq 1 .. posted
  /\ replies \in [Instances -> Seq([command : {"add", "trim", "read", "range"},
                                    entries : SUBSET Entries, socket : 0 .. MaxConnects])]
  /\ cursor \in [Instances -> 0 .. MaxEntries]
  /\ own \in [Instances -> SUBSET Entries]
  /\ home \in [Attempts -> Instances \cup {Nowhere}]
  /\ ghosts \subseteq Instances
  /\ lastId \in [Attempts -> 0 .. MaxEntries] /\ resumeId \in 0 .. MaxEntries
  /\ seen \in [Entries -> 0 .. 2]
  /\ errors \in 0 .. MaxErrors
  /\ passedBy \subseteq Entries /\ doubled \in BOOLEAN

\* No notification is in the list twice, although every instance both writes it out
\* and reads it back, unless polls or sockets overlapped, the reply to its XADD was
\* lost, a socket came back to an instance with something yet to send, or an id
\* went back.
SeenOnce == ~doubled => \A n \in Entries : seen[n] <= 1

\* The id from which a client resumes has passed no notification it has not seen,
\* except one that is on its way to an open socket after all, and those that the
\* cursor of the instance passed unread, that were there before a socket without
\* an id, that a catch-up failed to read or had no room for, or that were still on
\* their way when the socket died or a new adapter took over the id.
NothingMissed ==
  \A n \in stream : n <= resumeId =>
    \/ seen[n] > 0
    \/ n \in passedBy
    \/ n \in Forsaken(wired)
=============================================================================
