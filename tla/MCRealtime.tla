------------------------------ MODULE MCRealtime ------------------------------
(* A small instance of Realtime, with the client in it, for TLC.            *)
EXTENDS Realtime, TLC

CONSTANTS i1, i2

Symmetry == Permutations(Instances)

\* The actions taken and the restarts together, one fewer with a leaked adapter; a call
\* that has met a restore, or a full queue in a flush, is the end: nothing is promised
\* of the actions after it.
ActionBounds ==
  /\ taken + reloads <= MaxActions /\ ~raced
  /\ leaked # {} => taken + reloads < MaxActions

\* The notifications and the commands under way.
Crowd == posted + Len(replies[i1]) + Len(replies[i2])

\* What went wrong, or overlapped, so far.
Trouble == errors + Cardinality(passedBy) + IF doubled THEN 1 ELSE 0

\* Once there is a notification: a loss of the socket is told to the client at once;
\* one instance at a time has yet to notice that; the commands under way are
\* fewer with every notification and every trouble; a second connect() comes only
\* where nothing failed or overlapped before.
FirstBounds ==
  /\ taken = 0 /\ reloads = 0
  /\ connected = (\E k \in wired : adapter[k] = "open")
  /\ Crowd + Trouble <= MaxEntries + 1
  /\ Cardinality(ghosts) <= 1
  /\ attempt[2] # "unused" => errors = 0 /\ ~doubled /\ Crowd <= MaxConnects + 1

\* A third and a fourth notification come to a client that has connected once.
LaterBounds ==
  /\ ~doubled /\ attempt[2] = "unused" /\ current # 0
  /\ posted + errors <= MaxEntries
  /\ Cardinality(passedBy) <= 1

WithinBounds ==
  /\ ActionBounds
  /\ posted > 0 => FirstBounds
  /\ posted > 2 => LaterBounds

\* The user's actions, and restarts, have nothing in common with the notifications
\* but the sockets: where there are any, no notification comes, and where the
\* sockets are registered is of no account.
Alone == taken > 0 \/ reloads > 0

\* The reply to a catch-up whose socket is closed does nothing but keep the others
\* waiting: once it is next it comes before anything else happens.
Void(i) == Comes(i, "range") /\ Head(replies[i]).socket = 0

MCNext ==
  /\ \/ ~Alone /\ (\A i \in Instances : ~Void(i)) /\ RealtimeNext
     \/ ~Alone /\ \E i \in Instances : Void(i) /\ CaughtUp(i)
     \/ Alone /\ Next /\ UNCHANGED <<serverVars, clientSide>>
  /\ WithinBounds'

MCSpec == RealtimeInit /\ [][MCNext]_realtimeVars

View == IF Alone THEN <<vars>> ELSE <<realtimeVars>>
=============================================================================
