-------------------------------- MODULE MCDigest --------------------------------
(* Small instances of Digest for TLC.                                       *)
EXTENDS Digest, TLC

CONSTANTS i1, i2, e1, e2, p1, p2

AllFaults == {"redis", "crash", "stall"}

PollEach == p1 :> i1 @@ p2 :> i2
OnePoll == p1 :> i1

\* Events only differ in name.
Symmetry == Permutations(Events)

\* States that differ only in what nothing reads any more are explored once: the
\* checkpoint of an instance that does not start again, the home of a send that is
\* over, and, if it sent nothing, whether another flush met it.
Over(e) == pc[e] \in {"digested", "sent", "gone"}

View ==
  <<buffer, ttl, lock, [i \in Restarted |-> checkpoint[i]], tracked, timer, pc,
    [e \in Events |-> IF Over(e) THEN i1 ELSE home[e]],
    hand, alone, batched, {e \in raced : pc[e] \notin {"digested", "gone"}}, mishap>>
=============================================================================
