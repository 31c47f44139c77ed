----------------------------- MODULE RealtimeProofs -----------------------------
(***************************************************************************)
(* For any instances, notifications, catch-up limit and faults: the client  *)
(* among the servers keeps what module Client promises, and no notification *)
(* is in its list twice without one of the reasons that the model names.    *)
(***************************************************************************)
EXTENDS Realtime, ClientProofs, FiniteSetTheorems, WellFoundedInduction

-----------------------------------------------------------------------------
(* Numbers and queues.                                                     *)

Less == {r \in Nat \X Nat : r[1] < r[2]}

LEMMA LessFounded == IsWellFoundedOn(Less, Nat)
<1>1. Less = OpToRel(<, Nat)
  BY DEF Less, OpToRel
<1> QED
  BY <1>1, NatLessThanWellFounded

\* A bounded set has a greatest element.
LEMMA Greatest ==
  ASSUME NEW N \in Nat, NEW S, S \subseteq 0 .. N, S # {}
  PROVE  Max(S) \in S /\ \A y \in S : y <= Max(S)
<1> DEFINE T == {N - x : x \in S}
<1>1. T \subseteq Nat /\ T # {}
  OBVIOUS
<1>2. PICK t \in T : \A y \in T : ~(<<y, t>> \in Less)
  <2> HIDE DEF T
  <2> QED
    BY <1>1, LessFounded, WFMin
<1>3. PICK x \in S : t = N - x
  BY <1>2
<1>4. ASSUME NEW y \in S PROVE y <= x
  <2>1. N - y \in T /\ N - y \in Nat /\ t \in Nat
    BY <1>1
  <2>2. ~(N - y < t)
    BY <1>2, <2>1 DEF Less
  <2> QED
    BY <1>3, <2>1, <2>2
<1>5. \E z \in S : \A y \in S : z >= y
  BY <1>3, <1>4
<1> QED
  BY <1>5 DEF Max

Commands == {"add", "trim", "read", "range"}
Answers  == [command : Commands, entries : SUBSET Entries, socket : 0 .. MaxConnects]

LEMMA QueueTail ==
  ASSUME NEW rs \in Seq(Answers), rs # <<>>
  PROVE  /\ Tail(rs) \in Seq(Answers) /\ Head(rs) = rs[1] /\ Head(rs) \in Answers
         /\ Len(rs) \in Nat \ {0} /\ DOMAIN rs = 1 .. Len(rs)
         /\ DOMAIN Tail(rs) = 1 .. (Len(rs) - 1) /\ Len(Tail(rs)) = Len(rs) - 1
         /\ \A p \in 1 .. (Len(rs) - 1) : Tail(rs)[p] = rs[p + 1]
<1>1. /\ Head(rs) \in Answers /\ Tail(rs) \in Seq(Answers) /\ Len(Tail(rs)) = Len(rs) - 1
      /\ \A p \in 1 .. Len(Tail(rs)) : Tail(rs)[p] = rs[p + 1]
  BY HeadTailProperties
<1>2. Len(rs) \in Nat \ {0} /\ DOMAIN rs = 1 .. Len(rs) /\ Head(rs) = rs[1]
  BY LenProperties, EmptySeq
<1>3. DOMAIN Tail(rs) = 1 .. (Len(rs) - 1)
  BY <1>1, LenProperties
<1> QED
  BY <1>1, <1>2, <1>3

LEMMA QueueAppend ==
  ASSUME NEW rs \in Seq(Answers), NEW r \in Answers
  PROVE  /\ Append(rs, r) \in Seq(Answers)
         /\ Len(rs) \in Nat /\ DOMAIN rs = 1 .. Len(rs)
         /\ DOMAIN Append(rs, r) = 1 .. (Len(rs) + 1) /\ Len(Append(rs, r)) = Len(rs) + 1
         /\ \A p \in 1 .. Len(rs) : Append(rs, r)[p] = rs[p]
         /\ Append(rs, r)[Len(rs) + 1] = r
<1>1. /\ Append(rs, r) \in Seq(Answers) /\ Len(Append(rs, r)) = Len(rs) + 1
      /\ \A p \in 1 .. Len(rs) : Append(rs, r)[p] = rs[p]
      /\ Append(rs, r)[Len(rs) + 1] = r
  BY AppendProperties
<1>2. Len(rs) \in Nat /\ DOMAIN rs = 1 .. Len(rs)
  BY LenProperties
<1>3. DOMAIN Append(rs, r) = 1 .. (Len(rs) + 1)
  BY <1>1, LenProperties
<1> QED
  BY <1>1, <1>2, <1>3

LEMMA QueueVoided ==
  ASSUME NEW rs \in Seq(Answers), NEW K
  PROVE  /\ [q \in DOMAIN rs |-> Voided(rs[q], K)] \in Seq(Answers)
         /\ DOMAIN rs = 1 .. Len(rs) /\ Len(rs) \in Nat
<1>1. Len(rs) \in Nat /\ rs \in [1 .. Len(rs) -> Answers] /\ DOMAIN rs = 1 .. Len(rs)
  BY LenProperties
<1>2. \A q \in 1 .. Len(rs) : Voided(rs[q], K) \in Answers
  <2>1. \A r \in Answers : Voided(r, K) \in Answers
    <3>1. Reply("range", {}, 0) \in Answers
      BY ClientAssumption DEF Reply, Answers, Commands
    <3> QED
      BY <3>1 DEF Voided
  <2> QED
    BY <1>1, <2>1
<1>3. [q \in 1 .. Len(rs) |-> Voided(rs[q], K)] \in Seq(Answers)
  <2> DEFINE e(q) == Voided(rs[q], K)
  <2>1. \A q \in 1 .. Len(rs) : e(q) \in Answers
    BY <1>2
  <2> HIDE DEF e
  <2>2. [q \in 1 .. Len(rs) |-> e(q)] \in Seq(Answers)
    BY <1>1, <2>1, IsASeq
  <2> QED
    BY <2>2 DEF e
<1> QED
  BY <1>1, <1>3

-----------------------------------------------------------------------------
(* Types.                                                                  *)

ServerTypes ==
  /\ posted \in 0 .. MaxEntries /\ stream \subseteq 1 .. posted
  /\ replies \in [Instances -> Seq(Answers)]
  /\ cursor \in [Instances -> 0 .. MaxEntries]
  /\ own \in [Instances -> SUBSET Entries]
  /\ home \in [Attempts -> Instances \cup {Nowhere}]
  /\ ghosts \subseteq Instances
  /\ lastId \in [Attempts -> 0 .. MaxEntries] /\ resumeId \in 0 .. MaxEntries
  /\ seen \in [Entries -> 0 .. 2]
  /\ errors \in 0 .. MaxErrors
  /\ passedBy \subseteq Entries /\ doubled \in BOOLEAN

\* A reply brings entries of the stream: one notification for XADD and its XTRIM, some
\* for XREAD, none for a catch-up that has no socket any more.
Sound(r, S) ==
  /\ r.entries \subseteq S
  /\ r.command \in {"add", "trim"} => \E n \in S : r.entries = {n}
  /\ r.command = "read" => r.entries # {}
  /\ r.command = "range" /\ r.socket = 0 => r.entries = {}

QueueInv == \A i \in Instances : \A p \in DOMAIN replies[i] : Sound(replies[i][p], stream)

LEMMA TypesAgree == RealtimeTypeOK <=> TypeOK /\ ServerTypes
BY DEF RealtimeTypeOK, ServerTypes, Answers, Commands

LEMMA Bounds ==
  ServerTypes =>
    /\ MaxEntries \in Nat /\ MaxConnects \in Nat /\ posted \in Nat
    /\ stream \subseteq Entries /\ Entries \subseteq 0 .. MaxEntries
    /\ IsFiniteSet(Attempts)
<1>1. IsFiniteSet(Attempts)
  BY FS_Interval, ClientAssumption DEF ClientAssumption, Attempts
<1> QED
  BY <1>1, RealtimeAssumption, ClientAssumption DEF RealtimeAssumption, ClientAssumption,
     ServerTypes, Entries

LEMMA InitServers == RealtimeInit => TypeOK /\ ServerTypes /\ QueueInv
<1> SUFFICES ASSUME RealtimeInit PROVE TypeOK /\ ServerTypes /\ QueueInv
  OBVIOUS
<1>1. TypeOK
  BY InitTypeOK DEF RealtimeInit
<1>2. <<>> \in Seq(Answers)
  BY EmptySeq
<1>3. replies \in [Instances -> Seq(Answers)]
  BY <1>2, Zenon DEF RealtimeInit
<1>4. /\ posted \in 0 .. MaxEntries /\ stream \subseteq 1 .. posted
      /\ cursor \in [Instances -> 0 .. MaxEntries] /\ own \in [Instances -> SUBSET Entries]
      /\ home \in [Attempts -> Instances \cup {Nowhere}] /\ ghosts \subseteq Instances
  BY RealtimeAssumption DEF RealtimeInit, RealtimeAssumption
<1>5. /\ lastId \in [Attempts -> 0 .. MaxEntries] /\ resumeId \in 0 .. MaxEntries
      /\ seen \in [Entries -> 0 .. 2] /\ errors \in 0 .. MaxErrors
      /\ passedBy \subseteq Entries
  BY RealtimeAssumption DEF RealtimeInit, RealtimeAssumption
<1>6. doubled \in BOOLEAN
  BY DEF RealtimeInit
<1>7. QueueInv
  BY DEF RealtimeInit, QueueInv
<1> QED
  BY <1>1, <1>3, <1>4, <1>5, <1>6, <1>7, Zenon DEF ServerTypes

LEMMA EntriesAreNumbers ==
  /\ MaxEntries \in Nat /\ Entries \subseteq 0 .. MaxEntries /\ Entries \subseteq Nat
  /\ 0 \in 0 .. MaxConnects /\ Attempts \subseteq 0 .. MaxConnects /\ 0 \notin Attempts
BY RealtimeAssumption, ClientAssumption
   DEF RealtimeAssumption, ClientAssumption, Entries, Attempts

\* A reply is one that may be issued.
LEMMA ReplyTypes ==
  ASSUME NEW c \in Commands, NEW S \in SUBSET Entries, NEW k \in 0 .. MaxConnects
  PROVE  LET r == Reply(c, S, k) IN
         r \in Answers /\ r.command = c /\ r.entries = S /\ r.socket = k
BY DEF Reply, Answers

\* What the first reply at an instance brings.
LEMMA HeadTypes ==
  ASSUME ServerTypes, QueueInv, NEW i \in Instances, replies[i] # <<>>
  PROVE  /\ Head(replies[i]) \in Answers /\ Head(replies[i]) = replies[i][1]
         /\ Head(replies[i]).entries \subseteq Entries
         /\ Head(replies[i]).socket \in 0 .. MaxConnects
         /\ Sound(Head(replies[i]), stream)
         /\ Tail(replies[i]) \in Seq(Answers)
<1>1. /\ Head(replies[i]) \in Answers /\ Tail(replies[i]) \in Seq(Answers)
      /\ Head(replies[i]) = replies[i][1] /\ 1 \in DOMAIN replies[i]
  BY QueueTail DEF ServerTypes
<1> QED
  BY <1>1 DEF Answers, QueueInv

\* The queues when i issues a command, takes a reply, or both.
LEMMA QueueMoves ==
  ASSUME ServerTypes, QueueInv, NEW i \in Instances, stream \subseteq stream',
         NEW r \in Answers, Sound(r, stream'),
         \/ Issue(i, r)
         \/ replies[i] # <<>> /\ Taken(i)
         \/ replies[i] # <<>> /\ replies' = [replies EXCEPT ![i] = Append(Tail(@), r)]
         \/ replies' = [replies EXCEPT ![i] = <<>>]
  PROVE  replies' \in [Instances -> Seq(Answers)] /\ QueueInv'
<1>1. /\ replies'[i] \in Seq(Answers)
      /\ \A p \in DOMAIN replies'[i] : Sound(replies'[i][p], stream')
  <2>1. replies[i] \in Seq(Answers) /\ <<>> \in Seq(Answers) /\ DOMAIN <<>> = {}
    BY EmptySeq DEF ServerTypes
  <2>2. \A p \in DOMAIN replies[i] : Sound(replies[i][p], stream')
    BY DEF QueueInv, Sound
  <2>3. CASE Issue(i, r)
    <3>1. replies'[i] = Append(replies[i], r)
      BY <2>3 DEF Issue, ServerTypes
    <3> QED
      BY <2>1, <2>2, <3>1, QueueAppend
  <2>4. ASSUME replies[i] # <<>>
        PROVE  /\ Tail(replies[i]) \in Seq(Answers)
               /\ \A p \in DOMAIN Tail(replies[i]) : Sound(Tail(replies[i])[p], stream')
    <3> HIDE DEF Sound
    <3>1. \A p \in 1 .. (Len(replies[i]) - 1) : p + 1 \in DOMAIN replies[i]
      BY <2>1, <2>4, QueueTail
    <3> QED
      BY <2>1, <2>2, <2>4, <3>1, QueueTail
  <2>5. CASE replies[i] # <<>> /\ Taken(i)
    BY <2>4, <2>5 DEF Taken, ServerTypes
  <2>6. CASE replies[i] # <<>> /\ replies' = [replies EXCEPT ![i] = Append(Tail(@), r)]
    <3>1. replies'[i] = Append(Tail(replies[i]), r)
      BY <2>6 DEF ServerTypes
    <3> QED
      BY <2>4, <2>6, <3>1, QueueAppend
  <2>7. CASE replies' = [replies EXCEPT ![i] = <<>>]
    BY <2>1, <2>7 DEF ServerTypes
  <2> QED
    BY <2>3, <2>5, <2>6, <2>7
<1>2. \A j \in Instances : j # i => replies'[j] = replies[j]
  BY DEF Issue, Taken, ServerTypes
<1>3. \E rs : replies' = [replies EXCEPT ![i] = rs]
  BY DEF Issue, Taken
<1>4. replies' \in [Instances -> Seq(Answers)]
  BY <1>1, <1>3 DEF ServerTypes
<1>5. ASSUME NEW j \in Instances, NEW p \in DOMAIN replies'[j] PROVE Sound(replies'[j][p], stream')
  BY <1>1, <1>2 DEF QueueInv, Sound
<1> QED
  BY <1>4, <1>5 DEF QueueInv

LEMMA ShowTypes ==
  ASSUME ServerTypes, NEW S, NEW K \in SUBSET Attempts, Show(S, K)
  PROVE  seen' \in [Entries -> 0 .. 2]
<1> DEFINE copies == Cardinality(K \cap wired)
<1>1. copies \in Nat
  <2>1. IsFiniteSet(K \cap wired)
    BY Bounds, FS_Subset
  <2> QED
    BY <2>1, FS_CardinalityType
<1>2. seen' = [n \in Entries |-> IF n \notin S THEN seen[n]
                                 ELSE IF seen[n] + copies > 2 THEN 2 ELSE seen[n] + copies]
  BY DEF Show
<1>3. \A n \in Entries : seen[n] \in 0 .. 2
  BY DEF ServerTypes
<1> HIDE DEF copies
<1> QED
  BY <1>1, <1>2, <1>3

LEMMA WriteTypes ==
  ASSUME ServerTypes, NEW S \in SUBSET Entries, NEW K \in SUBSET Attempts, Write(S, K)
  PROVE  /\ seen' \in [Entries -> 0 .. 2]
         /\ lastId' \in [Attempts -> 0 .. MaxEntries] /\ resumeId' \in 0 .. MaxEntries
         /\ doubled' \in BOOLEAN /\ UNCHANGED <<home, passedBy>>
<1>1. seen' \in [Entries -> 0 .. 2]
  BY ShowTypes DEF Write
<1>2. S # {} => Max(S) \in 0 .. MaxEntries
  BY Bounds, Greatest
<1>3. lastId' \in [Attempts -> 0 .. MaxEntries] /\ resumeId' \in 0 .. MaxEntries
  BY <1>2 DEF Write, ServerTypes
<1> QED
  BY <1>1, <1>3 DEF Write, ServerTypes

LEMMA SocketTypes == ASSUME ServerTypes, NEW i PROVE Sockets(i) \in SUBSET Attempts
BY DEF Sockets

LEMMA ForsakenTypes ==
  ASSUME ServerTypes, NEW K \in SUBSET Attempts
  PROVE  Forsaken(K) \subseteq Entries
<1>1. ASSUME NEW k \in Attempts, home[k] # Nowhere PROVE Overtaken(k) \subseteq Entries
  <2>1. replies[home[k]] \in Seq(Answers)
    BY <1>1 DEF ServerTypes
  <2>2. \A r \in ToSet(replies[home[k]]) : r \in Answers
    BY <2>1, LenProperties DEF ToSet
  <2>3. \A r \in Answers : r.entries \subseteq Entries
    BY DEF Answers
  <2> QED
    BY <2>2, <2>3 DEF Overtaken
<1> QED
  BY <1>1 DEF Forsaken

LEMMA RegistryTypes ==
  ASSUME ServerTypes, QueueInv, NEW i \in Instances, Registry(i)
  PROVE  (ServerTypes /\ QueueInv)'
<1>0. /\ MaxEntries \in Nat /\ MaxConnects \in Nat /\ MaxErrors \in Nat /\ posted \in Nat
      /\ stream \subseteq Entries /\ Entries \subseteq 0 .. MaxEntries
  BY Bounds, RealtimeAssumption DEF RealtimeAssumption
<1>1. errors < MaxErrors => errors + 1 \in 0 .. MaxErrors
  BY <1>0 DEF ServerTypes
<1>2. Sockets(i) \in SUBSET Attempts
  BY SocketTypes
<1>3. CASE Post(i)
  <2>1. posted + 1 \in Entries
    BY <1>0, <1>3 DEF Post, Entries
  <2>2. /\ posted' \in 0 .. MaxEntries /\ stream' \subseteq 1 .. posted'
        /\ stream \subseteq stream' /\ posted + 1 \in stream' /\ posted' = posted + 1
    BY <1>0, <1>3 DEF Post, ServerTypes
  <2>3. Reply("add", {posted + 1}, 0) \in Answers
    BY <1>0, <2>1, ReplyTypes DEF Commands
  <2>4. Sound(Reply("add", {posted + 1}, 0), stream')
    BY <2>2 DEF Sound, Reply
  <2>5. Issue(i, Reply("add", {posted + 1}, 0))
    BY <1>3, <2>2 DEF Post
  <2>6. replies' \in [Instances -> Seq(Answers)] /\ QueueInv'
    BY <2>2, <2>3, <2>4, <2>5, QueueMoves
  <2> QED
    BY <1>3, <2>2, <2>6 DEF Post, ServerTypes, clientSide
<1>4. CASE PostUnstreamed(i)
  <2>1. posted' \in 0 .. MaxEntries /\ stream' \subseteq 1 .. posted' /\ errors' \in 0 .. MaxErrors
    BY <1>0, <1>1, <1>4 DEF PostUnstreamed, ServerTypes
  <2>2. seen' \in [Entries -> 0 .. 2]
    BY <1>2, <1>4, ShowTypes DEF PostUnstreamed
  <2>3. QueueInv'
    BY <1>4 DEF PostUnstreamed, QueueInv
  <2> QED
    BY <1>4, <2>1, <2>2, <2>3 DEF PostUnstreamed, ServerTypes
<1>5. CASE Added(i)
  <2> DEFINE n == Max(Head(replies[i]).entries)
  <2>1. PICK m \in stream : Head(replies[i]).entries = {m}
    BY <1>5, HeadTypes DEF Added, Comes, Sound
  <2>2. n \in Entries /\ n \in stream
    BY <1>0, <2>1, Greatest
  <2>3. Reply("trim", {n}, 0) \in Answers /\ Sound(Reply("trim", {n}, 0), stream)
    <3>1. Reply("trim", {n}, 0) \in Answers
      <4> HIDE DEF n
      <4> QED
        BY <1>0, <2>2, ReplyTypes DEF Commands
    <3> HIDE DEF n
    <3> QED
      BY <2>2, <3>1 DEF Sound, Reply
  <2>4. /\ replies' = [replies EXCEPT ![i] = Append(Tail(@), Reply("trim", {n}, 0))]
        /\ own' = [own EXCEPT ![i] = @ \cup {n}] /\ cursor' = [cursor EXCEPT ![i] = n]
    BY <1>5 DEF Added
  <2>6. passedBy' \subseteq Entries
    BY <1>0, <1>5 DEF Added, ServerTypes
  <2> HIDE DEF n
  <2>5. replies' \in [Instances -> Seq(Answers)] /\ QueueInv'
    <3>1. replies[i] # <<>> /\ stream \subseteq stream' /\ Sound(Reply("trim", {n}, 0), stream')
      BY <1>5, <2>3 DEF Added, Comes
    <3> QED
      BY <2>3, <2>4, <3>1, QueueMoves
  <2>7. /\ own' \in [Instances -> SUBSET Entries]
        /\ cursor' \in [Instances -> 0 .. MaxEntries]
    BY <1>0, <2>2, <2>4 DEF ServerTypes
  <2> QED
    BY <1>5, <2>5, <2>6, <2>7 DEF Added, ServerTypes
<1>6. ASSUME replies[i] # <<>>, Taken(i), stream' = stream
      PROVE  replies' \in [Instances -> Seq(Answers)] /\ QueueInv'
  <2>1. Reply("range", {}, 0) \in Answers /\ Sound(Reply("range", {}, 0), stream')
    BY <1>0, ReplyTypes DEF Commands, Sound, Reply
  <2> QED
    BY <1>6, <2>1, QueueMoves
<1>7. CASE AddUnanswered(i)
  <2>1. replies' \in [Instances -> Seq(Answers)] /\ QueueInv'
    BY <1>6, <1>7 DEF AddUnanswered, Comes
  <2>2. seen' \in [Entries -> 0 .. 2]
    BY <1>2, <1>7, ShowTypes DEF AddUnanswered
  <2> QED
    BY <1>1, <1>7, <2>1, <2>2 DEF AddUnanswered, ServerTypes
<1>8. CASE Trimmed(i)
  <2>1. replies' \in [Instances -> Seq(Answers)] /\ QueueInv'
    BY <1>6, <1>8 DEF Trimmed, Comes
  <2>2. Head(replies[i]).entries \in SUBSET Entries
    BY <1>8, HeadTypes DEF Trimmed, Comes
  <2>3. /\ seen' \in [Entries -> 0 .. 2] /\ doubled' \in BOOLEAN
        /\ lastId' \in [Attempts -> 0 .. MaxEntries] /\ resumeId' \in 0 .. MaxEntries
        /\ UNCHANGED <<home, passedBy>>
    BY <1>2, <1>8, <2>2, WriteTypes DEF Trimmed
  <2> QED
    BY <1>8, <2>1, <2>3 DEF Trimmed, ServerTypes
<1>9. CASE PollStream(i)
  <2> DEFINE unread == {n \in stream : n > cursor[i]}
  <2>1. Reply("read", unread, 0) \in Answers
    BY <1>0, EntriesAreNumbers DEF Reply, Answers, Commands
  <2>2. Sound(Reply("read", unread, 0), stream') /\ Issue(i, Reply("read", unread, 0))
    BY <1>9 DEF PollStream, Sound, Reply
  <2>3. replies' \in [Instances -> Seq(Answers)] /\ QueueInv'
    <3> HIDE DEF unread
    <3> QED
      BY <1>9, <2>1, <2>2, QueueMoves DEF PollStream
  <2>4. doubled' \in BOOLEAN
    BY <1>9, Zenon DEF PollStream, ServerTypes
  <2> QED
    BY <1>9, <2>3, <2>4 DEF PollStream, ServerTypes
<1>10. CASE PollAnswered(i)
  <2> DEFINE read == Head(replies[i]).entries
  <2>1. replies' \in [Instances -> Seq(Answers)] /\ QueueInv'
    BY <1>6, <1>10 DEF PollAnswered, Comes
  <2>2. read \subseteq Entries /\ read # {}
    BY <1>10, HeadTypes DEF PollAnswered, Comes, Sound
  <2>3. Max(read) \in 0 .. MaxEntries
    BY <1>0, <2>2, Greatest
  <2>4. /\ cursor' = [cursor EXCEPT ![i] = Max(read)] /\ own' = [own EXCEPT ![i] = @ \ read]
        /\ Write(read \ own[i], Sockets(i))
    BY <1>10 DEF PollAnswered
  <2> HIDE DEF read
  <2>5. /\ seen' \in [Entries -> 0 .. 2] /\ doubled' \in BOOLEAN
        /\ lastId' \in [Attempts -> 0 .. MaxEntries] /\ resumeId' \in 0 .. MaxEntries
        /\ UNCHANGED <<home, passedBy>>
    BY <1>2, <2>2, <2>4, WriteTypes
  <2>6. /\ own' \in [Instances -> SUBSET Entries]
        /\ cursor' \in [Instances -> 0 .. MaxEntries]
    BY <2>3, <2>4 DEF ServerTypes
  <2> QED
    BY <1>10, <2>1, <2>5, <2>6 DEF PollAnswered, ServerTypes
<1>11. CASE PollFails(i)
  <2>1. replies' \in [Instances -> Seq(Answers)] /\ QueueInv'
    BY <1>6, <1>11 DEF PollFails, Comes
  <2>2. Head(replies[i]).entries \subseteq Entries
    BY <1>11, HeadTypes DEF PollFails, Comes
  <2> QED
    BY <1>1, <1>11, <2>1, <2>2 DEF PollFails, ServerTypes
<1>12. CASE CaughtUp(i)
  <2> DEFINE r == Head(replies[i])
  <2>1. replies' \in [Instances -> Seq(Answers)] /\ QueueInv'
    BY <1>6, <1>12 DEF CaughtUp, Comes
  <2>2. r.entries \in SUBSET Entries /\ r.socket \in 0 .. MaxConnects /\ Sound(r, stream)
        /\ r.command = "range" /\ Write(r.entries, {r.socket})
    BY <1>12, HeadTypes DEF CaughtUp, Comes
  <2> HIDE DEF r
  <2>3. /\ seen' \in [Entries -> 0 .. 2] /\ doubled' \in BOOLEAN
        /\ lastId' \in [Attempts -> 0 .. MaxEntries] /\ resumeId' \in 0 .. MaxEntries
        /\ UNCHANGED <<home, passedBy>>
    <3>1. CASE r.socket = 0
      <4>1. r.entries = {}
        BY <2>2, <3>1 DEF Sound
      <4>2. lastId' = lastId /\ resumeId' = resumeId /\ UNCHANGED <<home, passedBy>>
        BY <2>2, <4>1 DEF Write, ServerTypes
      <4>3. seen' = seen
        BY <2>2, <4>1 DEF Write, Show, ServerTypes
      <4>4. doubled' \in BOOLEAN
        BY <2>2, Zenon DEF Write, ServerTypes
      <4> QED
        BY <4>2, <4>3, <4>4 DEF ServerTypes
    <3>2. CASE r.socket # 0
      <4>1. {r.socket} \in SUBSET Attempts
        BY <1>0, <2>2, <3>2 DEF Attempts
      <4> QED
        BY <2>2, <4>1, WriteTypes
    <3> QED
      BY <3>1, <3>2
  <2> QED
    BY <1>12, <2>1, <2>3 DEF CaughtUp, ServerTypes
<1>13. CASE CatchUpFails(i)
  <2>1. replies' \in [Instances -> Seq(Answers)] /\ QueueInv'
    BY <1>6, <1>13 DEF CatchUpFails, Comes
  <2>2. Head(replies[i]).entries \subseteq Entries
    BY <1>13, HeadTypes DEF CatchUpFails, Comes
  <2> QED
    BY <1>1, <1>13, <2>1, <2>2 DEF CatchUpFails, ServerTypes
<1>14. CASE Unregister(i)
  <2>1. cursor' \in [Instances -> 0 .. MaxEntries] /\ ghosts' \subseteq Instances
    BY <1>0, <1>14 DEF Unregister, ServerTypes
  <2>2. QueueInv'
    BY <1>14 DEF Unregister, QueueInv
  <2> QED
    BY <1>14, <2>1, <2>2 DEF Unregister, ServerTypes, clientSide
<1>15. CASE Restart(i)
  <2>1. Reply("range", {}, 0) \in Answers /\ Sound(Reply("range", {}, 0), stream')
    BY <1>0, ReplyTypes DEF Commands, Sound, Reply
  <2>2. replies' \in [Instances -> Seq(Answers)] /\ QueueInv'
    BY <1>15, <2>1, QueueMoves DEF Restart
  <2>3. Forsaken(Sockets(i)) \subseteq Entries
    BY <1>2, ForsakenTypes
  <2>4. /\ home' \in [Attempts -> Instances \cup {Nowhere}] /\ ghosts' \subseteq Instances
        /\ cursor' \in [Instances -> 0 .. MaxEntries] /\ own' \in [Instances -> SUBSET Entries]
    BY <1>0, <1>15 DEF Restart, ServerTypes
  <2> QED
    BY <1>1, <1>15, <2>2, <2>3, <2>4 DEF Restart, ServerTypes
<1> QED
  BY <1>3, <1>4, <1>5, <1>7, <1>8, <1>9, <1>10, <1>11, <1>12, <1>13, <1>14, <1>15 DEF Registry

LEMMA AbandonTypes ==
  ASSUME ServerTypes, QueueInv, NEW K \in SUBSET Attempts, Abandon(K), stream' = stream,
         NEW F \in SUBSET Attempts, passedBy' = passedBy \cup Forsaken(F)
  PROVE  /\ home' \in [Attempts -> Instances \cup {Nowhere}] /\ ghosts' \subseteq Instances
         /\ replies' \in [Instances -> Seq(Answers)] /\ passedBy' \subseteq Entries
         /\ QueueInv'
<1>1. home' \in [Attempts -> Instances \cup {Nowhere}] /\ ghosts' \subseteq Instances
  BY DEF Abandon, ServerTypes
<1>2. passedBy' \subseteq Entries
  BY ForsakenTypes DEF ServerTypes
<1>3. ASSUME NEW i \in Instances
      PROVE  /\ replies'[i] \in Seq(Answers) /\ DOMAIN replies'[i] = DOMAIN replies[i]
             /\ \A q \in DOMAIN replies[i] : replies'[i][q] = Voided(replies[i][q], K)
  <2>1. /\ replies[i] \in Seq(Answers)
        /\ replies'[i] = [q \in DOMAIN replies[i] |-> Voided(replies[i][q], K)]
    BY DEF Abandon, ServerTypes
  <2> QED
    BY <2>1, QueueVoided
<1>4. replies' \in [Instances -> Seq(Answers)]
  BY <1>3 DEF Abandon
<1>5. ASSUME NEW r, Sound(r, stream) PROVE Sound(Voided(r, K), stream')
  <2>1. Sound(Reply("range", {}, 0), stream)
    BY DEF Sound, Reply
  <2> QED
    BY <1>5, <2>1 DEF Voided
<1>6. ASSUME NEW i \in Instances, NEW q \in DOMAIN replies'[i] PROVE Sound(replies'[i][q], stream')
  BY <1>3, <1>5 DEF QueueInv
<1> QED
  BY <1>1, <1>2, <1>4, <1>6 DEF QueueInv

LEMMA RegisterTypes ==
  ASSUME ServerTypes, QueueInv, NEW k \in Attempts, NEW i \in Instances, Register(k, i),
         stream' = stream
  PROVE  /\ home' \in [Attempts -> Instances \cup {Nowhere}]
         /\ replies' \in [Instances -> Seq(Answers)] /\ passedBy' \subseteq Entries
         /\ doubled' \in BOOLEAN /\ QueueInv'
<1>1. home' \in [Attempts -> Instances \cup {Nowhere}]
  BY DEF Register, ServerTypes
<1>2. passedBy' \subseteq Entries
  BY Bounds DEF Register, Missed, ServerTypes
<1>3. doubled' \in BOOLEAN
  BY Zenon DEF Register, ServerTypes
<1>4. CASE lastId[k] # 0
  <2> DEFINE r == Reply("range", CatchUp(k), k)
  <2>1. CatchUp(k) \subseteq stream /\ k # 0 /\ k \in 0 .. MaxConnects
    BY Bounds DEF CatchUp, Missed, Attempts
  <2>2. r \in Answers
    BY <2>1, Bounds, ReplyTypes DEF Commands
  <2>3. Sound(r, stream')
    BY <2>1 DEF Sound, Reply
  <2>4. Issue(i, r)
    BY <1>4 DEF Register
  <2>5. replies' \in [Instances -> Seq(Answers)] /\ QueueInv'
    <3> HIDE DEF r
    <3> QED
      BY <2>2, <2>3, <2>4, QueueMoves
  <2> QED
    BY <1>1, <1>2, <1>3, <2>5
<1>5. CASE lastId[k] = 0
  <2>1. replies' = replies
    BY <1>5 DEF Register
  <2>2. QueueInv'
    BY <2>1 DEF QueueInv
  <2> QED
    BY <1>1, <1>2, <1>3, <2>1, <2>2 DEF ServerTypes
<1> QED
  BY <1>4, <1>5

LEMMA NextServerTypes ==
  ASSUME TypeOK, ServerTypes, QueueInv, [RealtimeNext]_realtimeVars
  PROVE  (ServerTypes /\ QueueInv)'
<1>1. ASSUME NEW i \in Instances, Registry(i) PROVE (ServerTypes /\ QueueInv)'
  BY <1>1, RegistryTypes
<1>2. ASSUME NEW k \in Attempts, Cut(k) PROVE (ServerTypes /\ QueueInv)'
  <2>1. Abandon({k}) /\ stream' = stream /\ passedBy' = passedBy \cup Forsaken({k})
    BY <1>2 DEF Cut
  <2>2. /\ home' \in [Attempts -> Instances \cup {Nowhere}] /\ ghosts' \subseteq Instances
        /\ replies' \in [Instances -> Seq(Answers)] /\ passedBy' \subseteq Entries /\ QueueInv'
    BY <2>1, AbandonTypes
  <2> QED
    BY <1>2, <2>2 DEF Cut, ServerTypes
<1>3. CASE ClientStep
  <2>1. UNCHANGED <<posted, stream, cursor, own, errors>>
    BY <1>3 DEF ClientStep
  <2>2. ASSUME NEW k \in Attempts, NEW i \in Instances, Register(k, i)
        PROVE  (ServerTypes /\ QueueInv)'
    <3>1. UNCHANGED <<ghosts, lastId, resumeId, seen>>
      BY <2>2 DEF Register
    <3>2. /\ home' \in [Attempts -> Instances \cup {Nowhere}]
          /\ replies' \in [Instances -> Seq(Answers)] /\ passedBy' \subseteq Entries
          /\ doubled' \in BOOLEAN /\ QueueInv'
      BY <2>1, <2>2, RegisterTypes
    <3> QED
      BY <2>1, <3>1, <3>2 DEF ServerTypes
  <2>3. ASSUME NEW K \in SUBSET Attempts, Abandon(K),
               NEW F \in SUBSET Attempts, passedBy' = passedBy \cup Forsaken(F),
               lastId' \in [Attempts -> 0 .. MaxEntries], resumeId' \in 0 .. MaxEntries,
               seen' \in [Entries -> 0 .. 2], doubled' = doubled
        PROVE  (ServerTypes /\ QueueInv)'
    <3>1. /\ home' \in [Attempts -> Instances \cup {Nowhere}] /\ ghosts' \subseteq Instances
          /\ replies' \in [Instances -> Seq(Answers)] /\ passedBy' \subseteq Entries
          /\ QueueInv'
      BY <2>1, <2>3, AbandonTypes
    <3> QED
      BY <2>1, <2>3, <3>1 DEF ServerTypes
  <2>4. \/ \E k \in Attempts, i \in Instances : Register(k, i)
        \/ /\ Abandon(Closed)
           /\ passedBy' = passedBy \cup Forsaken(IF Created = {} THEN Closed ELSE wired)
           /\ IF reloads' # reloads
              THEN /\ lastId' = [k \in Attempts |-> 0] /\ resumeId' = 0
                   /\ seen' = [n \in Entries |-> 0]
              ELSE /\ lastId' = [k \in Attempts |-> IF k \in Created THEN resumeId ELSE lastId[k]]
                   /\ UNCHANGED <<resumeId, seen>>
           /\ UNCHANGED doubled
    BY <1>3 DEF ClientStep
  <2>5. ASSUME Abandon(Closed),
               passedBy' = passedBy \cup Forsaken(IF Created = {} THEN Closed ELSE wired),
               IF reloads' # reloads
               THEN /\ lastId' = [k \in Attempts |-> 0] /\ resumeId' = 0
                    /\ seen' = [n \in Entries |-> 0]
               ELSE /\ lastId' = [k \in Attempts |-> IF k \in Created THEN resumeId ELSE lastId[k]]
                    /\ UNCHANGED <<resumeId, seen>>,
               doubled' = doubled
        PROVE  (ServerTypes /\ QueueInv)'
    <3>1. /\ lastId' \in [Attempts -> 0 .. MaxEntries] /\ resumeId' \in 0 .. MaxEntries
          /\ seen' \in [Entries -> 0 .. 2]
      BY <2>5, Bounds DEF ServerTypes
    <3>2. Closed \in SUBSET Attempts /\ (IF Created = {} THEN Closed ELSE wired) \in SUBSET Attempts
      BY DEF Closed, TypeOK
    <3> QED
      BY <2>3, <2>5, <3>1, <3>2
  <2> QED
    BY <2>2, <2>4, <2>5
<1>4. CASE UNCHANGED realtimeVars
  BY <1>4 DEF realtimeVars, serverVars, clientSide, ServerTypes, QueueInv
<1> QED
  BY <1>1, <1>2, <1>3, <1>4 DEF RealtimeNext

-----------------------------------------------------------------------------
(* What an instance has yet to write.                                      *)

Below(a, b) == \A m \in a.entries, n \in b.entries : m < n

\* What a poll that has read a trimmed notification knows of it.
Covers(read, trim, o) ==
  \A n \in trim.entries : /\ n \in read.entries => n \in o
                          /\ \E x \in read.entries : n <= x

\* Two replies in their order, where the instance knows o for its own: one poll at a
\* time, notifications in the order of their ids, each written out once.
Fits(a, b, o) ==
  /\ a.command = "read" => b.command # "read"
  /\ a.command \in {"add", "trim", "read"} /\ b.command = "add" => Below(a, b)
  /\ a.command = "add" /\ b.command = "trim" => Below(b, a)
  /\ a.command = "add" /\ b.command = "read" => a.entries \subseteq b.entries
  /\ a.command = "trim" /\ b.command = "trim" => \A n \in a.entries : n \notin b.entries
  /\ a.command = "trim" /\ b.command = "read" => Covers(b, a, o)
  /\ a.command = "read" /\ b.command = "trim" => Covers(a, b, o)
  /\ a.command = "range" /\ b.command = "range" /\ a.socket = b.socket => a.socket = 0

\* A reply beside the cursor: XADD moves it on, XTRIM finds it there, XREAD read behind it.
Settled(r, c, o) ==
  /\ r.command = "add" => \A n \in r.entries : n > c /\ n \notin o
  /\ r.command = "trim" => c = 0 \/ \A n \in r.entries : n <= c
  /\ r.command = "read" => \E n \in r.entries : c <= n

Ordered(rs, o) == \A p, q \in DOMAIN rs : p < q => Fits(rs[p], rs[q], o)

InLine(rs, c, o) == Ordered(rs, o) /\ \A r \in ToSet(rs) : Settled(r, c, o)

Has(Q, command, n) == \E r \in Q : r.command = command /\ n \in r.entries

\* A poll to come reads it, at the latest once the replies in Q have moved the cursor.
Later(Q, c, o, n) ==
  /\ n \notin o /\ ~Has(Q, "add", n) /\ ~Has(Q, "trim", n)
  /\ \/ c # 0 /\ n > c
     \/ \E m \in Entries : Has(Q, "add", m) /\ m < n
     \/ \E r \in Q : r.command = "read" /\ \A m \in r.entries : m < n

\* What an instance with the replies Q under way may yet write to its sockets.
Ahead(Q, c, o, n) ==
  \/ Has(Q, "add", n) \/ Has(Q, "trim", n)
  \/ Has(Q, "read", n) /\ n \notin o
  \/ Later(Q, c, o, n)

LEMMA OrderedTail ==
  ASSUME NEW rs \in Seq(Answers), rs # <<>>, NEW o, Ordered(rs, o)
  PROVE  Ordered(Tail(rs), o) /\ \A r \in ToSet(Tail(rs)) : Fits(Head(rs), r, o)
<1> USE QueueTail
<1>1. ASSUME NEW p \in DOMAIN Tail(rs), NEW q \in DOMAIN Tail(rs), p < q
      PROVE  Fits(Tail(rs)[p], Tail(rs)[q], o)
  <2>1. p + 1 \in DOMAIN rs /\ q + 1 \in DOMAIN rs /\ p + 1 < q + 1
    BY <1>1
  <2> QED
    BY <1>1, <2>1 DEF Ordered
<1>2. ASSUME NEW p \in DOMAIN Tail(rs) PROVE Fits(Head(rs), Tail(rs)[p], o)
  <2>1. 1 \in DOMAIN rs /\ p + 1 \in DOMAIN rs /\ 1 < p + 1
    BY <1>2
  <2> QED
    BY <1>2, <2>1 DEF Ordered
<1> QED
  BY <1>1, <1>2 DEF Ordered, ToSet

LEMMA OrderedAppend ==
  ASSUME NEW rs \in Seq(Answers), NEW r \in Answers, NEW o, Ordered(rs, o),
         \A a \in ToSet(rs) : Fits(a, r, o)
  PROVE  Ordered(Append(rs, r), o)
<1> USE QueueAppend
<1>1. \A p \in DOMAIN rs : Fits(rs[p], r, o)
  BY DEF ToSet
<1>2. ASSUME NEW p \in DOMAIN Append(rs, r), NEW q \in DOMAIN Append(rs, r), p < q
      PROVE  Fits(Append(rs, r)[p], Append(rs, r)[q], o)
  <2>1. p \in DOMAIN rs
    BY <1>2
  <2>2. CASE q \in DOMAIN rs
    BY <1>2, <2>1, <2>2 DEF Ordered
  <2>3. CASE q = Len(rs) + 1
    BY <1>1, <1>2, <2>1, <2>3
  <2> QED
    BY <1>2, <2>2, <2>3
<1> QED
  BY <1>2 DEF Ordered

\* The replies that a queue holds are answers, of a command that has one.
LEMMA SetOfAnswers ==
  ASSUME NEW rs \in Seq(Answers)
  PROVE  \A r \in ToSet(rs) : r \in Answers
BY LenProperties DEF ToSet

LEMMA LineTail ==
  ASSUME NEW rs \in Seq(Answers), rs # <<>>, NEW c, NEW o, InLine(rs, c, o)
  PROVE  /\ InLine(Tail(rs), c, o) /\ Settled(Head(rs), c, o)
         /\ \A r \in ToSet(Tail(rs)) : Fits(Head(rs), r, o)
         /\ ToSet(rs) = ToSet(Tail(rs)) \cup {Head(rs)}
         /\ \A r \in ToSet(rs) : r \in Answers
<1>1. ToSet(rs) = ToSet(Tail(rs)) \cup {Head(rs)} /\ \A r \in ToSet(rs) : r \in Answers
  BY Dropped, SetOfAnswers
<1> QED
  BY <1>1, OrderedTail DEF InLine

LEMMA LineAppend ==
  ASSUME NEW rs \in Seq(Answers), NEW r \in Answers, NEW c, NEW o, InLine(rs, c, o),
         Settled(r, c, o), \A a \in ToSet(rs) : Fits(a, r, o)
  PROVE  InLine(Append(rs, r), c, o) /\ ToSet(Append(rs, r)) = ToSet(rs) \cup {r}
BY OrderedAppend, Appended DEF InLine

\* Post: nothing else comes to be ahead.
LEMMA PostedLine ==
  ASSUME NEW rs \in Seq(Answers), NEW c \in Nat, NEW o \in SUBSET Entries, InLine(rs, c, o),
         NEW n \in Entries, c < n, n \notin o,
         \A r \in ToSet(rs) : \A m \in r.entries : m < n
  PROVE  LET r == Reply("add", {n}, 0) IN
         /\ InLine(Append(rs, r), c, o)
         /\ \A m \in Entries : m < n /\ Ahead(ToSet(Append(rs, r)), c, o, m) =>
              Ahead(ToSet(rs), c, o, m)
<1> DEFINE r == Reply("add", {n}, 0)
<1>1. r \in Answers /\ r.command = "add" /\ r.entries = {n}
  BY ReplyTypes, EntriesAreNumbers DEF Commands
<1> HIDE DEF r
<1>2. Settled(r, c, o)
  BY <1>1 DEF Settled, Entries
<1>3. \A a \in ToSet(rs) : Fits(a, r, o)
  BY <1>1 DEF Fits, Below
<1>4. InLine(Append(rs, r), c, o) /\ ToSet(Append(rs, r)) = ToSet(rs) \cup {r}
  BY <1>1, <1>2, <1>3, LineAppend
<1>5. ASSUME NEW m \in Entries, m < n, Ahead(ToSet(rs) \cup {r}, c, o, m)
      PROVE  Ahead(ToSet(rs), c, o, m)
  <2>1. \A x \in Entries : Has(ToSet(rs) \cup {r}, "add", x) <=> Has(ToSet(rs), "add", x) \/ x = n
    BY <1>1 DEF Has
  <2>2. /\ Has(ToSet(rs) \cup {r}, "trim", m) <=> Has(ToSet(rs), "trim", m)
        /\ Has(ToSet(rs) \cup {r}, "read", m) <=> Has(ToSet(rs), "read", m)
    BY <1>1 DEF Has
  <2>3. m # n /\ ~(n < m)
    BY <1>5, EntriesAreNumbers
  <2>4. Later(ToSet(rs) \cup {r}, c, o, m) => Later(ToSet(rs), c, o, m)
    BY <1>1, <2>1, <2>2, <2>3 DEF Later
  <2> QED
    BY <1>5, <2>1, <2>2, <2>3, <2>4 DEF Ahead
<1> QED
  BY <1>4, <1>5 DEF r

\* Added: the notification waits for its XTRIM then.
LEMMA AddedLine ==
  ASSUME NEW rs \in Seq(Answers), rs # <<>>, NEW c \in Nat, NEW o \in SUBSET Entries,
         InLine(rs, c, o), NEW n \in Entries,
         Head(rs).command = "add", Head(rs).entries = {n}
  PROVE  LET r == Reply("trim", {n}, 0) IN
         /\ InLine(Append(Tail(rs), r), n, o \cup {n})
         /\ \A m \in Entries : Ahead(ToSet(Append(Tail(rs), r)), n, o \cup {n}, m) =>
              Ahead(ToSet(rs), c, o, m)
<1> DEFINE r == Reply("trim", {n}, 0)
           h == Head(rs)
           T == ToSet(Tail(rs))
<1>1. r \in Answers /\ r.command = "trim" /\ r.entries = {n}
  BY ReplyTypes, EntriesAreNumbers DEF Commands
<1>2. /\ InLine(Tail(rs), c, o) /\ Settled(h, c, o) /\ \A a \in T : Fits(h, a, o)
      /\ ToSet(rs) = T \cup {h} /\ Tail(rs) \in Seq(Answers)
  BY LineTail, QueueTail
<1>3. \A a \in T : a.entries \subseteq Entries
  BY <1>2, SetOfAnswers DEF Answers
<1>4. h.command = "add" /\ h.entries = {n}
  OBVIOUS
<1>5. /\ \A a \in T : a.command = "add" => \A m \in a.entries : n < m
      /\ \A a \in T : a.command = "trim" => \A m \in a.entries : m < n
      /\ \A a \in T : a.command = "read" => n \in a.entries
  <2> HIDE DEF h, T
  <2> QED
    BY <1>2, <1>4 DEF Fits, Below
<1>6. n > c /\ n \notin o
  <2> HIDE DEF h, T
  <2> QED
    BY <1>2, <1>4 DEF Settled
<1> HIDE DEF r, h, T
<1>7. InLine(Tail(rs), n, o \cup {n})
  <2>1. Ordered(Tail(rs), o \cup {n})
    BY <1>2 DEF InLine, Ordered, Fits, Covers
  <2>2. \A a \in T : Settled(a, n, o \cup {n})
    BY <1>2, <1>3, <1>5 DEF InLine, Settled, Entries, T
  <2> QED
    BY <2>1, <2>2 DEF InLine, T
<1>8. \A a \in T : Fits(a, r, o \cup {n})
  BY <1>1, <1>3, <1>5 DEF Fits, Below, Covers, Entries
<1>9. Settled(r, n, o \cup {n})
  BY <1>1 DEF Settled, Entries
<1>10. InLine(Append(Tail(rs), r), n, o \cup {n}) /\ ToSet(Append(Tail(rs), r)) = T \cup {r}
  BY <1>1, <1>2, <1>7, <1>8, <1>9, LineAppend DEF T
<1>11. ASSUME NEW m \in Entries, Ahead(T \cup {r}, n, o \cup {n}, m)
       PROVE  Ahead(T \cup {h}, c, o, m)
  <2>1. \A x : Has(T \cup {r}, "add", x) => Has(T \cup {h}, "add", x)
    BY <1>1 DEF Has
  <2>2. /\ Has(T \cup {r}, "trim", m) <=> Has(T, "trim", m) \/ m = n
        /\ Has(T \cup {h}, "trim", m) <=> Has(T, "trim", m)
        /\ Has(T \cup {r}, "read", m) <=> Has(T \cup {h}, "read", m)
        /\ Has(T \cup {h}, "add", m) <=> Has(T, "add", m) \/ m = n
        /\ Has(T \cup {r}, "add", m) <=> Has(T, "add", m)
    BY <1>1, <1>4 DEF Has
  <2>3. Has(T \cup {h}, "add", n)
    BY <1>4 DEF Has
  <2>4. CASE Later(T \cup {r}, n, o \cup {n}, m)
    <3>1. /\ m \notin o /\ m # n /\ ~Has(T \cup {h}, "add", m) /\ ~Has(T \cup {h}, "trim", m)
      BY <2>2, <2>4 DEF Later
    <3>2. CASE m > n
      BY <2>3, <3>1, <3>2 DEF Ahead, Later
    <3>3. CASE \E x \in Entries : Has(T \cup {r}, "add", x) /\ x < m
      BY <2>1, <3>1, <3>3 DEF Ahead, Later
    <3>4. CASE \E a \in T \cup {r} : a.command = "read" /\ \A x \in a.entries : x < m
      BY <1>1, <3>1, <3>4 DEF Ahead, Later
    <3> QED
      BY <2>4, <3>2, <3>3, <3>4 DEF Later
  <2> QED
    BY <1>11, <2>2, <2>4 DEF Ahead
<1> QED
  BY <1>2, <1>10, <1>11 DEF r

\* Trimmed: what is written is ahead no more.
LEMMA TrimmedLine ==
  ASSUME NEW rs \in Seq(Answers), rs # <<>>, NEW c \in Nat, NEW o \in SUBSET Entries,
         InLine(rs, c, o), NEW n \in Entries,
         Head(rs).command = "trim", Head(rs).entries = {n}
  PROVE  /\ InLine(Tail(rs), c, o)
         /\ \A m \in Entries : Ahead(ToSet(Tail(rs)), c, o, m) => Ahead(ToSet(rs), c, o, m)
         /\ Ahead(ToSet(rs), c, o, n) /\ ~Ahead(ToSet(Tail(rs)), c, o, n)
<1> DEFINE h == Head(rs)
           T == ToSet(Tail(rs))
<1>1. /\ InLine(Tail(rs), c, o) /\ Settled(h, c, o) /\ \A a \in T : Fits(h, a, o)
      /\ ToSet(rs) = T \cup {h} /\ Tail(rs) \in Seq(Answers)
  BY LineTail, QueueTail
<1>2. \A a \in T : a.entries \subseteq Entries
  BY <1>1, SetOfAnswers DEF Answers
<1>3. h.command = "trim" /\ h.entries = {n}
  OBVIOUS
<1> HIDE DEF h, T
<1>4. /\ \A a \in T : a.command = "add" => \A m \in a.entries : n < m
      /\ \A a \in T : a.command = "trim" => n \notin a.entries
      /\ \A a \in T : a.command = "read" =>
           (n \in a.entries => n \in o) /\ \E x \in a.entries : n <= x
      /\ c = 0 \/ n <= c
  BY <1>1, <1>3 DEF Fits, Below, Covers, Settled
<1>5. /\ \A m : Has(T \cup {h}, "add", m) <=> Has(T, "add", m)
      /\ \A m : Has(T \cup {h}, "trim", m) <=> Has(T, "trim", m) \/ m = n
      /\ \A m : Has(T \cup {h}, "read", m) <=> Has(T, "read", m)
  BY <1>3 DEF Has
<1>6. \A m \in Entries : Ahead(T, c, o, m) => Ahead(T \cup {h}, c, o, m)
  BY <1>5 DEF Ahead, Later
<1>7. Ahead(T \cup {h}, c, o, n)
  BY <1>5 DEF Ahead
<1>8. ~Ahead(T, c, o, n)
  <2>1. ~Has(T, "add", n) /\ ~Has(T, "trim", n) /\ (Has(T, "read", n) => n \in o)
    BY <1>4 DEF Has, Entries
  <2>2. ~Later(T, c, o, n)
    <3>1. ~(c # 0 /\ n > c)
      BY <1>4 DEF Entries
    <3>2. ~\E m \in Entries : Has(T, "add", m) /\ m < n
      BY <1>4 DEF Has, Entries
    <3>3. ~\E a \in T : a.command = "read" /\ \A m \in a.entries : m < n
      BY <1>2, <1>4 DEF Entries
    <3> QED
      BY <3>1, <3>2, <3>3 DEF Later
  <2> QED
    BY <2>1, <2>2 DEF Ahead
<1> QED
  BY <1>1, <1>6, <1>7, <1>8 DEF T

\* PollStream, where no other poll is under way.
LEMMA PolledLine ==
  ASSUME NEW rs \in Seq(Answers), NEW c \in Nat, NEW o \in SUBSET Entries, InLine(rs, c, o),
         NEW S \in SUBSET Entries, c # 0, NEW r \in Answers, r.command = "read",
         r.entries = {n \in S : n > c}, r.entries # {},
         \A a \in ToSet(rs) : a.entries \subseteq S /\ a.command # "read"
  PROVE  /\ InLine(Append(rs, r), c, o)
         /\ \A m \in Entries : Ahead(ToSet(Append(rs, r)), c, o, m) => Ahead(ToSet(rs), c, o, m)
<1> DEFINE Q == ToSet(rs)
<1>1. r \in Answers /\ r.command = "read" /\ r.entries = {n \in S : n > c}
  OBVIOUS
<1>2. \A a \in Q : Settled(a, c, o) /\ a.entries \subseteq S /\ a.command # "read"
  BY DEF InLine
<1>3. \E n \in S : n > c
  OBVIOUS
<1>4. Settled(r, c, o)
  <2>1. PICK n \in S : n > c
    BY <1>3
  <2>2. n \in r.entries
    BY <1>1, <2>1, Zenon
  <2>3. c <= n
    BY <2>1, EntriesAreNumbers
  <2> QED
    BY <1>1, <2>2, <2>3, Zenon DEF Settled
<1>5. \A a \in Q : Fits(a, r, o)
  <2> HIDE DEF Q
  <2>1. \A a \in Q : a.command = "add" => a.entries \subseteq r.entries
    BY <1>1, <1>2 DEF Settled
  <2>2. ASSUME NEW a \in Q, a.command = "trim", NEW n \in a.entries
        PROVE  n \notin r.entries /\ \E x \in r.entries : n <= x
    <3>1. n <= c /\ n \in Nat
      BY <1>2, <2>2, EntriesAreNumbers DEF Settled
    <3>2. PICK x \in S : x > c
      BY <1>3
    <3>3. x \in r.entries /\ x \in Nat /\ n <= x
      BY <1>1, <3>1, <3>2, EntriesAreNumbers
    <3> QED
      BY <1>1, <3>1, <3>3
  <2> QED
    BY <1>1, <1>2, <2>1, <2>2 DEF Fits, Covers
<1>6. InLine(Append(rs, r), c, o) /\ ToSet(Append(rs, r)) = Q \cup {r}
  BY <1>1, <1>4, <1>5, LineAppend
<1> HIDE DEF Q
<1>7. ASSUME NEW m \in Entries, Ahead(Q \cup {r}, c, o, m) PROVE Ahead(Q, c, o, m)
  <2>1. /\ \A x : Has(Q \cup {r}, "add", x) <=> Has(Q, "add", x)
        /\ Has(Q \cup {r}, "trim", m) <=> Has(Q, "trim", m)
        /\ Has(Q \cup {r}, "read", m) => m > c
    BY <1>1, <1>2 DEF Has
  <2>2. ~Has(Q, "add", m) /\ ~Has(Q, "trim", m) /\ m \notin o /\ m > c => Later(Q, c, o, m)
    BY DEF Later
  <2>3. Later(Q \cup {r}, c, o, m) => Later(Q, c, o, m)
    <3>1. (\A x \in r.entries : x < m) => m > c
      BY <1>1, <1>3, EntriesAreNumbers
    <3> QED
      BY <1>1, <1>2, <2>1, <3>1 DEF Later
  <2> QED
    BY <1>7, <2>1, <2>2, <2>3 DEF Ahead
<1> QED
  BY <1>6, <1>7 DEF Q

\* PollAnswered: what it writes is ahead no more.
LEMMA ReadLine ==
  ASSUME NEW rs \in Seq(Answers), rs # <<>>, NEW c \in Nat, NEW o \in SUBSET Entries,
         InLine(rs, c, o), NEW S \in SUBSET Entries, S # {},
         Head(rs).command = "read", Head(rs).entries = S
  PROVE  /\ InLine(Tail(rs), Max(S), o \ S)
         /\ \A m \in Entries : Ahead(ToSet(Tail(rs)), Max(S), o \ S, m) =>
              Ahead(ToSet(rs), c, o, m)
         /\ \A n \in S \ o : /\ Ahead(ToSet(rs), c, o, n)
                             /\ ~Ahead(ToSet(Tail(rs)), Max(S), o \ S, n)
<1> DEFINE h == Head(rs)
           T == ToSet(Tail(rs))
           g == Max(S)
<1>1. /\ InLine(Tail(rs), c, o) /\ \A a \in T : Fits(h, a, o)
      /\ ToSet(rs) = T \cup {h} /\ Tail(rs) \in Seq(Answers)
  BY LineTail, QueueTail
<1>2. \A a \in T : a.entries \subseteq Entries
  BY <1>1, SetOfAnswers DEF Answers
<1>3. h.command = "read" /\ h.entries = S
  OBVIOUS
<1>4. g \in S /\ \A x \in S : x <= g
  BY Greatest, EntriesAreNumbers
<1> HIDE DEF h, T, g
<1>5. /\ \A a \in T : a.command # "read"
      /\ \A a \in T : a.command = "add" => \A x \in S, m \in a.entries : x < m
      /\ \A a \in T : a.command = "trim" =>
           \A n \in a.entries : (n \in S => n \in o) /\ \E x \in S : n <= x
  BY <1>1, <1>3 DEF Fits, Below, Covers
<1>6. \A a \in T : a.command = "trim" => \A n \in a.entries : n <= g
  BY <1>2, <1>4, <1>5 DEF Entries
<1>7. InLine(Tail(rs), g, o \ S)
  <2>1. \A p \in DOMAIN Tail(rs) : Tail(rs)[p] \in T
    BY DEF T, ToSet
  <2>2. Ordered(Tail(rs), o \ S)
    <3>1. ASSUME NEW a \in T, NEW b \in T, Fits(a, b, o) PROVE Fits(a, b, o \ S)
      BY <1>5, <3>1 DEF Fits
    <3> QED
      BY <1>1, <2>1, <3>1 DEF InLine, Ordered
  <2>3. \A a \in T : Settled(a, g, o \ S)
    <3>1. ASSUME NEW a \in T PROVE Settled(a, g, o \ S)
      <4>1. Settled(a, c, o)
        BY <1>1 DEF InLine, T
      <4> QED
        BY <1>2, <1>4, <1>5, <1>6, <4>1 DEF Settled, Entries
    <3> QED
      BY <3>1
  <2> QED
    BY <2>2, <2>3 DEF InLine, T
<1>8. /\ \A m : Has(T \cup {h}, "add", m) <=> Has(T, "add", m)
      /\ \A m : Has(T \cup {h}, "trim", m) <=> Has(T, "trim", m)
      /\ \A m : Has(T \cup {h}, "read", m) <=> m \in S
      /\ \A m : ~Has(T, "read", m)
  BY <1>3, <1>5 DEF Has
<1>9. ASSUME NEW m \in Entries, Later(T, g, o \ S, m)
      PROVE  m \notin S /\ Later(T \cup {h}, c, o, m)
  <2>1. m \notin S
    <3>1. CASE m > g
      BY <1>4, <3>1 DEF Entries
    <3>2. CASE \E x \in Entries : Has(T, "add", x) /\ x < m
      BY <1>5, <3>2 DEF Has, Entries
    <3> QED
      BY <1>5, <1>9, <3>1, <3>2 DEF Later
  <2>2. m \notin o /\ ~Has(T \cup {h}, "add", m) /\ ~Has(T \cup {h}, "trim", m)
    BY <1>8, <1>9, <2>1 DEF Later
  <2>3. CASE m > g
    <3>1. \A x \in S : x < m
      BY <1>4, <2>3 DEF Entries
    <3> QED
      BY <1>3, <2>1, <2>2, <3>1 DEF Later
  <2>4. CASE \E x \in Entries : Has(T, "add", x) /\ x < m
    BY <1>8, <2>1, <2>2, <2>4 DEF Later
  <2> QED
    BY <1>5, <1>9, <2>3, <2>4 DEF Later
<1>10. \A m \in Entries : Ahead(T, g, o \ S, m) => Ahead(T \cup {h}, c, o, m)
  BY <1>8, <1>9 DEF Ahead
<1>11. ASSUME NEW n \in S \ o
       PROVE  Ahead(T \cup {h}, c, o, n) /\ ~Ahead(T, g, o \ S, n)
  <2>1. Ahead(T \cup {h}, c, o, n)
    BY <1>8 DEF Ahead
  <2>2. ~Has(T, "add", n) /\ ~Has(T, "trim", n)
    BY <1>5, EntriesAreNumbers DEF Has
  <2>3. ~Later(T, g, o \ S, n)
    BY <1>9
  <2> QED
    BY <1>8, <2>1, <2>2, <2>3 DEF Ahead
<1> QED
  BY <1>1, <1>7, <1>10, <1>11 DEF T, g

\* A reply that writes nothing of what is ahead: a poll that failed, a catch-up.
LEMMA DroppedLine ==
  ASSUME NEW rs \in Seq(Answers), rs # <<>>, NEW c, NEW o, InLine(rs, c, o),
         Head(rs).command \in {"read", "range"}
  PROVE  /\ InLine(Tail(rs), c, o)
         /\ \A m \in Entries : Ahead(ToSet(Tail(rs)), c, o, m) => Ahead(ToSet(rs), c, o, m)
<1> DEFINE h == Head(rs)
           T == ToSet(Tail(rs))
<1>1. InLine(Tail(rs), c, o) /\ ToSet(rs) = T \cup {h} /\ h.command \in {"read", "range"}
  BY LineTail
<1> HIDE DEF h, T
<1>2. /\ \A m : Has(T \cup {h}, "add", m) <=> Has(T, "add", m)
      /\ \A m : Has(T \cup {h}, "trim", m) <=> Has(T, "trim", m)
      /\ \A m : Has(T, "read", m) => Has(T \cup {h}, "read", m)
  BY <1>1 DEF Has
<1>3. \A m \in Entries : Ahead(T, c, o, m) => Ahead(T \cup {h}, c, o, m)
  BY <1>2 DEF Ahead, Later
<1> QED
  BY <1>1, <1>3 DEF T

\* Register: a catch-up behind an instance that has nothing to send.
LEMMA RangeLine ==
  ASSUME NEW rs \in Seq(Answers), NEW c \in Nat, NEW o, InLine(rs, c, o),
         NEW k \in Attempts, NEW S \in SUBSET Entries,
         \A r \in ToSet(rs) : r.command = "range" /\ r.socket = k => FALSE
  PROVE  LET r == Reply("range", S, k) IN
         /\ InLine(Append(rs, r), c, o)
         /\ \A m \in Entries : Ahead(ToSet(Append(rs, r)), c, o, m) => Ahead(ToSet(rs), c, o, m)
<1> DEFINE r == Reply("range", S, k)
           Q == ToSet(rs)
<1>1. r \in Answers /\ r.command = "range" /\ r.socket = k
  BY EntriesAreNumbers DEF Reply, Answers, Commands
<1> HIDE DEF r
<1>2. Settled(r, c, o) /\ \A a \in Q : Fits(a, r, o)
  BY <1>1 DEF Settled, Fits
<1>3. InLine(Append(rs, r), c, o) /\ ToSet(Append(rs, r)) = Q \cup {r}
  BY <1>1, <1>2, LineAppend
<1> HIDE DEF Q
<1>4. \A m : \A d \in {"add", "trim", "read"} : Has(Q \cup {r}, d, m) <=> Has(Q, d, m)
  BY <1>1 DEF Has
<1>5. \A m \in Entries : Ahead(Q \cup {r}, c, o, m) => Ahead(Q, c, o, m)
  BY <1>1, <1>4 DEF Ahead, Later
<1> QED
  BY <1>3, <1>5 DEF r, Q

\* Abandon: what a socket that is gone was to catch up with is void.
LEMMA VoidedLine ==
  ASSUME NEW rs \in Seq(Answers), NEW c, NEW o, InLine(rs, c, o), NEW K
  PROVE  LET vs == [q \in DOMAIN rs |-> Voided(rs[q], K)] IN
         /\ InLine(vs, c, o)
         /\ \A m \in Entries : Ahead(ToSet(vs), c, o, m) => Ahead(ToSet(rs), c, o, m)
<1> DEFINE vs == [q \in DOMAIN rs |-> Voided(rs[q], K)]
<1>1. DOMAIN vs = DOMAIN rs /\ \A q \in DOMAIN rs : vs[q] = Voided(rs[q], K)
  OBVIOUS
<1> HIDE DEF vs
<1>2. \A r : /\ Voided(r, K).command = r.command
             /\ r.command # "range" => Voided(r, K) = r
             /\ Voided(r, K) = r \/ Voided(r, K).socket = 0
  BY DEF Voided, Reply
<1>3. InLine(vs, c, o)
  <2>1. ASSUME NEW a, NEW b, Fits(a, b, o) PROVE Fits(Voided(a, K), Voided(b, K), o)
    <3>1. CASE a.command # "range" /\ b.command # "range"
      BY <1>2, <2>1, <3>1
    <3>2. CASE a.command = "range" \/ b.command = "range"
      BY <1>2, <2>1, <3>2 DEF Fits
    <3> QED
      BY <3>1, <3>2
  <2>2. ASSUME NEW r, Settled(r, c, o) PROVE Settled(Voided(r, K), c, o)
    BY <1>2, <2>2 DEF Settled
  <2>3. Ordered(vs, o)
    BY <1>1, <2>1 DEF InLine, Ordered
  <2> QED
    BY <1>1, <2>2, <2>3 DEF InLine, ToSet
<1>4. \A m : \A d \in {"add", "trim", "read"} : Has(ToSet(vs), d, m) <=> Has(ToSet(rs), d, m)
  BY <1>1, <1>2 DEF Has, ToSet
<1>5. \A r : r \in ToSet(vs) /\ r.command = "read" => r \in ToSet(rs)
  BY <1>1, <1>2 DEF ToSet
<1>6. \A m \in Entries : Ahead(ToSet(vs), c, o, m) => Ahead(ToSet(rs), c, o, m)
  BY <1>4, <1>5 DEF Ahead, Later
<1> QED
  BY <1>3, <1>6 DEF vs

\* Unregister, where the cursor goes.
LEMMA ForgottenLine ==
  ASSUME NEW rs \in Seq(Answers), NEW c \in Nat, NEW o \in SUBSET Entries, InLine(rs, c, o)
  PROVE  /\ InLine(rs, 0, o)
         /\ \A m \in Entries : Ahead(ToSet(rs), 0, o, m) => Ahead(ToSet(rs), c, o, m)
<1>1. \A r \in ToSet(rs) : r \in Answers /\ r.entries \subseteq Entries /\ Settled(r, c, o)
  BY SetOfAnswers DEF InLine, Answers
<1>2. \A r \in ToSet(rs) : Settled(r, 0, o)
  BY <1>1 DEF Settled, Entries
<1> QED
  BY <1>2 DEF InLine, Ahead, Later

LEMMA EmptyLine ==
  /\ InLine(<<>>, 0, {})
  /\ \A m \in Entries : ~Ahead(ToSet(<<>>), 0, {}, m)
<1>1. ToSet(<<>>) = {} /\ DOMAIN <<>> = {}
  BY EmptySeq DEF ToSet
<1> QED
  BY <1>1 DEF InLine, Ordered, Ahead, Later, Has

-----------------------------------------------------------------------------
(* The client among the servers.                                           *)

LEMMA RealtimeStepIsClientStep == [RealtimeNext]_realtimeVars => [Next]_vars
<1> SUFFICES ASSUME [RealtimeNext]_realtimeVars PROVE [Next]_vars
  OBVIOUS
<1>1. CASE ClientStep
  BY <1>1 DEF ClientStep
<1>2. ASSUME NEW i \in Instances, Registry(i) PROVE UNCHANGED vars
  BY <1>2 DEF Registry, Post, PostUnstreamed, Added, AddUnanswered, Trimmed, PollStream,
              PollAnswered, PollFails, CaughtUp, CatchUpFails, Unregister, Restart
<1>3. ASSUME NEW k \in Attempts, Cut(k) PROVE UNCHANGED vars
  BY <1>3 DEF Cut
<1>4. CASE UNCHANGED realtimeVars
  BY <1>4 DEF realtimeVars
<1> QED
  BY <1>1, <1>2, <1>3, <1>4 DEF RealtimeNext

LEMMA RealtimeTypes == RealtimeSpec => [](TypeOK /\ SavedInv /\ ServerTypes /\ QueueInv)
<1>1. RealtimeInit => TypeOK /\ SavedInv /\ ServerTypes /\ QueueInv
  BY InitServers, InitTypeOK DEF RealtimeInit
<1>2. TypeOK /\ SavedInv /\ ServerTypes /\ QueueInv /\ [RealtimeNext]_realtimeVars =>
        (TypeOK /\ SavedInv /\ ServerTypes /\ QueueInv)'
  BY NextServerTypes, NextTypeOK, RealtimeStepIsClientStep
<1> QED
  BY <1>1, <1>2, PTL DEF RealtimeSpec

\* Every reply a server instance waits for brings notifications of the stream, and what
\* each instance, socket and client holds of ids is one of a notification that exists
\* (packages/server/src/transport/registry.ts:62-219).
THEOREM RealtimeTypeCorrect == RealtimeSpec => []RealtimeTypeOK
BY RealtimeTypes, TypesAgree, PTL

\* Whatever the servers do with its sockets, the client behaves as module Client says
\* (packages/js/src/client.ts:137-326): among them, too, no action is lost, the last one
\* wins and no live socket is unaccounted for.
THEOREM ClientAmongServers ==
  RealtimeSpec => []NothingLost /\ []LastActionWins /\ []SocketsAccountedFor
<1>1. RealtimeInit => Init
  BY DEF RealtimeInit
<1>2. RealtimeSpec => Spec
  BY <1>1, RealtimeStepIsClientStep, PTL DEF RealtimeSpec, Spec
<1> QED
  BY <1>2, NothingIsLost, LastWordIsTheUsers, SocketsAccounted, PTL
-----------------------------------------------------------------------------
(* Seen once.                                                              *)

AheadAt(i, n) == Ahead(ToSet(replies[i]), cursor[i], own[i], n)

AllInLine == \A i \in Instances : InLine(replies[i], cursor[i], own[i])

\* What an instance knows of ids, it knows of notifications that exist.
KnownInv == \A i \in Instances : cursor[i] \in 0 .. posted /\ own[i] \subseteq stream

\* A registered socket is an open one, and so is one that waits for its catch-up.
HomeInv ==
  /\ \A k \in Attempts : home[k] # Nowhere => Linked(adapter[k])
  /\ \A i \in Instances : \A r \in ToSet(replies[i]) :
       r.command = "range" /\ r.socket # 0 => home[r.socket] = i

\* The client hears what comes over this socket.
Placed(k) == k \in wired /\ home[k] # Nowhere

OneSocket == \A j, k \in Attempts : Placed(j) /\ Placed(k) => j = k

SeenInv ==
  /\ \A n \in stream : seen[n] > 0 => n <= resumeId
  /\ \A n \in Entries : seen[n] <= 1 /\ (n > posted => seen[n] = 0)

\* What is ahead of the client's socket, or about to be caught up with, is unseen, and
\* it is not both.
ViewAt(k, i) ==
  /\ lastId[k] = resumeId
  /\ \A n \in stream : AheadAt(i, n) => seen[n] = 0
  /\ \A r \in ToSet(replies[i]) : r.command = "range" /\ r.socket = k =>
       \A n \in r.entries : n \in Entries => seen[n] = 0 /\ ~AheadAt(i, n)

Views == \A k \in Attempts, i \in Instances : k \in wired /\ home[k] = i => ViewAt(k, i)

Once == AllInLine /\ OneSocket /\ SeenInv /\ Views

OnceInv == ~doubled => Once

LEMMA InitOnce == RealtimeInit => KnownInv /\ HomeInv /\ OnceInv
<1> SUFFICES ASSUME RealtimeInit PROVE KnownInv /\ HomeInv /\ OnceInv
  OBVIOUS
<1>1. /\ posted = 0 /\ stream = {} /\ resumeId = 0
      /\ \A i \in Instances : replies[i] = <<>> /\ cursor[i] = 0 /\ own[i] = {}
      /\ \A k \in Attempts : home[k] = Nowhere
      /\ \A n \in Entries : seen[n] = 0
  BY DEF RealtimeInit
<1>2. ToSet(<<>>) = {}
  BY EmptySeq DEF ToSet
<1>3. KnownInv /\ HomeInv
  BY <1>1, <1>2 DEF KnownInv, HomeInv
<1>4. AllInLine
  BY <1>1, EmptyLine DEF AllInLine
<1>5. OneSocket /\ SeenInv /\ Views
  BY <1>1, RealtimeAssumption DEF RealtimeAssumption, OneSocket, SeenInv, Views, Placed
<1> QED
  BY <1>3, <1>4, <1>5 DEF OnceInv, Once

LEMMA AppendedAny ==
  ASSUME NEW rs \in Seq(Answers), NEW r
  PROVE  ToSet(Append(rs, r)) = ToSet(rs) \cup {r}
<1>1. rs \in Seq(Answers \cup {r})
  BY SeqMonotonic
<1> QED
  BY <1>1, Appended

\* What a step of an instance does to the queues.
LEMMA RegistryQueue ==
  ASSUME ServerTypes, NEW i \in Instances, Registry(i)
  PROVE  /\ \A j \in Instances : j # i =>
              replies'[j] = replies[j] /\ cursor'[j] = cursor[j] /\ own'[j] = own[j]
         /\ \A r \in ToSet(replies'[i]) : r.command = "range" => r \in ToSet(replies[i])
         /\ adapter' = adapter /\ wired' = wired
<1>1. replies[i] \in Seq(Answers)
  BY DEF ServerTypes
<1>2. replies[i] # <<>> =>
        /\ Tail(replies[i]) \in Seq(Answers)
        /\ ToSet(Tail(replies[i])) \subseteq ToSet(replies[i])
  BY <1>1, Dropped
<1>3. ASSUME NEW S, NEW c \in Commands \ {"range"}, NEW rs \in Seq(Answers),
             NEW r \in ToSet(Append(rs, Reply(c, S, 0))), r.command = "range"
      PROVE  r \in ToSet(rs)
  <2>1. Reply(c, S, 0).command = c
    BY DEF Reply
  <2>2. ToSet(Append(rs, Reply(c, S, 0))) = ToSet(rs) \cup {Reply(c, S, 0)}
    BY AppendedAny
  <2> QED
    BY <1>3, <2>1, <2>2
<1>4. adapter' = adapter /\ wired' = wired
  BY DEF Registry, Post, PostUnstreamed, Added, AddUnanswered, Trimmed, PollStream, PollAnswered,
         PollFails, CaughtUp, CatchUpFails, Unregister, Restart, vars, connVars
<1>5. \A j \in Instances : j # i =>
        replies'[j] = replies[j] /\ cursor'[j] = cursor[j] /\ own'[j] = own[j]
  BY DEF Registry, Post, PostUnstreamed, Added, AddUnanswered, Trimmed, PollStream, PollAnswered,
         PollFails, CaughtUp, CatchUpFails, Unregister, Restart, Issue, Taken, ServerTypes
<1>6. \/ replies'[i] = replies[i] \/ replies'[i] = <<>>
      \/ replies[i] # <<>> /\ replies'[i] = Tail(replies[i])
      \/ \E S : \E c \in Commands \ {"range"} :
           \/ replies'[i] = Append(replies[i], Reply(c, S, 0))
           \/ replies[i] # <<>> /\ replies'[i] = Append(Tail(replies[i]), Reply(c, S, 0))
  <2>1. CASE Post(i) \/ PollStream(i)
    BY <2>1 DEF Post, PollStream, Issue, ServerTypes, Commands
  <2>2. CASE Added(i)
    BY <2>2 DEF Added, Comes, ServerTypes, Commands
  <2>3. CASE AddUnanswered(i) \/ Trimmed(i) \/ PollAnswered(i) \/ PollFails(i) \/ CaughtUp(i)
             \/ CatchUpFails(i)
    BY <2>3 DEF AddUnanswered, Trimmed, PollAnswered, PollFails, CaughtUp, CatchUpFails, Comes,
                Taken, ServerTypes
  <2>4. CASE PostUnstreamed(i) \/ Unregister(i) \/ Restart(i)
    BY <2>4 DEF PostUnstreamed, Unregister, Restart, ServerTypes
  <2> QED
    BY <2>1, <2>2, <2>3, <2>4 DEF Registry
<1>7. ToSet(<<>>) = {}
  BY EmptySeq DEF ToSet
<1>8. ASSUME NEW r \in ToSet(replies'[i]), r.command = "range" PROVE r \in ToSet(replies[i])
  <2>1. CASE replies'[i] = replies[i] \/ replies'[i] = <<>>
    BY <1>7, <1>8, <2>1
  <2>2. CASE replies[i] # <<>> /\ replies'[i] = Tail(replies[i])
    BY <1>2, <1>8, <2>2
  <2>3. ASSUME NEW S, NEW c \in Commands \ {"range"},
               \/ replies'[i] = Append(replies[i], Reply(c, S, 0))
               \/ replies[i] # <<>> /\ replies'[i] = Append(Tail(replies[i]), Reply(c, S, 0))
        PROVE  r \in ToSet(replies[i])
    <3>1. CASE replies'[i] = Append(replies[i], Reply(c, S, 0))
      BY <1>1, <1>3, <1>8, <3>1
    <3>2. CASE replies[i] # <<>> /\ replies'[i] = Append(Tail(replies[i]), Reply(c, S, 0))
      <4>1. r \in ToSet(Tail(replies[i]))
        BY <1>2, <1>3, <1>8, <3>2
      <4> QED
        BY <1>2, <3>2, <4>1
    <3> QED
      BY <2>3, <3>1, <3>2
  <2> QED
    BY <1>6, <2>1, <2>2, <2>3
<1> QED
  BY <1>4, <1>5, <1>8

LEMMA RegistryKnown ==
  ASSUME ServerTypes, QueueInv, KnownInv, NEW i \in Instances, Registry(i)
  PROVE  KnownInv' /\ posted <= posted' /\ posted' \in Nat /\ stream \subseteq stream'
<1>1. posted <= posted' /\ posted' \in Nat /\ stream \subseteq stream'
  BY Bounds DEF Registry, Post, PostUnstreamed, Added, AddUnanswered, Trimmed, PollStream,
                PollAnswered, PollFails, CaughtUp, CatchUpFails, Unregister, Restart
<1>2. \A j \in Instances : j # i => cursor'[j] = cursor[j] /\ own'[j] = own[j]
  BY RegistryQueue
<1>3. CASE cursor'[i] = cursor[i] /\ own'[i] = own[i]
  BY <1>1, <1>2, <1>3, Bounds DEF KnownInv
<1>4. CASE Added(i)
  <2>1. PICK n \in stream : Head(replies[i]).entries = {n}
    BY <1>4, HeadTypes DEF Added, Comes, Sound
  <2>2. Max(Head(replies[i]).entries) = n
    BY <2>1, Bounds, Greatest
  <2>3. cursor'[i] = n /\ own'[i] = own[i] \cup {n}
    BY <1>4, <2>2 DEF Added, ServerTypes
  <2>4. n \in 1 .. posted
    BY <2>1 DEF ServerTypes
  <2>5. n \in 0 .. posted'
    BY <1>1, <2>4, Bounds
  <2>6. own[i] \subseteq stream
    BY DEF KnownInv
  <2>7. cursor'[i] \in 0 .. posted' /\ own'[i] \subseteq stream'
    BY <1>1, <2>1, <2>3, <2>5, <2>6
  <2> QED
    BY <1>1, <1>2, <2>7, Bounds DEF KnownInv
<1>5. CASE PollAnswered(i)
  <2> DEFINE S == Head(replies[i]).entries
  <2>1. S # {} /\ S \subseteq stream
    BY <1>5, HeadTypes DEF PollAnswered, Comes, Sound
  <2>2. Max(S) \in S
    BY <2>1, Bounds, Greatest
  <2>3. cursor'[i] = Max(S) /\ own'[i] = own[i] \ S
    BY <1>5 DEF PollAnswered, ServerTypes
  <2> HIDE DEF S
  <2>4. Max(S) \in 1 .. posted
    <3>1. Max(S) \in stream
      BY <2>1, <2>2
    <3> QED
      BY <3>1 DEF ServerTypes
  <2>5. cursor'[i] \in 0 .. posted' /\ own'[i] \subseteq stream'
    BY <1>1, <2>3, <2>4, Bounds DEF KnownInv
  <2> QED
    BY <1>1, <1>2, <2>5, Bounds DEF KnownInv
<1>6. CASE Unregister(i) \/ Restart(i)
  <2>1. cursor'[i] \in {0, cursor[i]} /\ own'[i] \subseteq own[i]
    BY <1>6 DEF Unregister, Restart, ServerTypes
  <2> QED
    BY <1>1, <1>2, <2>1, Bounds DEF KnownInv
<1> QED
  BY <1>3, <1>4, <1>5, <1>6
     DEF Registry, Post, PostUnstreamed, AddUnanswered, Trimmed, PollStream, PollFails, CaughtUp,
         CatchUpFails

LEMMA RegistryHome ==
  ASSUME ServerTypes, HomeInv, NEW i \in Instances, Registry(i)
  PROVE  HomeInv' /\ \A k \in Attempts : home'[k] # Nowhere => home'[k] = home[k]
<1>1. CASE home' = home
  BY <1>1, RegistryQueue DEF HomeInv
<1>2. CASE Restart(i)
  <2>1. /\ home' = [k \in Attempts |-> IF home[k] = i THEN Nowhere ELSE home[k]]
        /\ replies'[i] = <<>>
    BY <1>2 DEF Restart, ServerTypes
  <2>2. ToSet(<<>>) = {}
    BY EmptySeq DEF ToSet
  <2>3. ASSUME NEW j \in Instances, NEW r \in ToSet(replies'[j]), r.command = "range", r.socket # 0
        PROVE  home'[r.socket] = j
    <3>1. j # i /\ r \in ToSet(replies[j]) /\ r \in Answers
      BY <2>1, <2>2, <2>3, RegistryQueue, SetOfAnswers DEF ServerTypes
    <3>2. home[r.socket] = j /\ r.socket \in Attempts
      BY <2>3, <3>1, ClientAssumption DEF ClientAssumption, HomeInv, Answers, Attempts
    <3> QED
      BY <2>1, <3>1, <3>2
  <2>4. \A k \in Attempts : home'[k] # Nowhere => home'[k] = home[k]
    BY <2>1
  <2>5. adapter' = adapter
    BY RegistryQueue
  <2> QED
    BY <2>3, <2>4, <2>5 DEF HomeInv
<1> QED
  BY <1>1, <1>2 DEF Registry, Post, PostUnstreamed, Added, AddUnanswered, Trimmed, PollStream,
       PollAnswered, PollFails, CaughtUp, CatchUpFails, Unregister, Write, clientSide

\* What becomes of the sockets and of what they are to catch up with where those of K close.
LEMMA AbandonHome ==
  ASSUME ServerTypes, HomeInv, NEW K \in SUBSET Attempts, Abandon(K)
  PROVE  /\ \A k \in Attempts : home'[k] = IF k \in K THEN Nowhere ELSE home[k]
         /\ \A i \in Instances : \A r \in ToSet(replies'[i]) :
              r.command = "range" /\ r.socket # 0 =>
                r \in ToSet(replies[i]) /\ home'[r.socket] = i /\ r.socket \in Attempts
<1>1. \A k \in Attempts : home'[k] = IF k \in K THEN Nowhere ELSE home[k]
  BY DEF Abandon
<1>2. ASSUME NEW i \in Instances, NEW r \in ToSet(replies'[i]), r.command = "range", r.socket # 0
      PROVE  r \in ToSet(replies[i]) /\ home'[r.socket] = i /\ r.socket \in Attempts
  <2>1. replies'[i] = [q \in DOMAIN replies[i] |-> Voided(replies[i][q], K)]
    BY DEF Abandon
  <2>2. PICK q \in DOMAIN replies[i] : r = Voided(replies[i][q], K)
    BY <2>1 DEF ToSet
  <2>3. replies[i][q] \in ToSet(replies[i])
    BY DEF ToSet
  <2>4. Reply("range", {}, 0).socket = 0
    BY DEF Reply
  <2>5. r = replies[i][q] /\ r.socket \notin K
    BY <1>2, <2>2, <2>4 DEF Voided
  <2>6. r \in Answers
    BY <2>3, <2>5, SetOfAnswers DEF ServerTypes
  <2>7. r.socket \in Attempts
    BY <1>2, <2>6, ClientAssumption DEF ClientAssumption, Answers, Attempts
  <2> QED
    BY <1>1, <1>2, <2>3, <2>5, <2>7 DEF HomeInv
<1> QED
  BY <1>1, <1>2

\* The client's steps open one socket at most, and it listens to no other one for that.
LEMMA Links ==
  ASSUME TypeOK, SocketsInv, Next
  PROVE  /\ \A k \in Attempts : Linked(adapter'[k]) /\ ~Linked(adapter[k]) =>
              /\ wired' \subseteq wired \cup {k}
              /\ \A j \in Attempts : j # k => adapter'[j] = adapter[j]
         /\ (\A k \in Attempts : Linked(adapter'[k]) => Linked(adapter[k])) => wired' \subseteq wired
         /\ reloads' # reloads => wired' = {}
<1> DEFINE Goal == /\ \A k \in Attempts : Linked(adapter'[k]) /\ ~Linked(adapter[k]) =>
                        /\ wired' \subseteq wired \cup {k}
                        /\ \A j \in Attempts : j # k => adapter'[j] = adapter[j]
                   /\ (\A k \in Attempts : Linked(adapter'[k]) => Linked(adapter[k])) =>
                        wired' \subseteq wired
                   /\ reloads' # reloads => wired' = {}
<1>0. adapter = [k \in Attempts |-> adapter[k]]
  BY DEF TypeOK
<1>1. ASSUME adapter' = adapter, wired' = wired, reloads' = reloads PROVE Goal
  BY <1>1
<1>2. ASSUME NEW j \in Attempts, NEW s, SetAdapter(j, s), wired' = wired, reloads' = reloads
      PROVE  Goal
  BY <1>0, <1>2 DEF SetAdapter
<1>3. ASSUME NEW j \in Attempts, Open(j) PROVE Goal
  <2>1. /\ \A k \in Attempts : adapter'[k] = IF k = j THEN "open" ELSE adapter[k]
        /\ wired' = wired \cup {j} /\ reloads' = reloads /\ adapter[j] = "opening"
    BY <1>0, <1>3 DEF Open, SetAdapter, SocketsInv, actionVars
  <2> QED
    BY <2>1 DEF Linked
<1>4. ASSUME Reload PROVE Goal
  BY <1>0, <1>4 DEF Reload, Linked
<1>5. ASSUME Disconnect PROVE Goal
  <2>1. transport # 0 => transport \in Attempts
    BY ClientAssumption DEF ClientAssumption, TypeOK, Attempts
  <2>2. wired' = wired /\ reloads' = reloads
    BY <1>5 DEF Disconnect, actionVars
  <2>3. adapter' = adapter \/ (transport # 0 /\ \E s : SetAdapter(transport, s))
    BY <1>5 DEF Disconnect
  <2> HIDE DEF Goal
  <2>4. CASE adapter' = adapter
    BY <1>1, <2>2, <2>4
  <2>5. CASE transport # 0 /\ \E s : SetAdapter(transport, s)
    <3>1. PICK s : SetAdapter(transport, s)
      BY <2>5
    <3> QED
      BY <1>2, <2>1, <2>2, <2>5, <3>1
  <2> QED
    BY <2>3, <2>4, <2>5
<1>6. ASSUME \/ Act \/ (\E a \in Actions : Answer(a) \/ Enqueued(a))
             \/ Replay \/ Saved \/ SaveFails
      PROVE  Goal
  BY <1>6 DEF Act, Answer, Enqueued, Replay, Saved, SaveFails, connVars, actionVars
<1>7. ASSUME NEW k \in Attempts, Connect(k) PROVE Goal
  BY <1>7 DEF Connect, actionVars
<1>8. ASSUME NEW k \in Attempts,
             \/ Restore(k) \/ RestoreFails(k) \/ OpenOvertaken(k) \/ OpenFails(k)
             \/ Lose(k) \/ Retry(k) \/ Reopen(k) \/ RetryFails(k)
      PROVE  Goal
  <2>1. wired' = wired /\ reloads' = reloads
    BY <1>8 DEF Restore, RestoreFails, OpenOvertaken, OpenFails, Lose, Retry, Reopen, RetryFails,
                SameQueue, actionVars
  <2>2. adapter' = adapter \/ \E s : SetAdapter(k, s)
    BY <1>8 DEF Restore, RestoreFails, OpenOvertaken, OpenFails, Lose, Retry, Reopen, RetryFails
  <2> HIDE DEF Goal
  <2> QED
    BY <1>1, <1>2, <2>1, <2>2
<1> HIDE DEF Goal
<1>9. ASSUME NEW k \in Attempts, Connect(k) \/ Own(k) \/ Socket(k) PROVE Goal
  BY <1>3, <1>7, <1>8, <1>9 DEF Own, Socket
<1>10. Goal
  BY <1>4, <1>5, <1>6, <1>9 DEF Next
<1> QED
  BY <1>10 DEF Goal

\* A step that shows nothing, and adds nothing to what is ahead.
LEMMA ViewKept ==
  ASSUME ServerTypes, OneSocket, SeenInv, Views,
         \A k \in Attempts : k \in wired' /\ home'[k] # Nowhere =>
           k \in wired /\ home'[k] = home[k] /\ lastId'[k] = lastId[k],
         UNCHANGED <<resumeId, seen, stream, posted>>,
         \A i \in Instances, n \in Entries : AheadAt(i, n)' => AheadAt(i, n),
         \A i \in Instances : \A r \in ToSet(replies'[i]) :
           r.command = "range" /\ r.socket # 0 => r \in ToSet(replies[i])
  PROVE  (OneSocket /\ SeenInv /\ Views)'
<1>1. OneSocket'
  BY DEF OneSocket, Placed
<1>2. SeenInv'
  BY DEF SeenInv
<1>3. ASSUME NEW k \in Attempts, NEW i \in Instances, k \in wired', home'[k] = i
      PROVE  ViewAt(k, i)'
  <2>1. i # Nowhere
    BY RealtimeAssumption DEF RealtimeAssumption
  <2>2. home[k] = i /\ k \in wired /\ lastId'[k] = lastId[k] /\ ViewAt(k, i)
    BY <1>3, <2>1 DEF Views
  <2>3. \A n \in stream' : AheadAt(i, n)' => seen'[n] = 0
    BY <2>2, Bounds DEF ViewAt
  <2>4. ASSUME NEW r \in ToSet(replies'[i]), r.command = "range", r.socket = k, NEW n \in r.entries,
               n \in Entries
        PROVE  seen'[n] = 0 /\ ~AheadAt(i, n)'
    <3>1. r \in ToSet(replies[i])
      BY <2>4, EntriesAreNumbers
    <3> QED
      BY <2>2, <2>4, <3>1 DEF ViewAt
  <2> QED
    BY <2>2, <2>3, <2>4 DEF ViewAt
<1> QED
  BY <1>1, <1>2, <1>3 DEF Views

LEMMA OneCopy ==
  ASSUME OneSocket, NEW K \in SUBSET Attempts, \A k \in K : home[k] # Nowhere
  PROVE  /\ K \cap wired = {} => Cardinality(K \cap wired) = 0
         /\ \A k \in K \cap wired : K \cap wired = {k} /\ Cardinality(K \cap wired) = 1
         /\ Cardinality(K \cap wired) \in {0, 1}
<1>1. \A k \in K \cap wired : K \cap wired = {k}
  BY DEF OneSocket, Placed
<1>2. Cardinality({}) = 0 /\ \A k : Cardinality({k}) = 1
  BY FS_EmptySet, FS_Singleton
<1> QED
  BY <1>1, <1>2

\* What is written to the sockets K of an instance was ahead of the client there, or to be
\* caught up with, and is neither any more.
LEMMA ViewWritten ==
  ASSUME ServerTypes, OneSocket, SeenInv, Views, NEW i \in Instances,
         NEW K \in SUBSET Attempts, \A k \in K : home[k] = i,
         NEW S \in SUBSET stream, Write(S, K), ~doubled', UNCHANGED <<posted, stream, wired>>,
         \A j \in Instances, n \in Entries : AheadAt(j, n)' => AheadAt(j, n),
         \A j \in Instances : \A r \in ToSet(replies'[j]) :
           r.command = "range" /\ r.socket # 0 => r \in ToSet(replies[j]),
         \A k \in K \cap wired, n \in S : seen[n] = 0 /\ ~AheadAt(i, n)',
         \A k \in K \cap wired, n \in S : \A r \in ToSet(replies'[i]) :
           r.command = "range" /\ r.socket = k => n \notin r.entries
  PROVE  (OneSocket /\ SeenInv /\ Views)'
<1>0. i # Nowhere
  BY RealtimeAssumption DEF RealtimeAssumption
<1>1. home' = home /\ wired' = wired
  BY DEF Write
<1>2. \A n \in Entries : seen[n] \in 0 .. 2 /\ n \in Nat
  BY EntriesAreNumbers DEF ServerTypes
<1>3. seen' = [n \in Entries |-> IF n \notin S THEN seen[n]
                                 ELSE IF seen[n] + Cardinality(K \cap wired) > 2 THEN 2
                                      ELSE seen[n] + Cardinality(K \cap wired)]
  BY DEF Write, Show
<1>4. stream \subseteq Entries /\ stream \subseteq Nat /\ resumeId \in Nat
  BY Bounds, EntriesAreNumbers DEF ServerTypes
<1>5. CASE S = {} \/ K \cap wired = {}
  <2>1. seen' = seen
    <3>1. CASE S = {}
      BY <1>3, <3>1 DEF ServerTypes
    <3>2. CASE K \cap wired = {}
      <4>1. Cardinality(K \cap wired) = 0
        BY <1>0, <3>2, OneCopy
      <4> HIDE DEF ServerTypes
      <4>2. \A n \in Entries : seen'[n] = seen[n]
        BY <1>2, <1>3, <4>1
      <4>3. seen' = [n \in Entries |-> seen'[n]] /\ seen = [n \in Entries |-> seen[n]]
        BY <1>3 DEF ServerTypes
      <4> QED
        BY <4>2, <4>3
    <3> QED
      BY <1>5, <3>1, <3>2
  <2>2. resumeId' = resumeId
    BY <1>5 DEF Write
  <2>3. \A k \in wired \cap Attempts : lastId'[k] = lastId[k]
    BY <1>5 DEF Write
  <2> QED
    BY <1>1, <2>1, <2>2, <2>3, ViewKept
<1>6. CASE S # {} /\ K \cap wired # {}
  <2>1. PICK k \in K \cap wired : TRUE
    BY <1>6
  <2>2. Max(S) \in S /\ \A n \in S : n <= Max(S)
    BY <1>6, Bounds, Greatest
  <2>3. /\ \A n \in Entries : seen'[n] = IF n \in S THEN 1 ELSE seen[n]
        /\ \A n \in S : seen[n] = 0
    <3>1. Cardinality(K \cap wired) = 1
      BY <1>0, <2>1, OneCopy
    <3>2. \A n \in S : seen[n] = 0
      BY <2>1
    <3> QED
      BY <1>2, <1>3, <3>1, <3>2
  <2>4. lastId'[k] = Max(S) /\ resumeId' = Max(S) /\ ~(Max(S) < lastId[k])
    BY <1>6, <2>1 DEF Write
  <2>5. ViewAt(k, i)
    BY <2>1 DEF Views
  <2>6. resumeId <= Max(S)
    <3>1. lastId[k] = resumeId
      BY <2>5 DEF ViewAt
    <3>2. Max(S) \in Nat /\ resumeId \in Nat
      BY <1>4, <2>2
    <3> QED
      BY <2>4, <3>1, <3>2
  <2>7. OneSocket'
    BY <1>1 DEF OneSocket, Placed
  <2>8. SeenInv'
    <3>1. ASSUME NEW n \in stream, seen'[n] > 0 PROVE n <= resumeId'
      <4>1. n \in Nat /\ resumeId \in Nat /\ Max(S) \in Nat /\ n \in Entries
        BY <1>4, <2>2
      <4>2. CASE n \in S
        BY <2>2, <2>4, <4>2
      <4>3. CASE n \notin S
        BY <2>3, <2>4, <2>6, <3>1, <4>1, <4>3 DEF SeenInv
      <4> QED
        BY <4>2, <4>3
    <3>2. ASSUME NEW n \in Entries PROVE seen'[n] <= 1 /\ (n > posted => seen'[n] = 0)
      <4>1. n \in S => ~(n > posted)
        BY Bounds DEF ServerTypes
      <4> QED
        BY <2>3, <4>1 DEF SeenInv
    <3> QED
      BY <3>1, <3>2 DEF SeenInv
  <2>9. ASSUME NEW l \in Attempts, NEW j \in Instances, l \in wired', home'[l] = j
        PROVE  ViewAt(l, j)'
    <3>1. Placed(l) /\ Placed(k)
      BY <1>0, <1>1, <2>1, <2>9, RealtimeAssumption DEF Placed, RealtimeAssumption
    <3>2. l = k /\ j = i
      BY <1>1, <2>1, <2>9, <3>1 DEF OneSocket
    <3>3. ASSUME NEW n \in Entries, n \notin S, seen[n] = 0 PROVE seen'[n] = 0
      BY <2>3, <3>3
    <3>4. \A n \in stream : AheadAt(i, n)' => seen'[n] = 0
      BY <2>1, <2>5, <3>3, Bounds DEF ViewAt
    <3>5. ASSUME NEW r \in ToSet(replies'[i]), r.command = "range", r.socket = k,
                 NEW n \in r.entries, n \in Entries
          PROVE  seen'[n] = 0 /\ ~AheadAt(i, n)'
      <4>1. r \in ToSet(replies[i]) /\ n \notin S
        BY <2>1, <3>5, EntriesAreNumbers
      <4>2. seen[n] = 0 /\ ~AheadAt(i, n)
        BY <2>5, <3>5, <4>1 DEF ViewAt
      <4> QED
        BY <3>3, <3>5, <4>1, <4>2
    <3>6. ViewAt(k, i)'
      BY <2>4, <3>4, <3>5 DEF ViewAt
    <3> QED
      BY <3>2, <3>6
  <2> QED
    BY <2>7, <2>8, <2>9 DEF Views
<1> QED
  BY <1>5, <1>6

\* One instance's turn leaves the others as they are.
LEMMA OneTurn ==
  ASSUME AllInLine, NEW i \in Instances,
         \A j \in Instances : j # i =>
           replies'[j] = replies[j] /\ cursor'[j] = cursor[j] /\ own'[j] = own[j],
         InLine(replies'[i], cursor'[i], own'[i]),
         \A n \in Entries : Ahead(ToSet(replies'[i]), cursor'[i], own'[i], n) =>
           Ahead(ToSet(replies[i]), cursor[i], own[i], n)
  PROVE  /\ AllInLine'
         /\ \A j \in Instances, n \in Entries : AheadAt(j, n)' => AheadAt(j, n)
BY DEF AllInLine, AheadAt

LEMMA PostOnce ==
  ASSUME ServerTypes, QueueInv, KnownInv, Once, NEW i \in Instances, Post(i)
  PROVE  Once'
<1> DEFINE n == posted + 1
           r == Reply("add", {n}, 0)
<1>1. /\ n \in Entries /\ n \in Nat /\ posted' = n /\ stream' = stream \cup {n} /\ posted \in Nat /\ posted < n
      /\ \A m \in stream : m < n /\ m \in Entries
      /\ UNCHANGED <<wired, cursor, own, home, lastId, resumeId, seen>>
  BY Bounds DEF Post, Entries, ServerTypes, clientSide, vars, connVars
<1>2. replies' = [replies EXCEPT ![i] = Append(replies[i], r)]
  BY <1>1 DEF Post, Issue
<1> HIDE DEF n
<1>3. /\ replies[i] \in Seq(Answers) /\ cursor[i] \in Nat /\ own[i] \in SUBSET Entries
      /\ InLine(replies[i], cursor[i], own[i]) /\ cursor[i] < n /\ n \notin own[i]
  <2>1. cursor[i] \in 0 .. posted /\ own[i] \subseteq stream
    BY DEF KnownInv
  <2>2. cursor[i] < n /\ cursor[i] \in Nat /\ n \notin own[i]
    BY <1>1, <2>1
  <2> QED
    BY <2>2 DEF ServerTypes, Once, AllInLine
<1>4. \A a \in ToSet(replies[i]) : \A m \in a.entries : m < n
  BY <1>1 DEF QueueInv, Sound, ToSet
<1>5. /\ InLine(Append(replies[i], r), cursor[i], own[i])
      /\ \A m \in Entries : m < n /\ Ahead(ToSet(Append(replies[i], r)), cursor[i], own[i], m) =>
           Ahead(ToSet(replies[i]), cursor[i], own[i], m)
  BY <1>1, <1>3, <1>4, PostedLine
<1>6. replies'[i] = Append(replies[i], r) /\ \A j \in Instances : j # i => replies'[j] = replies[j]
  BY <1>2 DEF ServerTypes
<1> HIDE DEF r
<1>7. AllInLine'
  BY <1>1, <1>5, <1>6 DEF Once, AllInLine
<1>8. \A j \in Instances, m \in Entries : m < n /\ AheadAt(j, m)' => AheadAt(j, m)
  BY <1>1, <1>5, <1>6 DEF AheadAt
<1>9. OneSocket' /\ SeenInv'
  <2>1. OneSocket'
    BY <1>1 DEF Once, OneSocket, Placed
  <2>2. seen[n] = 0
    BY <1>1 DEF Once, SeenInv
  <2>3. \A m \in Entries : m > n => m > posted
    BY <1>1, EntriesAreNumbers
  <2>4. SeenInv'
    BY <1>1, <2>2, <2>3 DEF Once, SeenInv
  <2> QED
    BY <2>1, <2>4
<1>10. ASSUME NEW k \in Attempts, NEW j \in Instances, k \in wired', home'[k] = j
       PROVE  ViewAt(k, j)'
  <2>1. ViewAt(k, j)
    BY <1>1, <1>10 DEF Once, Views
  <2>2. \A m \in stream' : AheadAt(j, m)' => seen'[m] = 0
    <3>1. seen[n] = 0
      BY <1>1 DEF Once, SeenInv
    <3> QED
      BY <1>1, <1>8, <2>1, <3>1 DEF ViewAt
  <2>3. ASSUME NEW a \in ToSet(replies'[j]), a.command = "range", a.socket = k,
               NEW m \in a.entries, m \in Entries
        PROVE  seen'[m] = 0 /\ ~AheadAt(j, m)'
    <3>1. a \in ToSet(replies[j])
      <4>1. Registry(i)
        BY DEF Registry
      <4>2. CASE j = i
        BY <2>3, <4>1, <4>2, RegistryQueue
      <4>3. CASE j # i
        BY <1>6, <2>3, <4>3
      <4> QED
        BY <4>2, <4>3
    <3>2. m \in stream
      BY <2>3, <3>1 DEF QueueInv, Sound, ToSet
    <3> QED
      BY <1>1, <1>8, <2>1, <2>3, <3>1, <3>2 DEF ViewAt
  <2> QED
    BY <1>1, <2>1, <2>2, <2>3 DEF ViewAt
<1> QED
  BY <1>7, <1>9, <1>10 DEF Once, Views

LEMMA UnstreamedOnce ==
  ASSUME ServerTypes, QueueInv, Once, NEW i \in Instances, PostUnstreamed(i)
  PROVE  Once'
<1> DEFINE n == posted + 1
           copies == Cardinality(Sockets(i) \cap wired)
<1>1. /\ posted' = n /\ n \in Entries /\ posted \in Nat /\ \A m \in stream : m # n
      /\ UNCHANGED <<wired, stream, replies, cursor, own, home, lastId, resumeId>>
  BY Bounds DEF PostUnstreamed, Entries, ServerTypes, vars, connVars
<1>2. seen' = [m \in Entries |-> IF m \notin {n} THEN seen[m]
                                 ELSE IF seen[m] + copies > 2 THEN 2 ELSE seen[m] + copies]
  BY <1>1 DEF PostUnstreamed, Show
<1>3. copies \in {0, 1}
  <2>1. \A k \in Sockets(i) : home[k] # Nowhere
    BY RealtimeAssumption DEF RealtimeAssumption, Sockets
  <2> QED
    BY <2>1, OneCopy, SocketTypes DEF Once
<1>4. posted < n
  BY <1>1
<1> HIDE DEF n, copies
<1>5. seen[n] = 0
  BY <1>1, <1>4, EntriesAreNumbers DEF Once, SeenInv
<1>6. \A m \in Entries : seen'[m] = IF m = n THEN copies ELSE seen[m]
  BY <1>1, <1>2, <1>3, <1>5
<1>7. AllInLine' /\ OneSocket'
  BY <1>1 DEF Once, AllInLine, OneSocket, Placed
<1>8. SeenInv'
  <2>1. \A m \in stream : seen'[m] = seen[m]
    BY <1>1, <1>6, Bounds
  <2>2. \A m \in Entries : m > n => m # n /\ m > posted
    BY <1>1, <1>4, EntriesAreNumbers
  <2>3. \A m \in Entries : seen'[m] <= 1
    BY <1>3, <1>6 DEF Once, SeenInv
  <2>4. \A m \in Entries : m > n => seen'[m] = 0
    BY <1>6, <2>2 DEF Once, SeenInv
  <2> QED
    BY <1>1, <2>1, <2>3, <2>4 DEF Once, SeenInv
<1>9. Views'
  <2>1. ASSUME NEW k \in Attempts, NEW j \in Instances, k \in wired', home'[k] = j
        PROVE  ViewAt(k, j)'
    <3>1. ViewAt(k, j)
      BY <1>1, <2>1 DEF Once, Views
    <3>2. \A a \in ToSet(replies[j]) : a.entries \subseteq stream
      BY DEF QueueInv, Sound, ToSet
    <3> QED
      BY <1>1, <1>6, <3>1, <3>2, Bounds DEF ViewAt, AheadAt
  <2> QED
    BY <2>1 DEF Views
<1> QED
  BY <1>7, <1>8, <1>9 DEF Once

LEMMA RegistryOnce ==
  ASSUME ServerTypes, QueueInv, KnownInv, HomeInv, Once, ~doubled', NEW i \in Instances, Registry(i)
  PROVE  Once'
<1> DEFINE rs == replies[i]
           c == cursor[i]
           o == own[i]
<1>1. rs \in Seq(Answers) /\ c \in Nat /\ o \in SUBSET Entries /\ InLine(rs, c, o)
  BY Bounds DEF ServerTypes, Once, AllInLine
<1>2. /\ \A j \in Instances : j # i =>
           replies'[j] = replies[j] /\ cursor'[j] = cursor[j] /\ own'[j] = own[j]
      /\ \A j \in Instances : \A r \in ToSet(replies'[j]) :
           r.command = "range" /\ r.socket # 0 => r \in ToSet(replies[j])
      /\ wired' = wired
  BY RegistryQueue
<1>3. \A r \in ToSet(rs) : r \in Answers /\ Sound(r, stream)
  BY <1>1, SetOfAnswers DEF QueueInv, ToSet
<1>4. ASSUME InLine(replies'[i], cursor'[i], own'[i]),
             \A n \in Entries : Ahead(ToSet(replies'[i]), cursor'[i], own'[i], n) =>
               Ahead(ToSet(rs), c, o, n)
      PROVE  /\ AllInLine'
             /\ \A j \in Instances, n \in Entries : AheadAt(j, n)' => AheadAt(j, n)
  BY <1>2, <1>4, OneTurn DEF Once
<1>5. ASSUME AllInLine', \A j \in Instances, n \in Entries : AheadAt(j, n)' => AheadAt(j, n),
             UNCHANGED <<posted, stream, lastId, resumeId, seen>>
      PROVE  Once'
  <2>1. \A k \in Attempts : home'[k] # Nowhere => home'[k] = home[k]
    BY RegistryHome
  <2>2. \A k \in Attempts : k \in wired' /\ home'[k] # Nowhere =>
          k \in wired /\ home'[k] = home[k] /\ lastId'[k] = lastId[k]
    BY <1>2, <1>5, <2>1
  <2>3. (OneSocket /\ SeenInv /\ Views)'
    BY <1>2, <1>5, <2>2, ViewKept DEF Once
  <2> QED
    BY <1>5, <2>3 DEF Once
<1>6. CASE Post(i)
  BY <1>6, PostOnce
<1>7. CASE PostUnstreamed(i)
  BY <1>7, UnstreamedOnce
<1>8. CASE Added(i)
  <2>1. PICK n \in stream : Head(rs).entries = {n}
    BY <1>8, HeadTypes DEF Added, Comes, Sound
  <2>2. Max(Head(rs).entries) = n /\ n \in Entries
    BY <2>1, Bounds, Greatest
  <2>3. /\ replies'[i] = Append(Tail(rs), Reply("trim", {n}, 0))
        /\ cursor'[i] = n /\ own'[i] = o \cup {n}
    BY <1>8, <2>2 DEF Added, ServerTypes
  <2>4. rs # <<>> /\ Head(rs).command = "add"
    BY <1>8 DEF Added, Comes
  <2> HIDE DEF rs, c, o
  <2>5. /\ InLine(Append(Tail(rs), Reply("trim", {n}, 0)), n, o \cup {n})
        /\ \A m \in Entries : Ahead(ToSet(Append(Tail(rs), Reply("trim", {n}, 0))), n, o \cup {n}, m) =>
             Ahead(ToSet(rs), c, o, m)
    BY <1>1, <2>1, <2>2, <2>4, AddedLine
  <2>6. AllInLine' /\ \A j \in Instances, m \in Entries : AheadAt(j, m)' => AheadAt(j, m)
    BY <1>4, <2>3, <2>5
  <2> QED
    BY <1>5, <1>8, <2>6 DEF Added
<1>9. CASE AddUnanswered(i)
  BY <1>9 DEF AddUnanswered
<1>10. CASE Trimmed(i)
  <2>1. PICK n \in stream : Head(rs).entries = {n}
    BY <1>10, HeadTypes DEF Trimmed, Comes, Sound
  <2>2. n \in Entries
    BY Bounds
  <2>3. /\ replies'[i] = Tail(rs) /\ cursor'[i] = c /\ own'[i] = o
        /\ rs # <<>> /\ Head(rs).command = "trim"
    BY <1>10 DEF Trimmed, Comes, Taken, ServerTypes
  <2>4. Write({n}, Sockets(i)) /\ UNCHANGED <<posted, stream, wired>>
    BY <1>2, <1>10, <2>1 DEF Trimmed
  <2>5. AheadAt(i, n) <=> Ahead(ToSet(rs), c, o, n)
    BY DEF AheadAt
  <2> HIDE DEF rs, c, o
  <2>6. /\ InLine(Tail(rs), c, o)
        /\ \A m \in Entries : Ahead(ToSet(Tail(rs)), c, o, m) => Ahead(ToSet(rs), c, o, m)
        /\ Ahead(ToSet(rs), c, o, n) /\ ~Ahead(ToSet(Tail(rs)), c, o, n)
    BY <1>1, <2>1, <2>2, <2>3, TrimmedLine
  <2>7. AllInLine' /\ \A j \in Instances, m \in Entries : AheadAt(j, m)' => AheadAt(j, m)
    BY <1>4, <2>3, <2>6
  <2>8. AheadAt(i, n) /\ ~AheadAt(i, n)'
    BY <2>3, <2>5, <2>6 DEF AheadAt
  <2>9. ASSUME NEW k \in Sockets(i) \cap wired
        PROVE  /\ seen[n] = 0
               /\ \A r \in ToSet(replies'[i]) : r.command = "range" /\ r.socket = k =>
                    n \notin r.entries
    <3>1. ViewAt(k, i) /\ k # 0
      BY EntriesAreNumbers DEF Once, Views, Sockets
    <3> QED
      BY <1>2, <2>2, <2>8, <3>1 DEF ViewAt
  <2>10. (OneSocket /\ SeenInv /\ Views)'
    <3>1. \A k \in Sockets(i) : home[k] = i
      BY DEF Sockets
    <3> QED
      BY <1>2, <2>4, <2>7, <2>8, <2>9, <3>1, SocketTypes, ViewWritten DEF Once
  <2> QED
    BY <2>7, <2>10 DEF Once
<1>11. CASE PollStream(i)
  <2> DEFINE S == {n \in stream : n > c}
             r == Reply("read", S, 0)
  <2>1. /\ replies'[i] = Append(rs, r) /\ cursor'[i] = c /\ own'[i] = o
        /\ c # 0 /\ S # {}
    BY <1>11 DEF PollStream, Issue, ServerTypes
  <2>2. \A a \in ToSet(rs) : a.entries \subseteq stream /\ a.command # "read"
    BY <1>3, <1>11 DEF PollStream, Waits, Sound
  <2>3. stream \in SUBSET Entries /\ S \in SUBSET Entries
    BY Bounds
  <2> HIDE DEF S
  <2>4. r \in Answers /\ r.command = "read" /\ r.entries = S
    BY <2>3, EntriesAreNumbers DEF Reply, Answers, Commands
  <2> HIDE DEF rs, c, o, r
  <2>5. r.entries = {n \in stream : n > c}
    BY <2>4 DEF S
  <2>6. /\ InLine(Append(rs, r), c, o)
        /\ \A m \in Entries : Ahead(ToSet(Append(rs, r)), c, o, m) => Ahead(ToSet(rs), c, o, m)
    BY <1>1, <2>1, <2>2, <2>3, <2>4, <2>5, PolledLine
  <2>7. AllInLine' /\ \A j \in Instances, m \in Entries : AheadAt(j, m)' => AheadAt(j, m)
    BY <1>4, <2>1, <2>6
  <2> QED
    BY <1>5, <1>11, <2>7 DEF PollStream
<1>12. CASE PollAnswered(i)
  <2> DEFINE S == Head(rs).entries
  <2>1. S # {} /\ S \subseteq stream
    BY <1>12, HeadTypes DEF PollAnswered, Comes, Sound
  <2>2. S \in SUBSET Entries
    BY <2>1, Bounds
  <2>3. /\ replies'[i] = Tail(rs) /\ cursor'[i] = Max(S) /\ own'[i] = o \ S
        /\ rs # <<>> /\ Head(rs).command = "read"
    BY <1>12 DEF PollAnswered, Comes, Taken, ServerTypes
  <2>4. Write(S \ o, Sockets(i)) /\ UNCHANGED <<posted, stream, wired>>
    BY <1>2, <1>12 DEF PollAnswered
  <2>5. \A n : AheadAt(i, n) <=> Ahead(ToSet(rs), c, o, n)
    BY DEF AheadAt
  <2> HIDE DEF rs, c, o
  <2>6. /\ InLine(Tail(rs), Max(S), o \ S)
        /\ \A m \in Entries : Ahead(ToSet(Tail(rs)), Max(S), o \ S, m) => Ahead(ToSet(rs), c, o, m)
        /\ \A n \in S \ o : /\ Ahead(ToSet(rs), c, o, n)
                            /\ ~Ahead(ToSet(Tail(rs)), Max(S), o \ S, n)
    BY <1>1, <2>1, <2>2, <2>3, ReadLine
  <2> HIDE DEF S
  <2>7. AllInLine' /\ \A j \in Instances, m \in Entries : AheadAt(j, m)' => AheadAt(j, m)
    BY <1>4, <2>3, <2>6
  <2>8. \A n \in S \ o : AheadAt(i, n) /\ ~AheadAt(i, n)'
    BY <2>3, <2>5, <2>6 DEF AheadAt
  <2>9. ASSUME NEW k \in Sockets(i) \cap wired, NEW n \in S \ o
        PROVE  /\ seen[n] = 0
               /\ \A r \in ToSet(replies'[i]) : r.command = "range" /\ r.socket = k =>
                    n \notin r.entries
    <3>1. ViewAt(k, i) /\ k # 0
      BY EntriesAreNumbers DEF Once, Views, Sockets
    <3> QED
      BY <1>2, <2>1, <2>2, <2>8, <3>1 DEF ViewAt
  <2>10. (OneSocket /\ SeenInv /\ Views)'
    <3>1. (\A k \in Sockets(i) : home[k] = i) /\ S \ o \in SUBSET stream
      BY <2>1 DEF Sockets
    <3> QED
      BY <1>2, <2>4, <2>7, <2>8, <2>9, <3>1, SocketTypes, ViewWritten DEF Once
  <2> QED
    BY <2>7, <2>10 DEF Once
<1>13. ASSUME rs # <<>>, Head(rs).command \in {"read", "range"}, Taken(i),
              UNCHANGED <<cursor, own>>
       PROVE  AllInLine' /\ \A j \in Instances, n \in Entries : AheadAt(j, n)' => AheadAt(j, n)
  <2>1. replies'[i] = Tail(rs) /\ cursor'[i] = c /\ own'[i] = o
    BY <1>13 DEF Taken, ServerTypes
  <2> HIDE DEF rs, c, o
  <2>2. /\ InLine(Tail(rs), c, o)
        /\ \A m \in Entries : Ahead(ToSet(Tail(rs)), c, o, m) => Ahead(ToSet(rs), c, o, m)
    BY <1>1, <1>13, DroppedLine
  <2> QED
    BY <1>4, <2>1, <2>2
<1>14. CASE PollFails(i) \/ CatchUpFails(i)
  <2>1. AllInLine' /\ \A j \in Instances, n \in Entries : AheadAt(j, n)' => AheadAt(j, n)
    BY <1>13, <1>14 DEF PollFails, CatchUpFails, Comes
  <2> QED
    BY <1>5, <1>14, <2>1 DEF PollFails, CatchUpFails
<1>15. CASE CaughtUp(i)
  <2> DEFINE h == Head(rs)
             S == h.entries
             k == h.socket
  <2>1. AllInLine' /\ \A j \in Instances, n \in Entries : AheadAt(j, n)' => AheadAt(j, n)
    BY <1>13, <1>15 DEF CaughtUp, Comes
  <2>2. /\ rs # <<>> /\ h.command = "range" /\ Write(S, {k}) /\ replies'[i] = Tail(rs)
        /\ UNCHANGED <<posted, stream, wired>>
    BY <1>2, <1>15 DEF CaughtUp, Comes, Taken, ServerTypes
  <2>3. /\ h \in ToSet(rs) /\ h \in Answers /\ Sound(h, stream)
        /\ \A r \in ToSet(Tail(rs)) : Fits(h, r, o)
    BY <1>1, <1>3, <2>2, LineTail
  <2>4. k \in Attempts \cup {0}
    BY <2>3, ClientAssumption DEF ClientAssumption, Answers, Attempts
  <2>5. CASE k = 0
    <3>1. S = {}
      BY <2>2, <2>3, <2>5 DEF Sound
    <3>2. lastId' = lastId /\ resumeId' = resumeId
      BY <2>2, <3>1 DEF Write, ServerTypes
    <3>3. seen' = seen
      BY <2>2, <3>1 DEF Write, Show, ServerTypes
    <3> QED
      BY <1>5, <2>1, <2>2, <3>2, <3>3
  <2>6. CASE k # 0
    <3>1. home[k] = i /\ {k} \in SUBSET Attempts /\ S \in SUBSET stream
      BY <2>2, <2>3, <2>4, <2>6 DEF HomeInv, Sound
    <3>2. k \in wired => ViewAt(k, i)
      BY <2>4, <2>6, <3>1 DEF Once, Views
    <3>3. k \in wired => \A n \in S : seen[n] = 0 /\ ~AheadAt(i, n)
      BY <2>2, <2>3, <3>1, <3>2, Bounds DEF ViewAt
    <3>4. ASSUME NEW r \in ToSet(replies'[i]), r.command = "range", r.socket = k PROVE FALSE
      <4> HIDE DEF h, k, rs
      <4>1. Fits(h, r, o) /\ h.socket = k
        BY <2>2, <2>3, <3>4 DEF k
      <4> QED
        BY <2>2, <2>6, <3>4, <4>1 DEF Fits
    <3> HIDE DEF h, S, k, rs, c, o
    <3>5. \A j \in {k} : home[j] = i
      BY <3>1
    <3>6. \A j \in {k} \cap wired, n \in S : seen[n] = 0 /\ ~AheadAt(i, n)'
      BY <2>1, <3>1, <3>3, Bounds
    <3>7. (OneSocket /\ SeenInv /\ Views)'
      BY <1>2, <2>1, <2>2, <3>1, <3>4, <3>5, <3>6, ViewWritten DEF Once
    <3> QED
      BY <2>1, <3>7 DEF Once
  <2> QED
    BY <2>4, <2>5, <2>6
<1>16. CASE Unregister(i)
  <2>1. replies'[i] = rs /\ own'[i] = o /\ cursor'[i] \in {0, c}
    BY <1>16 DEF Unregister, ServerTypes
  <2> HIDE DEF rs, c, o
  <2>2. /\ InLine(rs, 0, o)
        /\ \A m \in Entries : Ahead(ToSet(rs), 0, o, m) => Ahead(ToSet(rs), c, o, m)
    BY <1>1, ForgottenLine
  <2>3. AllInLine' /\ \A j \in Instances, n \in Entries : AheadAt(j, n)' => AheadAt(j, n)
    BY <1>1, <1>4, <2>1, <2>2
  <2> QED
    BY <1>5, <1>16, <2>3 DEF Unregister, clientSide
<1>17. CASE Restart(i)
  <2>1. replies'[i] = <<>> /\ own'[i] = {} /\ cursor'[i] = 0
    BY <1>17 DEF Restart, ServerTypes
  <2>2. AllInLine' /\ \A j \in Instances, n \in Entries : AheadAt(j, n)' => AheadAt(j, n)
    BY <1>4, <2>1, EmptyLine
  <2> QED
    BY <1>5, <1>17, <2>2 DEF Restart
<1> QED
  BY <1>6, <1>7, <1>8, <1>9, <1>10, <1>11, <1>12, <1>14, <1>15, <1>16, <1>17 DEF Registry

LEMMA AbandonAhead ==
  ASSUME ServerTypes, AllInLine, NEW K \in SUBSET Attempts, Abandon(K), UNCHANGED <<cursor, own>>
  PROVE  AllInLine' /\ \A i \in Instances, n \in Entries : AheadAt(i, n)' => AheadAt(i, n)
<1>1. ASSUME NEW i \in Instances
      PROVE  /\ InLine(replies'[i], cursor[i], own[i])
             /\ \A n \in Entries : Ahead(ToSet(replies'[i]), cursor[i], own[i], n) =>
                  Ahead(ToSet(replies[i]), cursor[i], own[i], n)
  <2>1. replies[i] \in Seq(Answers) /\ InLine(replies[i], cursor[i], own[i])
    BY DEF ServerTypes, AllInLine
  <2>2. replies'[i] = [q \in DOMAIN replies[i] |-> Voided(replies[i][q], K)]
    BY DEF Abandon
  <2> DEFINE vs == [q \in DOMAIN replies[i] |-> Voided(replies[i][q], K)]
  <2>3. /\ InLine(vs, cursor[i], own[i])
        /\ \A n \in Entries : Ahead(ToSet(vs), cursor[i], own[i], n) =>
             Ahead(ToSet(replies[i]), cursor[i], own[i], n)
    BY <2>1, VoidedLine
  <2>4. replies'[i] = vs
    BY <2>2
  <2> HIDE DEF vs
  <2> QED
    BY <2>3, <2>4
<1> QED
  BY <1>1 DEF AllInLine, AheadAt

\* Sockets of the client that close.
LEMMA AbandonOnce ==
  ASSUME ServerTypes, HomeInv, Once, NEW K \in SUBSET Attempts, Abandon(K), wired' \subseteq wired,
         UNCHANGED <<posted, stream, cursor, own, seen, resumeId>>,
         \A k \in wired' : k \in Attempts /\ home'[k] # Nowhere => lastId'[k] = lastId[k]
  PROVE  Once'
<1>1. AllInLine' /\ \A i \in Instances, n \in Entries : AheadAt(i, n)' => AheadAt(i, n)
  BY AbandonAhead DEF Once
<1>2. /\ \A k \in Attempts : home'[k] = IF k \in K THEN Nowhere ELSE home[k]
      /\ \A i \in Instances : \A r \in ToSet(replies'[i]) :
           r.command = "range" /\ r.socket # 0 => r \in ToSet(replies[i])
  BY AbandonHome
<1>3. \A k \in Attempts : k \in wired' /\ home'[k] # Nowhere =>
        k \in wired /\ home'[k] = home[k] /\ lastId'[k] = lastId[k]
  BY <1>2
<1>4. (OneSocket /\ SeenInv /\ Views)'
  BY <1>1, <1>2, <1>3, ViewKept DEF Once
<1> QED
  BY <1>1, <1>4 DEF Once

\* A restart of the client forgets what it has seen, and has no socket.
LEMMA ReloadOnce ==
  ASSUME ServerTypes, Once, NEW K \in SUBSET Attempts, Abandon(K), wired' = {},
         UNCHANGED <<posted, stream, cursor, own>>, seen' = [n \in Entries |-> 0]
  PROVE  Once'
<1>1. AllInLine'
  BY AbandonAhead DEF Once
<1>2. OneSocket' /\ Views'
  BY DEF OneSocket, Views, Placed
<1>3. SeenInv'
  BY Bounds DEF SeenInv
<1> QED
  BY <1>1, <1>2, <1>3 DEF Once

\* A socket opens.
LEMMA RegisterOnce ==
  ASSUME TypeOK, SocketsInv, ServerTypes, HomeInv, Once, Next, ~doubled', NEW k \in Attempts,
         NEW i \in Instances, Linked(adapter'[k]), ~Linked(adapter[k]), Register(k, i),
         UNCHANGED <<posted, stream, cursor, own>>
  PROVE  Once'
<1>1. wired' \subseteq wired \cup {k} /\ \A j \in wired : home[j] = Nowhere
  BY Links DEF Register
<1>2. home[k] = Nowhere /\ i # Nowhere /\ \A r \in ToSet(replies[i]) : r.command = "range" => r.socket # k
  BY RealtimeAssumption, EntriesAreNumbers DEF RealtimeAssumption, HomeInv
<1>3. /\ \A j \in Attempts : home'[j] = IF j = k THEN i ELSE home[j]
      /\ UNCHANGED <<lastId, resumeId, seen>>
  BY DEF Register, ServerTypes
<1>4. \A j \in Attempts : j \in wired' /\ home'[j] # Nowhere => j = k
  BY <1>1, <1>3
<1>5. OneSocket' /\ SeenInv'
  BY <1>3, <1>4 DEF Once, OneSocket, SeenInv, Placed
<1>6. \A n \in stream : n \in Nat /\ n > 0 /\ n \in Entries /\ seen[n] \in 0 .. 2
  <2>1. stream \subseteq Entries /\ \A n \in Entries : seen[n] \in 0 .. 2
    BY Bounds DEF ServerTypes
  <2>2. \A n \in Entries : n \in Nat /\ n > 0
    BY DEF Entries
  <2> QED
    BY <2>1, <2>2
<1>7. CASE lastId[k] # 0
  <2> DEFINE r == Reply("range", CatchUp(k), k)
  <2>1. CatchUp(k) \subseteq {n \in stream : n > lastId[k]}
    BY DEF CatchUp, Missed
  <2>2. /\ replies'[i] = Append(replies[i], r)
        /\ \A j \in Instances : j # i => replies'[j] = replies[j]
    BY <1>7 DEF Register, Issue, ServerTypes
  <2>3. replies[i] \in Seq(Answers) /\ cursor[i] \in Nat /\ InLine(replies[i], cursor[i], own[i])
    BY Bounds DEF ServerTypes, Once, AllInLine
  <2>4. r.entries = CatchUp(k)
    BY DEF Reply
  <2>5. CatchUp(k) \in SUBSET Entries
    BY <2>1, Bounds
  <2>6. /\ InLine(Append(replies[i], r), cursor[i], own[i])
        /\ \A n \in Entries : Ahead(ToSet(Append(replies[i], r)), cursor[i], own[i], n) =>
             Ahead(ToSet(replies[i]), cursor[i], own[i], n)
    BY <1>2, <2>3, <2>5, RangeLine
  <2>7. ToSet(replies'[i]) = ToSet(replies[i]) \cup {r}
    BY <2>2, <2>3, AppendedAny
  <2> HIDE DEF r
  <2>8. AllInLine' /\ \A j \in Instances, n \in Entries : AheadAt(j, n)' => AheadAt(j, n)
    BY <2>2, <2>6, OneTurn DEF Once
  <2>9. \A n \in stream : ~AheadAt(i, n)
    <3>1. ~Waits(i, {"add", "trim", "read"}) /\ (cursor[i] = 0 \/ \A n \in stream : ~(n > cursor[i]))
      BY <1>7 DEF Register, Behind
    <3>2. \A a \in ToSet(replies[i]) : a.command \notin {"add", "trim", "read"}
      BY <3>1 DEF Waits
    <3>3. \A n : \A d \in {"add", "trim", "read"} : ~Has(ToSet(replies[i]), d, n)
      BY <3>2 DEF Has
    <3> QED
      BY <3>1, <3>2, <3>3 DEF AheadAt, Ahead, Later
  <2>10. k \in wired' => lastId[k] = resumeId
    BY <1>7 DEF Register
  <2>11. ASSUME k \in wired' PROVE ViewAt(k, i)'
    <3>1. \A n \in CatchUp(k) : n \in stream /\ seen[n] = 0
      <4>1. ASSUME NEW n \in stream, n > lastId[k] PROVE seen[n] = 0
        <5>1. ~(n <= resumeId) /\ seen[n] \in 0 .. 2
          BY <1>6, <2>10, <2>11, <4>1 DEF ServerTypes
        <5> QED
          BY <5>1 DEF Once, SeenInv
      <4> QED
        BY <2>1, <4>1
    <3>2. \A n \in stream : ~AheadAt(i, n)'
      BY <1>6, <2>8, <2>9
    <3>3. \A a \in ToSet(replies'[i]) : a.command = "range" /\ a.socket = k => a = r
      BY <1>2, <2>7
    <3> QED
      BY <1>3, <2>4, <2>10, <2>11, <3>1, <3>2, <3>3 DEF ViewAt
  <2> QED
    BY <1>2, <1>3, <1>4, <1>5, <2>8, <2>11, RealtimeAssumption
       DEF RealtimeAssumption, Once, Views
<1>8. CASE lastId[k] = 0
  <2>1. replies' = replies /\ (k \in wired' => resumeId = 0)
    BY <1>8 DEF Register
  <2>2. AllInLine'
    BY <2>1 DEF Once, AllInLine
  <2>3. ASSUME k \in wired' PROVE ViewAt(k, i)'
    <3>1. ASSUME NEW n \in stream PROVE seen[n] = 0
      <4>1. ~(n <= resumeId) /\ seen[n] \in 0 .. 2
        BY <1>6, <2>1, <2>3
      <4> QED
        BY <4>1 DEF Once, SeenInv
    <3> QED
      BY <1>2, <1>3, <1>8, <2>1, <2>3, <3>1 DEF ViewAt
  <2> QED
    BY <1>2, <1>3, <1>4, <1>5, <2>2, <2>3, RealtimeAssumption
       DEF RealtimeAssumption, Once, Views
<1> QED
  BY <1>7, <1>8

\* How the client's own steps reach its sockets: one opens, or some close.
LEMMA ClientStepCases ==
  ASSUME ClientStep
  PROVE  /\ Next /\ UNCHANGED <<posted, stream, cursor, own>>
         /\ \/ \E k \in Attempts, i \in Instances :
                 Linked(adapter'[k]) /\ ~Linked(adapter[k]) /\ Register(k, i)
            \/ /\ \A k \in Attempts : Linked(adapter'[k]) => Linked(adapter[k])
               /\ Abandon(Closed)
               /\ doubled' = doubled
               /\ \/ reloads' # reloads /\ seen' = [n \in Entries |-> 0]
                  \/ /\ UNCHANGED <<resumeId, seen>>
                     /\ \A k \in Attempts : Linked(adapter'[k]) => lastId'[k] = lastId[k]
BY DEF ClientStep, Linked, Created

LEMMA NextHome ==
  ASSUME TypeOK, SocketsInv, ServerTypes, HomeInv, [RealtimeNext]_realtimeVars
  PROVE  HomeInv'
<1>1. ASSUME NEW i \in Instances, Registry(i) PROVE HomeInv'
  BY <1>1, RegistryHome
<1>2. ASSUME NEW K \in SUBSET Attempts, Abandon(K),
             \A k \in Attempts \ K : Linked(adapter[k]) => Linked(adapter'[k])
      PROVE  HomeInv'
  BY <1>2, AbandonHome DEF HomeInv
<1>3. ASSUME NEW k \in Attempts, Cut(k) PROVE HomeInv'
  BY <1>2, <1>3 DEF Cut, vars, connVars
<1>4. ASSUME NEW k \in Attempts, NEW i \in Instances, Next,
             Linked(adapter'[k]), ~Linked(adapter[k]), Register(k, i)
      PROVE  HomeInv'
  <2>1. \A j \in Attempts : j # k => adapter'[j] = adapter[j]
    BY <1>4, Links
  <2>2. \A j \in Attempts : home'[j] = IF j = k THEN i ELSE home[j]
    BY <1>4 DEF Register, ServerTypes
  <2>3. home[k] = Nowhere
    BY <1>4 DEF HomeInv
  <2>4. ASSUME NEW j \in Instances, NEW r \in ToSet(replies'[j]), r.command = "range", r.socket # 0
        PROVE  home'[r.socket] = j
    <3>1. ASSUME r \in ToSet(replies[j]) PROVE home'[r.socket] = j
      <4>1. r.socket \in Attempts
        <5>1. r \in Answers
          BY <3>1, SetOfAnswers DEF ServerTypes
        <5> QED
          BY <2>4, <5>1, ClientAssumption DEF ClientAssumption, Answers, Attempts
      <4>2. home[r.socket] = j /\ j # Nowhere
        BY <2>4, <3>1, RealtimeAssumption DEF RealtimeAssumption, HomeInv
      <4> QED
        BY <2>2, <2>3, <4>1, <4>2
    <3>2. ToSet(replies'[j]) \subseteq ToSet(replies[j]) \cup {Reply("range", CatchUp(k), k)}
      <4>1. replies[j] \in Seq(Answers)
        BY DEF ServerTypes
      <4>2. \/ replies'[j] = replies[j]
            \/ replies'[j] = Append(replies[j], Reply("range", CatchUp(k), k))
        BY <1>4 DEF Register, Issue, ServerTypes
      <4> QED
        BY <4>1, <4>2, AppendedAny
    <3>3. CASE r \notin ToSet(replies[j])
      <4>1. r.socket = k
        BY <2>4, <3>2, <3>3 DEF Reply
      <4>2. replies'[j] # replies[j]
        BY <2>4, <3>3
      <4>3. j = i
        BY <1>4, <4>2 DEF Register, Issue, ServerTypes
      <4> QED
        BY <2>2, <4>1, <4>3
    <3> QED
      BY <3>1, <3>3
  <2> QED
    BY <1>4, <2>1, <2>2, <2>4 DEF HomeInv
<1>5. CASE ClientStep
  <2>1. CASE \E k \in Attempts, i \in Instances :
               Linked(adapter'[k]) /\ ~Linked(adapter[k]) /\ Register(k, i)
    BY <1>4, <1>5, <2>1, ClientStepCases
  <2>2. CASE Abandon(Closed)
    <3>1. /\ Closed \in SUBSET Attempts
          /\ \A k \in Attempts \ Closed : Linked(adapter[k]) => Linked(adapter'[k])
      BY DEF Closed
    <3> QED
      BY <1>2, <2>2, <3>1
  <2> QED
    BY <1>5, <2>1, <2>2, ClientStepCases
<1>6. CASE UNCHANGED realtimeVars
  BY <1>6 DEF realtimeVars, serverVars, clientSide, vars, connVars, HomeInv
<1> QED
  BY <1>1, <1>3, <1>5, <1>6 DEF RealtimeNext

LEMMA NextKnown ==
  ASSUME ServerTypes, QueueInv, KnownInv, [RealtimeNext]_realtimeVars
  PROVE  KnownInv'
<1>1. ASSUME NEW i \in Instances, Registry(i) PROVE KnownInv'
  BY <1>1, RegistryKnown
<1>2. CASE UNCHANGED <<posted, stream, cursor, own>>
  BY <1>2 DEF KnownInv
<1> QED
  BY <1>1, <1>2 DEF RealtimeNext, ClientStep, Cut, realtimeVars, serverVars

LEMMA NextOnce ==
  ASSUME TypeOK, SocketsInv, ServerTypes, QueueInv, KnownInv, HomeInv, OnceInv,
         [RealtimeNext]_realtimeVars
  PROVE  OnceInv'
<1> SUFFICES ASSUME ~doubled' PROVE Once'
  BY DEF OnceInv
<1>1. ASSUME NEW i \in Instances, Registry(i) PROVE Once'
  <2>1. ~doubled
    BY <1>1 DEF Registry, Post, PostUnstreamed, Added, AddUnanswered, Trimmed, PollStream,
       PollAnswered, PollFails, CaughtUp, CatchUpFails, Unregister, Restart, Write, clientSide
  <2> QED
    BY <1>1, <2>1, RegistryOnce DEF OnceInv
<1>2. ASSUME NEW k \in Attempts, Cut(k) PROVE Once'
  <2>1. ~doubled /\ {k} \in SUBSET Attempts /\ Abandon({k}) /\ wired' \subseteq wired
        /\ UNCHANGED <<posted, stream, cursor, own, seen, resumeId, lastId>>
    BY <1>2 DEF Cut, vars, connVars
  <2> QED
    BY <2>1, AbandonOnce DEF OnceInv
<1>3. CASE ClientStep
  <2>1. Next /\ UNCHANGED <<posted, stream, cursor, own>>
    BY <1>3, ClientStepCases
  <2>2. ASSUME NEW k \in Attempts, NEW i \in Instances,
               Linked(adapter'[k]), ~Linked(adapter[k]), Register(k, i)
        PROVE  Once'
    <3>1. ~doubled
      BY <2>2 DEF Register
    <3> QED
      BY <2>1, <2>2, <3>1, RegisterOnce DEF OnceInv
  <2> DEFINE K == Closed
  <2>3. ASSUME \A k \in Attempts : Linked(adapter'[k]) => Linked(adapter[k]),
               Abandon(K), doubled' = doubled,
               \/ reloads' # reloads /\ seen' = [n \in Entries |-> 0]
               \/ /\ UNCHANGED <<resumeId, seen>>
                  /\ \A k \in Attempts : Linked(adapter'[k]) => lastId'[k] = lastId[k]
        PROVE  Once'
    <3>1. K \in SUBSET Attempts /\ Once /\ wired' \subseteq wired /\ wired \subseteq Attempts
      BY <2>1, <2>3, Links DEF OnceInv, TypeOK, Closed
    <3>2. CASE reloads' # reloads /\ seen' = [n \in Entries |-> 0]
      <4>1. wired' = {}
        BY <2>1, <3>2, Links
      <4> HIDE DEF K
      <4> QED
        BY <2>1, <2>3, <3>1, <3>2, <4>1, ReloadOnce
    <3>3. CASE /\ UNCHANGED <<resumeId, seen>>
               /\ \A k \in Attempts : Linked(adapter'[k]) => lastId'[k] = lastId[k]
      <4>1. ASSUME NEW k \in Attempts, home'[k] # Nowhere PROVE lastId'[k] = lastId[k]
        <5>1. k \notin K /\ home[k] # Nowhere
          BY <2>3, <3>1, <4>1, AbandonHome
        <5>2. Linked(adapter'[k])
          BY <5>1 DEF HomeInv, Closed
        <5> QED
          BY <3>3, <5>2
      <4> HIDE DEF K
      <4>2. \A k \in wired' : k \in Attempts /\ home'[k] # Nowhere => lastId'[k] = lastId[k]
        BY <4>1
      <4> QED
        BY <2>1, <2>3, <3>1, <3>3, <4>2, AbandonOnce
    <3> QED
      BY <2>3, <3>2, <3>3
  <2> QED
    BY <1>3, <2>2, <2>3, ClientStepCases
<1>4. CASE UNCHANGED realtimeVars
  BY <1>4 DEF realtimeVars, serverVars, clientSide, vars, connVars, OnceInv, Once, AllInLine,
              OneSocket, SeenInv, Views, ViewAt, AheadAt, Placed
<1> QED
  BY <1>1, <1>2, <1>3, <1>4 DEF RealtimeNext

\* However instances, polls, catch-ups and reconnects interleave, a client that had none of
\* the listed mishaps has every notification once at most
\* (packages/server/src/transport/registry.ts:86-219, ws-handler.ts:205-240).
THEOREM NothingTwice == RealtimeSpec => []SeenOnce
<1> DEFINE Typed == TypeOK /\ SavedInv /\ ServerTypes /\ QueueInv
           More == SocketsInv /\ KnownInv /\ HomeInv /\ OnceInv
<1>1. RealtimeInit => More
  BY InitOnce, InitSockets DEF RealtimeInit
<1>2. Typed /\ More /\ [RealtimeNext]_realtimeVars => More'
  BY NextHome, NextKnown, NextOnce, NextSockets, RealtimeStepIsClientStep
<1>3. OnceInv => SeenOnce
  BY DEF OnceInv, Once, SeenInv, SeenOnce
<1>4. RealtimeSpec => []Typed
  BY RealtimeTypes
<1> HIDE DEF Typed
<1>5. RealtimeSpec => []More
  <2> HIDE DEF More
  <2> QED
    BY <1>1, <1>2, <1>4, PTL DEF RealtimeSpec
<1> QED
  BY <1>3, <1>5, PTL
-----------------------------------------------------------------------------
(* Nothing missed.                                                         *)

\* The id a reply brings is one that its successors do not fall behind, nor the cursor.
Rise(a, b) ==
  a.command \in {"add", "read"} =>
    /\ b.command = "add" => Below(a, b)
    /\ b.command = "read" => \A m \in a.entries : \E x \in b.entries : m <= x

Level(r, c) ==
  /\ r.command = "add" => \A n \in r.entries : c < n
  /\ r.command = "read" => \E n \in r.entries : c <= n

Rises(rs, c) ==
  /\ \A p, q \in DOMAIN rs : p < q => Rise(rs[p], rs[q])
  /\ \A r \in ToSet(rs) : Level(r, c)

AllRise == \A i \in Instances : Rises(replies[i], cursor[i])

IdsKnown == resumeId \in 0 .. posted /\ \A k \in Attempts : lastId[k] \in 0 .. posted

\* The client has it, or the model names what kept it away.
Met(n) == seen[n] > 0 \/ n \in passedBy

\* On its way to the socket k, whatever fails but the socket.
Firm(rs, k, n) ==
  \E r \in ToSet(rs) : /\ n \in r.entries
                       /\ r.command \in {"add", "trim"} \/ (r.command = "range" /\ r.socket = k)

Brings(r, n) == r.command = "read" /\ n \in r.entries

ReadBefore(rs, q, n) == \E p \in DOMAIN rs : p < q /\ Brings(rs[p], n)

Passes(r, n) == \E m \in r.entries : n < m

\* What the reply at q would write past n comes after a poll that brings n, or is one.
After(rs, c, k, n, q) ==
  /\ rs[q].command = "trim" => (\A m \in rs[q].entries : m <= c) /\ ReadBefore(rs, q, n)
  /\ rs[q].command = "read" => n \in rs[q].entries \/ (n < c /\ ReadBefore(rs, q, n))
  /\ ~(rs[q].command = "range" /\ rs[q].socket = k)

\* A poll under way brings n, unless one to come does, before anything behind it.
Polled(rs, c, k, n) ==
  /\ n < c => \E q \in DOMAIN rs : Brings(rs[q], n)
  /\ \A q \in DOMAIN rs : Passes(rs[q], n) => After(rs, c, k, n, q)

Awaited(rs, c, o, l, k, n) == n \notin o /\ n # c /\ n > l /\ Polled(rs, c, k, n)

Served(k, i) ==
  \A n \in stream : \/ Met(n) \/ Firm(replies[i], k, n)
                    \/ Awaited(replies[i], cursor[i], own[i], lastId[k], k, n)

Online == \A k \in wired : \A i \in Instances : home[k] = i => Served(k, i)

Expected(k) == k \in wired \/ attempt[k] = "opening"

Offline ==
  \A k \in Attempts : Expected(k) =>
    \A n \in stream : n = lastId[k] \/ (home[k] = Nowhere /\ n <= lastId[k]) => Met(n)

Resumed == resumeId = 0 \/ \E k \in wired : lastId[k] = resumeId

MissedInv == IdsKnown /\ AllRise /\ Online /\ Offline /\ Resumed

LEMMA RisesTail ==
  ASSUME NEW rs \in Seq(Answers), rs # <<>>, NEW c, Rises(rs, c)
  PROVE  /\ Rises(Tail(rs), c) /\ Level(Head(rs), c)
         /\ \A r \in ToSet(Tail(rs)) : Rise(Head(rs), r)
<1> USE QueueTail
<1>1. ASSUME NEW p \in DOMAIN Tail(rs), NEW q \in DOMAIN Tail(rs), p < q
      PROVE  Rise(Tail(rs)[p], Tail(rs)[q])
  <2>1. p + 1 \in DOMAIN rs /\ q + 1 \in DOMAIN rs /\ p + 1 < q + 1
    BY <1>1
  <2> QED
    BY <1>1, <2>1 DEF Rises
<1>2. ASSUME NEW p \in DOMAIN Tail(rs) PROVE Rise(Head(rs), Tail(rs)[p])
  <2>1. 1 \in DOMAIN rs /\ p + 1 \in DOMAIN rs /\ 1 < p + 1
    BY <1>2
  <2> QED
    BY <1>2, <2>1 DEF Rises
<1>3. \A r \in ToSet(rs) : Level(r, c)
  BY DEF Rises
<1>4. ToSet(rs) = ToSet(Tail(rs)) \cup {Head(rs)}
  BY Dropped
<1> QED
  BY <1>1, <1>2, <1>3, <1>4 DEF Rises, ToSet

LEMMA RisesAppend ==
  ASSUME NEW rs \in Seq(Answers), NEW r \in Answers, NEW c, Rises(rs, c), Level(r, c),
         \A a \in ToSet(rs) : Rise(a, r)
  PROVE  Rises(Append(rs, r), c)
<1> USE QueueAppend
<1>1. \A p \in DOMAIN rs : Rise(rs[p], r)
  BY DEF ToSet
<1>2. ASSUME NEW p \in DOMAIN Append(rs, r), NEW q \in DOMAIN Append(rs, r), p < q
      PROVE  Rise(Append(rs, r)[p], Append(rs, r)[q])
  <2>1. p \in DOMAIN rs
    BY <1>2
  <2>2. CASE q \in DOMAIN rs
    BY <1>2, <2>1, <2>2 DEF Rises
  <2>3. CASE q = Len(rs) + 1
    BY <1>1, <1>2, <2>1, <2>3
  <2> QED
    BY <1>2, <2>2, <2>3
<1>3. \A a \in ToSet(Append(rs, r)) : Level(a, c)
  BY Appended DEF Rises
<1> QED
  BY <1>2, <1>3 DEF Rises

\* The queue without its first reply, unless that one was the poll that brings n.
LEMMA PolledTail ==
  ASSUME NEW rs \in Seq(Answers), rs # <<>>, NEW c \in Nat, NEW k, NEW n \in Nat,
         Polled(rs, c, k, n), ~Brings(Head(rs), n) \/ n > c,
         \A r \in ToSet(rs) : r.entries \subseteq Nat
  PROVE  Polled(Tail(rs), c, k, n)
<1> USE QueueTail
<1>1. \A p \in DOMAIN Tail(rs) : p + 1 \in DOMAIN rs /\ Tail(rs)[p] = rs[p + 1] /\ p \in Nat
  OBVIOUS
<1>2. \A q \in DOMAIN rs : q = 1 \/ (q - 1 \in DOMAIN Tail(rs) /\ Tail(rs)[q - 1] = rs[q])
  OBVIOUS
<1>3. ASSUME n < c PROVE \E q \in DOMAIN Tail(rs) : Brings(Tail(rs)[q], n)
  <2>1. PICK q \in DOMAIN rs : Brings(rs[q], n)
    BY <1>3 DEF Polled
  <2>2. q # 1
    BY <1>3, <2>1
  <2> QED
    BY <1>2, <2>1, <2>2
<1>4. ASSUME NEW q \in DOMAIN Tail(rs), Passes(Tail(rs)[q], n) PROVE After(Tail(rs), c, k, n, q)
  <2>1. q + 1 \in DOMAIN rs /\ Tail(rs)[q] = rs[q + 1] /\ After(rs, c, k, n, q + 1)
    BY <1>1, <1>4 DEF Polled
  <2>2. CASE ~Brings(Head(rs), n)
    <3>1. ReadBefore(rs, q + 1, n) => ReadBefore(Tail(rs), q, n)
      <4> SUFFICES ASSUME NEW p \in DOMAIN rs, p < q + 1, Brings(rs[p], n)
                   PROVE  ReadBefore(Tail(rs), q, n)
        BY DEF ReadBefore
      <4>1. p # 1
        BY <2>2
      <4>2. p - 1 \in DOMAIN Tail(rs) /\ Brings(Tail(rs)[p - 1], n) /\ p - 1 < q
        BY <1>1, <1>2, <4>1
      <4> QED
        BY <4>2 DEF ReadBefore
    <3> QED
      BY <2>1, <3>1 DEF After
  <2>3. CASE n > c
    <3>1. Tail(rs)[q].command # "trim"
      <4>1. PICK m \in Tail(rs)[q].entries : n < m
        BY <1>4 DEF Passes
      <4>2. Tail(rs)[q] \in ToSet(rs)
        BY <2>1 DEF ToSet
      <4>3. m \in Nat
        BY <4>1, <4>2
      <4> QED
        BY <2>1, <2>3, <4>1, <4>3 DEF After
    <3> QED
      BY <2>1, <2>3, <3>1 DEF After
  <2> QED
    BY <2>2, <2>3
<1> QED
  BY <1>3, <1>4 DEF Polled

\* One more reply, which does not pass n, or comes after what brings it.
LEMMA PolledAppend ==
  ASSUME NEW rs \in Seq(Answers), NEW r \in Answers, NEW c \in Nat, NEW k, NEW n \in Nat,
         Polled(rs, c, k, n),
         Passes(r, n) =>
           /\ r.command = "trim" => /\ \A m \in r.entries : m <= c
                                    /\ \E q \in DOMAIN rs : Brings(rs[q], n)
           /\ r.command = "read" => n \in r.entries \/ n < c
           /\ ~(r.command = "range" /\ r.socket = k)
  PROVE  Polled(Append(rs, r), c, k, n)
<1> USE QueueAppend
<1> DEFINE as == Append(rs, r)
<1>1. \A p \in DOMAIN rs : p \in DOMAIN as /\ as[p] = rs[p] /\ p < Len(rs) + 1
  OBVIOUS
<1>2. as[Len(rs) + 1] = r /\ \A q \in DOMAIN as : q \in DOMAIN rs \/ q = Len(rs) + 1
  OBVIOUS
<1> HIDE DEF as
<1>3. \A q \in DOMAIN rs : ReadBefore(rs, q, n) => ReadBefore(as, q, n)
  BY <1>1 DEF ReadBefore
<1>4. (\E q \in DOMAIN rs : Brings(rs[q], n)) =>
        (\E q \in DOMAIN as : Brings(as[q], n)) /\ ReadBefore(as, Len(rs) + 1, n)
  BY <1>1 DEF ReadBefore
<1>5. ASSUME NEW q \in DOMAIN rs, Passes(as[q], n) PROVE After(as, c, k, n, q)
  <2>1. After(rs, c, k, n, q) /\ as[q] = rs[q]
    BY <1>1, <1>5 DEF Polled
  <2> QED
    BY <1>3, <2>1 DEF After
<1>6. Passes(as[Len(rs) + 1], n) => After(as, c, k, n, Len(rs) + 1)
  BY <1>2, <1>4 DEF After, Polled
<1>7. Polled(as, c, k, n)
  BY <1>2, <1>4, <1>5, <1>6 DEF Polled
<1> QED
  BY <1>7 DEF as

\* The cursor moves on.
LEMMA PolledOn ==
  ASSUME NEW rs \in Seq(Answers), NEW c \in Nat, NEW d \in Nat, c <= d, NEW k, NEW n \in Nat,
         Polled(rs, c, k, n), n < d => \E q \in DOMAIN rs : Brings(rs[q], n),
         \A r \in ToSet(rs) : r.entries \subseteq Nat
  PROVE  Polled(rs, d, k, n)
<1>1. ASSUME NEW q \in DOMAIN rs, Passes(rs[q], n) PROVE After(rs, d, k, n, q)
  <2>1. After(rs, c, k, n, q)
    BY <1>1 DEF Polled
  <2>2. rs[q].entries \subseteq Nat
    BY DEF ToSet
  <2> QED
    BY <2>1, <2>2 DEF After
<1> QED
  BY <1>1 DEF Polled

\* The replies to closed sockets say nothing.
LEMMA PolledVoided ==
  ASSUME NEW rs \in Seq(Answers), NEW c, NEW k, NEW n, NEW K, k \notin K, Polled(rs, c, k, n)
  PROVE  Polled([q \in DOMAIN rs |-> Voided(rs[q], K)], c, k, n)
<1> DEFINE vs == [q \in DOMAIN rs |-> Voided(rs[q], K)]
<1>1. DOMAIN vs = DOMAIN rs /\ \A q \in DOMAIN rs : vs[q] = Voided(rs[q], K)
  OBVIOUS
<1> HIDE DEF vs
<1>2. \A q \in DOMAIN rs : \/ vs[q] = rs[q]
                           \/ rs[q].command = "range" /\ vs[q].entries = {} /\ vs[q].command = "range"
  BY <1>1 DEF Voided, Reply
<1>3. \A q \in DOMAIN rs : Brings(rs[q], n) => Brings(vs[q], n)
  BY <1>2 DEF Brings
<1>4. ASSUME NEW q \in DOMAIN vs, Passes(vs[q], n) PROVE After(vs, c, k, n, q)
  <2>1. vs[q] = rs[q] /\ q \in DOMAIN rs
    BY <1>1, <1>2, <1>4 DEF Passes
  <2>2. After(rs, c, k, n, q)
    BY <1>4, <2>1 DEF Polled
  <2>3. ReadBefore(rs, q, n) => ReadBefore(vs, q, n)
    BY <1>1, <1>3 DEF ReadBefore
  <2> QED
    BY <2>1, <2>2, <2>3 DEF After
<1>5. Polled(vs, c, k, n)
  BY <1>1, <1>3, <1>4 DEF Polled
<1> QED
  BY <1>5 DEF vs
-----------------------------------------------------------------------------
(* From what the sockets are served to what the client resumes from.       *)

\* What a socket that goes now loses below its id is seen, passed by, or on its way to it.
LEMMA OvertakenOrMet ==
  ASSUME ServerTypes, NEW k \in Attempts, NEW i \in Instances, home[k] = i, Served(k, i),
         NEW n \in stream, n <= lastId[k], n = lastId[k] => Met(n)
  PROVE  Met(n) \/ n \in Overtaken(k)
<1>1. n \in Nat /\ lastId[k] \in Nat
  BY Bounds, EntriesAreNumbers DEF ServerTypes
<1>2. CASE Firm(replies[i], k, n) /\ n < lastId[k]
  <2>1. PICK r \in ToSet(replies[i]) : /\ n \in r.entries
                                       /\ \/ r.command \in {"add", "trim"}
                                          \/ r.command = "range" /\ r.socket = k
    BY <1>2 DEF Firm
  <2>2. r.command # "range" \/ r.socket = k
    BY <2>1
  <2> QED
    BY <1>2, <2>1, <2>2 DEF Overtaken
<1>3. CASE Awaited(replies[i], cursor[i], own[i], lastId[k], k, n)
  BY <1>1, <1>3 DEF Awaited
<1> QED
  BY <1>1, <1>2, <1>3 DEF Served

\* It is the client that hears what comes to a socket it expects something from.
LEMMA Heard ==
  ASSUME HomeInv, SocketsInv, NEW k \in Attempts, Expected(k), home[k] # Nowhere
  PROVE  k \in wired
BY DEF HomeInv, SocketsInv, Expected, Linked

LEMMA ServedMissNothing ==
  ASSUME TypeOK, ServerTypes, MissedInv PROVE NothingMissed
<1> SUFFICES ASSUME NEW n \in stream, n <= resumeId
             PROVE  Met(n) \/ n \in Forsaken(wired)
  BY DEF NothingMissed, Met
<1>1. n \in Nat /\ n # 0 /\ resumeId \in Nat
  BY Bounds DEF ServerTypes, Entries
<1>2. PICK k \in wired : lastId[k] = resumeId
  BY <1>1 DEF MissedInv, Resumed
<1>3. k \in Attempts /\ Expected(k)
  BY DEF TypeOK, Expected
<1>4. CASE home[k] = Nowhere
  BY <1>2, <1>3, <1>4 DEF MissedInv, Offline
<1>5. CASE home[k] # Nowhere
  <2>1. PICK i \in Instances : home[k] = i
    BY <1>3, <1>5 DEF ServerTypes
  <2>2. Served(k, i) /\ (n = lastId[k] => Met(n))
    BY <1>3, <2>1 DEF MissedInv, Online, Offline
  <2>3. Met(n) \/ n \in Overtaken(k)
    BY <1>2, <1>3, <2>1, <2>2, OvertakenOrMet
  <2> QED
    BY <1>5, <2>3 DEF Forsaken
<1> QED
  BY <1>4, <1>5

-----------------------------------------------------------------------------
(* The queues rise.                                                        *)

LEMMA RegistryRises ==
  ASSUME ServerTypes, QueueInv, KnownInv, AllRise, NEW i \in Instances, Registry(i)
  PROVE  AllRise'
<1> DEFINE rs == replies[i]
           c == cursor[i]
<1>0. SUFFICES Rises(replies'[i], cursor'[i])
  BY RegistryQueue DEF AllRise
<1>1. /\ rs \in Seq(Answers) /\ c \in Nat /\ Rises(rs, c)
      /\ \A r \in ToSet(rs) : r \in Answers /\ Sound(r, stream)
  <2>1. rs \in Seq(Answers) /\ c \in Nat
    BY Bounds DEF ServerTypes
  <2> QED
    BY <2>1, SetOfAnswers DEF AllRise, QueueInv, ToSet
<1>2. \A n \in stream : n \in Nat /\ 0 < n /\ n \in Entries
  BY Bounds DEF ServerTypes, Entries
<1>3. rs # <<>> => /\ Rises(Tail(rs), c) /\ Tail(rs) \in Seq(Answers) /\ Level(Head(rs), c)
                   /\ \A r \in ToSet(Tail(rs)) : Rise(Head(rs), r) /\ r \in ToSet(rs)
                   /\ Sound(Head(rs), stream) /\ Head(rs).entries \subseteq Entries
  <2> SUFFICES ASSUME rs # <<>>
               PROVE  /\ Rises(Tail(rs), c) /\ Tail(rs) \in Seq(Answers) /\ Level(Head(rs), c)
                      /\ \A r \in ToSet(Tail(rs)) : Rise(Head(rs), r) /\ r \in ToSet(rs)
                      /\ Sound(Head(rs), stream) /\ Head(rs).entries \subseteq Entries
    OBVIOUS
  <2>1. Rises(Tail(rs), c) /\ Level(Head(rs), c) /\ \A r \in ToSet(Tail(rs)) : Rise(Head(rs), r)
    BY <1>1, RisesTail
  <2>2. Tail(rs) \in Seq(Answers) /\ Sound(Head(rs), stream) /\ Head(rs).entries \subseteq Entries
    BY HeadTypes
  <2>3. ToSet(Tail(rs)) \subseteq ToSet(rs)
    BY <1>1, Dropped
  <2> QED
    BY <2>1, <2>2, <2>3
\* The cursor moves to the greatest of what the first reply brings.
<1>4. ASSUME rs # <<>>, Head(rs).command \in {"add", "read"}
      PROVE  Rises(Tail(rs), Max(Head(rs).entries))
  <2>1. Head(rs).entries # {}
    BY <1>3, <1>4 DEF Sound
  <2>2. Max(Head(rs).entries) \in Head(rs).entries
    BY <1>3, <1>4, <2>1, Bounds, Greatest
  <2>3. ASSUME NEW r \in ToSet(Tail(rs)) PROVE Level(r, Max(Head(rs).entries))
    BY <1>3, <1>4, <2>2, <2>3 DEF Rise, Below, Level
  <2> QED
    BY <1>3, <1>4, <2>3 DEF Rises
<1>5. CASE Post(i)
  <2> DEFINE n == posted + 1
             r == Reply("add", {n}, 0)
  <2>1. n \in Entries /\ replies'[i] = Append(rs, r) /\ cursor'[i] = c
    BY <1>5, Bounds DEF Post, Issue, ServerTypes, Entries
  <2>2. r \in Answers /\ r.command = "add" /\ r.entries = {n}
    BY <2>1, EntriesAreNumbers DEF Reply, Answers, Commands
  <2>3. c < n /\ \A m \in stream : m < n
    BY Bounds DEF KnownInv, ServerTypes
  <2> HIDE DEF n, r, rs, c
  <2>4. Level(r, c)
    BY <2>2, <2>3 DEF Level
  <2>5. \A a \in ToSet(rs) : Rise(a, r)
    BY <1>1, <2>2, <2>3 DEF Rise, Below, Sound
  <2>6. Rises(Append(rs, r), c)
    BY <1>1, <2>2, <2>4, <2>5, RisesAppend
  <2> QED
    BY <2>1, <2>6
<1>6. CASE Added(i)
  <2>1. rs # <<>> /\ Head(rs).command = "add"
    BY <1>6 DEF Added, Comes
  <2> DEFINE n == Max(Head(rs).entries)
             r == Reply("trim", {n}, 0)
  <2>2. replies'[i] = Append(Tail(rs), r) /\ cursor'[i] = n
    BY <1>6 DEF Added, ServerTypes
  <2>3. n \in Entries
    <3>1. Head(rs).entries # {}
      BY <1>3, <2>1 DEF Sound
    <3> QED
      BY <1>3, <2>1, <3>1, Bounds, Greatest
  <2>4. r \in Answers /\ r.command = "trim"
    BY <2>3, EntriesAreNumbers DEF Reply, Answers, Commands
  <2>5. Rises(Tail(rs), n)
    BY <1>4, <2>1
  <2> HIDE DEF n, r, rs, c
  <2>6. Level(r, n) /\ \A a \in ToSet(Tail(rs)) : Rise(a, r)
    BY <2>4 DEF Level, Rise
  <2>7. Rises(Append(Tail(rs), r), n)
    BY <1>3, <2>1, <2>4, <2>5, <2>6, RisesAppend
  <2> QED
    BY <2>2, <2>7
<1>7. CASE PollStream(i)
  <2> DEFINE S == {n \in stream : n > c}
             r == Reply("read", S, 0)
  <2>1. replies'[i] = Append(rs, r) /\ cursor'[i] = c /\ S # {}
    BY <1>7 DEF PollStream, Issue, ServerTypes
  <2>2. r \in Answers /\ r.command = "read" /\ r.entries = S
    <3>1. S \in SUBSET Entries
      BY <1>2
    <3> QED
      BY <3>1, EntriesAreNumbers DEF Reply, Answers, Commands
  <2>3. PICK x \in S : TRUE
    BY <2>1
  <2>4. x \in Nat /\ c < x
    BY <1>1, <1>2, <2>3
  <2> HIDE DEF r, rs, c
  <2>5. Level(r, c)
    BY <1>1, <2>2, <2>3, <2>4 DEF Level
  <2>6. ASSUME NEW a \in ToSet(rs) PROVE Rise(a, r)
    <3> SUFFICES ASSUME NEW m \in a.entries PROVE \E y \in S : m <= y
      BY <2>2 DEF Rise
    <3>1. m \in stream /\ m \in Nat
      BY <1>1, <1>2 DEF Sound
    <3>2. CASE m > c
      <4>1. m \in S /\ m <= m
        BY <3>1, <3>2
      <4> QED
        BY <4>1
    <3>3. CASE ~(m > c)
      <4>1. m <= x
        BY <1>1, <2>4, <3>1, <3>3
      <4> QED
        BY <2>3, <4>1
    <3> QED
      BY <3>2, <3>3
  <2>7. Rises(Append(rs, r), c)
    BY <1>1, <2>2, <2>5, <2>6, RisesAppend
  <2> QED
    BY <2>1, <2>7
<1>8. CASE PollAnswered(i)
  BY <1>4, <1>8 DEF PollAnswered, Comes, Taken, ServerTypes
<1>9. CASE AddUnanswered(i) \/ Trimmed(i) \/ PollFails(i) \/ CaughtUp(i) \/ CatchUpFails(i)
  BY <1>3, <1>9 DEF AddUnanswered, Trimmed, PollFails, CaughtUp, CatchUpFails, Comes, Taken, ServerTypes
<1>10. CASE PostUnstreamed(i)
  BY <1>1, <1>10 DEF PostUnstreamed
<1>11. CASE Unregister(i)
  <2>1. replies'[i] = rs /\ cursor'[i] \in {0, c}
    BY <1>11 DEF Unregister, ServerTypes
  <2>2. Rises(rs, 0)
    BY <1>1, <1>2 DEF Rises, Level, Sound
  <2> QED
    BY <1>1, <2>1, <2>2
<1>12. CASE Restart(i)
  <2>1. replies'[i] = <<>> /\ DOMAIN <<>> = {} /\ ToSet(<<>>) = {}
    BY <1>12, EmptySeq DEF Restart, ServerTypes, ToSet
  <2> QED
    BY <2>1 DEF Rises
<1> QED
  BY <1>5, <1>6, <1>7, <1>8, <1>9, <1>10, <1>11, <1>12 DEF Registry

-----------------------------------------------------------------------------
(* What the sockets are written.                                           *)

LEMMA ShowMore ==
  ASSUME ServerTypes, NEW S, NEW K \in SUBSET Attempts, Show(S, K)
  PROVE  \A n \in Entries : seen[n] > 0 \/ (n \in S /\ K \cap wired # {}) => seen'[n] > 0
<1> DEFINE copies == Cardinality(K \cap wired)
<1>1. copies \in Nat /\ (K \cap wired # {} => copies > 0)
  <2>1. IsFiniteSet(K \cap wired)
    BY Bounds, FS_Subset
  <2> QED
    BY <2>1, FS_CardinalityType, FS_EmptySet
<1>2. seen' = [n \in Entries |-> IF n \notin S THEN seen[n]
                                 ELSE IF seen[n] + copies > 2 THEN 2 ELSE seen[n] + copies]
  BY DEF Show
<1>3. \A n \in Entries : seen[n] \in 0 .. 2
  BY DEF ServerTypes
<1> HIDE DEF copies
<1> QED
  BY <1>1, <1>2, <1>3

\* What a step of i does to the ids, and to what the client has.
LEMMA RegistryWrites ==
  ASSUME ServerTypes, QueueInv, HomeInv, NEW i \in Instances, Registry(i)
  PROVE  /\ \A n \in Entries : Met(n) => Met(n)'
         /\ attempt' = attempt
         /\ \/ UNCHANGED <<lastId, resumeId>>
            \/ /\ UNCHANGED <<home, stream, posted>>
               /\ \E S \in SUBSET stream, K \in SUBSET Sockets(i) : S # {} /\ Write(S, K)
<1>1. attempt' = attempt
  BY DEF Registry, Post, PostUnstreamed, Added, AddUnanswered, Trimmed, PollStream, PollAnswered,
         PollFails, CaughtUp, CatchUpFails, Unregister, Restart, vars, connVars
<1>2. ASSUME UNCHANGED seen, passedBy \subseteq passedBy'
      PROVE  \A n \in Entries : Met(n) => Met(n)'
  BY <1>2 DEF Met
<1>3. ASSUME NEW S, NEW K \in SUBSET Attempts, Show(S, K), passedBy \subseteq passedBy'
      PROVE  \A n \in Entries : Met(n) => Met(n)'
  BY <1>3, ShowMore DEF Met
<1>4. ASSUME NEW S \in SUBSET stream, NEW K \in SUBSET Sockets(i), Write(S, K),
             UNCHANGED <<stream, posted>>
      PROVE  /\ \A n \in Entries : Met(n) => Met(n)'
             /\ \/ UNCHANGED <<lastId, resumeId>>
                \/ /\ UNCHANGED <<home, stream, posted>>
                   /\ \E T \in SUBSET stream, L \in SUBSET Sockets(i) : T # {} /\ Write(T, L)
  <2>1. K \in SUBSET Attempts
    BY SocketTypes
  <2>2. \A n \in Entries : Met(n) => Met(n)'
    BY <1>3, <1>4, <2>1 DEF Write
  <2>3. S = {} => lastId' = lastId /\ resumeId' = resumeId
    BY <1>4 DEF Write, ServerTypes
  <2>4. UNCHANGED home
    BY <1>4 DEF Write
  <2> QED
    BY <1>4, <2>2, <2>3, <2>4
<1>5. CASE Post(i) \/ PollStream(i) \/ Unregister(i)
  BY <1>1, <1>2, <1>5 DEF Post, PollStream, Unregister, clientSide
<1>6. CASE Added(i) \/ PollFails(i) \/ CatchUpFails(i) \/ Restart(i)
  BY <1>1, <1>2, <1>6 DEF Added, PollFails, CatchUpFails, Restart
<1>7. CASE PostUnstreamed(i) \/ AddUnanswered(i)
  BY <1>1, <1>3, <1>7, SocketTypes DEF PostUnstreamed, AddUnanswered
<1>8. CASE Trimmed(i)
  <2>1. Head(replies[i]).entries \in SUBSET stream
    BY <1>8, HeadTypes DEF Trimmed, Comes, Sound
  <2> QED
    BY <1>1, <1>4, <1>8, <2>1 DEF Trimmed
<1>9. CASE PollAnswered(i)
  <2>1. Head(replies[i]).entries \ own[i] \in SUBSET stream
    BY <1>9, HeadTypes DEF PollAnswered, Comes, Sound
  <2> QED
    BY <1>1, <1>4, <1>9, <2>1 DEF PollAnswered
<1>10. CASE CaughtUp(i)
  <2> DEFINE h == Head(replies[i])
  <2>1. /\ h \in Answers /\ Sound(h, stream) /\ h.command = "range" /\ replies[i] # <<>>
        /\ Write(h.entries, {h.socket}) /\ UNCHANGED <<stream, posted>>
    BY <1>10, HeadTypes DEF CaughtUp, Comes
  <2>2. h.entries \in SUBSET stream
    BY <2>1 DEF Sound
  <2>3. CASE h.socket = 0
    <3>1. h.entries = {}
      BY <2>1, <2>3 DEF Sound
    <3>2. /\ lastId' = lastId /\ resumeId' = resumeId /\ seen' = seen /\ passedBy' = passedBy
      BY <2>1, <3>1 DEF Write, Show, ServerTypes
    <3> QED
      BY <1>1, <1>2, <3>2
  <2>4. CASE h.socket # 0
    <3>1. h \in ToSet(replies[i]) /\ h.socket \in Attempts
      <4>1. replies[i] \in Seq(Answers)
        BY DEF ServerTypes
      <4>2. h \in ToSet(replies[i])
        BY <2>1, <4>1, Dropped
      <4> QED
        BY <2>1, <2>4, <4>2, ClientAssumption DEF ClientAssumption, Answers, Attempts
    <3>2. {h.socket} \in SUBSET Sockets(i)
      BY <2>1, <2>4, <3>1 DEF HomeInv, Sockets
    <3> HIDE DEF h
    <3> QED
      BY <1>1, <1>4, <2>1, <2>2, <3>2
  <2> QED
    BY <2>3, <2>4
<1> QED
  BY <1>5, <1>6, <1>7, <1>8, <1>9, <1>10 DEF Registry
\* A socket that is written something has it, and nothing below what it has then.
LEMMA RegistryOffline ==
  ASSUME TypeOK, SocketsInv, ServerTypes, QueueInv, KnownInv, HomeInv, MissedInv,
         NEW i \in Instances, Registry(i)
  PROVE  (IdsKnown /\ Offline /\ Resumed)'
<1>1. /\ \A n \in Entries : Met(n) => Met(n)'
      /\ attempt' = attempt /\ wired' = wired
      /\ posted <= posted' /\ posted' \in Nat /\ posted \in Nat /\ stream \subseteq stream'
  BY RegistryWrites, RegistryQueue, RegistryKnown, Bounds
<1>2. \A n \in stream : n \in Entries /\ n \in Nat /\ n <= posted
  BY Bounds, EntriesAreNumbers DEF ServerTypes
<1>3. \A k \in Attempts : Expected(k)' <=> Expected(k)
  BY <1>1 DEF Expected
<1>4. \A k \in Attempts : lastId[k] \in 0 .. posted
  BY DEF MissedInv, IdsKnown
<1>5. CASE UNCHANGED <<lastId, resumeId>>
  <2>1. IdsKnown' /\ Resumed'
    BY <1>1, <1>5 DEF MissedInv, IdsKnown, Resumed
  <2>2. ASSUME NEW n \in stream' PROVE n \in stream \/ (n \in Nat /\ n > posted)
    BY <1>1, <2>2
       DEF Registry, Post, PostUnstreamed, Added, AddUnanswered, Trimmed, PollStream, PollAnswered,
           PollFails, CaughtUp, CatchUpFails, Unregister, Restart
  <2>3. ASSUME NEW k \in Attempts, Expected(k), NEW n \in stream,
               n = lastId[k] \/ (home'[k] = Nowhere /\ n <= lastId[k])
        PROVE  Met(n)'
    <3>1. n = lastId[k] => Met(n)
      BY <2>3 DEF MissedInv, Offline
    <3>2. CASE home[k] = Nowhere \/ n = lastId[k]
      BY <1>1, <1>2, <2>3, <3>2 DEF MissedInv, Offline
    <3>3. CASE home[k] # Nowhere /\ home'[k] = Nowhere /\ n <= lastId[k]
      <4>1. Restart(i)
        BY <3>3
           DEF Registry, Post, PostUnstreamed, Added, AddUnanswered, Trimmed, PollStream,
               PollAnswered, PollFails, CaughtUp, CatchUpFails, Unregister, Write, clientSide
      <4>2. home[k] = i
        BY <3>3, <4>1 DEF Restart
      <4>3. k \in wired
        BY <2>3, <3>3, Heard
      <4>4. Met(n) \/ n \in Overtaken(k)
        BY <2>3, <3>1, <3>3, <4>2, <4>3, OvertakenOrMet DEF MissedInv, Online
      <4>5. Overtaken(k) \subseteq passedBy'
        BY <3>3, <4>1, <4>2 DEF Restart, Forsaken, Sockets
      <4> QED
        BY <1>1, <1>2, <4>4, <4>5 DEF Met
    <3> QED
      BY <2>3, <3>2, <3>3
  <2>4. ASSUME NEW k \in Attempts, Expected(k)', NEW n \in stream',
               n = lastId'[k] \/ (home'[k] = Nowhere /\ n <= lastId'[k])
        PROVE  Met(n)'
    <3>1. n \in stream
      <4>1. lastId[k] \in 0 .. posted
        BY <1>4
      <4>2. n = lastId[k] \/ n <= lastId[k]
        BY <1>5, <2>4
      <4> QED
        BY <1>1, <2>2, <4>1, <4>2
    <3> QED
      BY <1>3, <1>5, <2>3, <2>4, <3>1
  <2> QED
    BY <2>1, <2>4 DEF Offline
<1>6. ASSUME UNCHANGED <<home, stream, posted>>, NEW S \in SUBSET stream,
             NEW K \in SUBSET Sockets(i), S # {}, Write(S, K)
      PROVE  (IdsKnown /\ Offline /\ Resumed)'
  <2>1. Max(S) \in S /\ K \in SUBSET Attempts
    BY <1>6, Bounds, Greatest DEF Sockets
  <2>2. /\ \A k \in Attempts : lastId'[k] = IF k \in K THEN Max(S) ELSE lastId[k]
        /\ resumeId' = IF K \cap wired # {} THEN Max(S) ELSE resumeId
    BY <1>6 DEF Write
  <2>3. K \cap wired # {} => \A n \in S : Met(n)'
    <3> SUFFICES ASSUME K \cap wired # {}, NEW n \in S PROVE Met(n)'
      OBVIOUS
    <3>1. seen'[n] > 0
      BY <1>2, <1>6, <2>1, ShowMore DEF Write
    <3> QED
      BY <3>1 DEF Met
  <2>4. IdsKnown'
    BY <1>2, <1>6, <2>1, <2>2 DEF MissedInv, IdsKnown
  <2>5. Resumed'
    <3>1. CASE K \cap wired # {}
      BY <1>1, <2>1, <2>2, <3>1 DEF Resumed
    <3>2. CASE K \cap wired = {}
      BY <1>1, <2>2, <3>2 DEF MissedInv, Resumed, TypeOK
    <3> QED
      BY <3>1, <3>2
  <2>6. ASSUME NEW k \in Attempts, Expected(k), NEW n \in stream,
               n = lastId'[k] \/ (home[k] = Nowhere /\ n <= lastId'[k])
        PROVE  Met(n)'
    <3>1. CASE k \in K
      <4>1. home[k] # Nowhere
        BY <3>1, RealtimeAssumption DEF RealtimeAssumption, Sockets
      <4>2. k \in wired
        BY <2>6, <4>1, Heard
      <4> QED
        BY <2>1, <2>2, <2>3, <2>6, <3>1, <4>1, <4>2
    <3>2. CASE k \notin K
      BY <1>1, <1>2, <2>2, <2>6, <3>2 DEF MissedInv, Offline
    <3> QED
      BY <3>1, <3>2
  <2> QED
    BY <1>3, <1>6, <2>4, <2>5, <2>6 DEF Offline
<1> QED
  BY <1>5, <1>6, RegistryWrites

\* The sockets of the other instances, which know nothing of the step.
LEMMA ServedElsewhere ==
  ASSUME ServerTypes, QueueInv, KnownInv, HomeInv, MissedInv, NEW i \in Instances, Registry(i),
         NEW j \in Instances, j # i, NEW k \in Attempts, home[k] = j, Served(k, j)
  PROVE  Served(k, j)'
<1>1. /\ replies'[j] = replies[j] /\ cursor'[j] = cursor[j] /\ own'[j] = own[j]
      /\ \A n \in Entries : Met(n) => Met(n)'
  BY RegistryQueue, RegistryWrites
<1>2. lastId'[k] = lastId[k]
  <2>1. ASSUME NEW S \in SUBSET stream, NEW K \in SUBSET Sockets(i), Write(S, K)
        PROVE  lastId'[k] = lastId[k]
    BY <2>1 DEF Write, Sockets
  <2> QED
    BY <2>1, RegistryWrites
<1>3. ASSUME NEW n \in stream PROVE Met(n)' \/ Firm(replies'[j], k, n)
                                    \/ Awaited(replies'[j], cursor'[j], own'[j], lastId'[k], k, n)
  BY <1>1, <1>2, Bounds DEF Served
<1>4. ASSUME NEW n \in stream', n \notin stream
      PROVE  Awaited(replies'[j], cursor'[j], own'[j], lastId'[k], k, n)
  <2>1. n > posted /\ n \in Nat /\ posted \in Nat
    BY <1>4, Bounds
       DEF Registry, Post, PostUnstreamed, Added, AddUnanswered, Trimmed, PollStream, PollAnswered,
           PollFails, CaughtUp, CatchUpFails, Unregister, Restart
  <2>2. /\ cursor[j] \in 0 .. posted /\ own[j] \subseteq stream /\ stream \subseteq 1 .. posted
        /\ lastId[k] \in 0 .. posted
    BY DEF KnownInv, ServerTypes, MissedInv, IdsKnown
  <2>3. \A q \in DOMAIN replies[j] : ~Passes(replies[j][q], n)
    <3> SUFFICES ASSUME NEW q \in DOMAIN replies[j], NEW m \in replies[j][q].entries PROVE ~(n < m)
      BY DEF Passes
    <3>1. m \in 1 .. posted
      BY <2>2 DEF QueueInv, Sound
    <3> QED
      BY <2>1, <3>1
  <2> QED
    BY <1>1, <1>2, <1>4, <2>1, <2>2, <2>3 DEF Awaited, Polled
<1> QED
  BY <1>3, <1>4 DEF Served
\* Who is firm to bring n, when the queue loses its first reply, or gets one more.
LEMMA FirmMoves ==
  ASSUME NEW rs \in Seq(Answers), NEW k, NEW n
  PROVE  /\ rs # <<>> /\ Firm(rs, k, n) =>
              \/ Firm(Tail(rs), k, n)
              \/ /\ n \in Head(rs).entries
                 /\ \/ Head(rs).command \in {"add", "trim"}
                    \/ Head(rs).command = "range" /\ Head(rs).socket = k
         /\ \A r \in Answers : Firm(rs, k, n) => Firm(Append(rs, r), k, n)
         /\ \A r \in Answers : n \in r.entries
                               /\ (r.command \in {"add", "trim"} \/ (r.command = "range" /\ r.socket = k))
                               => Firm(Append(rs, r), k, n)
<1>1. rs # <<>> => ToSet(rs) = ToSet(Tail(rs)) \cup {Head(rs)}
  BY Dropped
<1>2. \A r \in Answers : ToSet(Append(rs, r)) = ToSet(rs) \cup {r}
  BY Appended
<1> QED
  BY <1>1, <1>2 DEF Firm

\* What the sockets of the instance itself are served: what is written out has been
\* waited for, and what is yet to be written out is not behind it.
LEMMA ServedHere ==
  ASSUME ServerTypes, QueueInv, KnownInv, HomeInv, MissedInv, NEW i \in Instances, Registry(i),
         NEW k \in Attempts, k \in wired, home'[k] = i, Served(k, i)
  PROVE  Served(k, i)'
<1> DEFINE rs == replies[i]
           c == cursor[i]
           o == own[i]
           l == lastId[k]
           h == Head(rs)
<1>1. /\ rs \in Seq(Answers) /\ c \in Nat /\ l \in Nat
      /\ \A r \in ToSet(rs) : r \in Answers /\ Sound(r, stream)
  <2>1. rs \in Seq(Answers) /\ c \in Nat /\ l \in Nat
    BY Bounds DEF ServerTypes
  <2> QED
    BY <2>1, SetOfAnswers DEF QueueInv, ToSet
<1>2. \A n \in stream : n \in Nat /\ n \in Entries
  BY Bounds, EntriesAreNumbers
<1>3. home[k] = i /\ k \in Sockets(i) /\ Sockets(i) \cap wired # {} /\ Sockets(i) # {}
  <2>1. i # Nowhere
    BY RealtimeAssumption DEF RealtimeAssumption
  <2>2. home[k] = i
    BY <2>1, RegistryHome
  <2> QED
    BY <2>2 DEF Sockets
<1>4. \A n \in Entries : Met(n) => Met(n)'
  BY RegistryWrites
<1>5. \A n \in stream : Met(n) \/ Firm(rs, k, n) \/ Awaited(rs, c, o, l, k, n)
  BY DEF Served
<1>6. ASSUME rs # <<>>
      PROVE  /\ Tail(rs) \in Seq(Answers) /\ h \in Answers /\ h.entries \in SUBSET stream
             /\ Sound(h, stream) /\ Level(h, c)
             /\ h = rs[1] /\ 1 \in DOMAIN rs /\ DOMAIN rs \subseteq Nat \ {0}
             /\ \A r \in ToSet(Tail(rs)) : r \in ToSet(rs)
  <2>1. h = rs[1] /\ 1 \in DOMAIN rs /\ DOMAIN rs \subseteq Nat \ {0} /\ Tail(rs) \in Seq(Answers)
    BY <1>1, <1>6, QueueTail
  <2>2. h \in ToSet(rs) /\ ToSet(Tail(rs)) \subseteq ToSet(rs)
    BY <1>1, <1>6, Dropped
  <2> QED
    BY <1>1, <2>1, <2>2 DEF Sound, MissedInv, AllRise, Rises
<1>7. \A r \in ToSet(rs) : r.entries \subseteq Nat
  BY <1>1, <1>2 DEF Sound
\* The first reply is gone: what was awaited still is, unless it was what brought it.
<1>8. ASSUME rs # <<>>, NEW n \in stream, Polled(rs, c, k, n), ~Brings(h, n) \/ n > c
      PROVE  Polled(Tail(rs), c, k, n)
  BY <1>1, <1>2, <1>7, <1>8, PolledTail
\* Nothing awaited is below what the first reply writes out.
<1>9. ASSUME rs # <<>>, NEW n \in stream, Awaited(rs, c, o, l, k, n), Passes(h, n)
      PROVE  /\ h.command # "trim" /\ ~(h.command = "range" /\ h.socket = k)
             /\ h.command = "read" => n \in h.entries
  <2>1. After(rs, c, k, n, 1) /\ ~ReadBefore(rs, 1, n)
    BY <1>6, <1>9 DEF Awaited, Polled, ReadBefore
  <2> QED
    BY <1>6, <1>9, <2>1 DEF After, Passes
<1>10. ASSUME NEW n \in stream, ~Met(n)'
       PROVE  Firm(rs, k, n) \/ Awaited(rs, c, o, l, k, n)
  BY <1>2, <1>4, <1>5, <1>10
<1>11. ASSUME NEW S, NEW K \in SUBSET Attempts, Show(S, K), k \in K, NEW n \in S, n \in stream
       PROVE  Met(n)'
  BY <1>2, <1>11, ShowMore DEF Met
<1>12. ASSUME NEW S \in SUBSET stream, S # {}, NEW n \in stream, n \notin S, \A m \in S : ~(n < m)
       PROVE  Max(S) < n
  BY <1>2, <1>12, Bounds, Greatest
<1>13. Sockets(i) \in SUBSET Attempts
  BY SocketTypes
<1>14. ASSUME NEW n \in stream, rs # <<>>, Firm(rs, k, n)
       PROVE  \/ Firm(Tail(rs), k, n)
              \/ n \in h.entries /\ (h.command \in {"add", "trim"} \/ (h.command = "range" /\ h.socket = k))
  BY <1>1, <1>14, FirmMoves
<1>15. CASE Post(i)
  <2> DEFINE r == Reply("add", {posted + 1}, 0)
  <2>1. /\ replies'[i] = Append(rs, r) /\ cursor'[i] = c /\ own'[i] = o /\ lastId'[k] = l
        /\ stream' = stream \cup {posted + 1} /\ posted + 1 \in Entries
    BY <1>15, Bounds DEF Post, Issue, ServerTypes, Entries, clientSide
  <2>2. r \in Answers /\ r.command = "add" /\ r.entries = {posted + 1}
    BY <2>1, EntriesAreNumbers DEF Reply, Answers, Commands
  <2> HIDE DEF r, rs, c, o, l, h
  <2>3. Firm(Append(rs, r), k, posted + 1)
    BY <1>1, <2>2, FirmMoves
  <2>4. ASSUME NEW n \in stream, ~Met(n)'
        PROVE  Firm(Append(rs, r), k, n) \/ Awaited(Append(rs, r), c, o, l, k, n)
    <3>1. CASE Firm(rs, k, n)
      BY <1>1, <2>2, <3>1, FirmMoves
    <3>2. CASE Awaited(rs, c, o, l, k, n)
      <4>1. Polled(Append(rs, r), c, k, n)
        BY <1>1, <1>2, <2>2, <3>2, PolledAppend DEF Awaited
      <4> QED
        BY <3>2, <4>1 DEF Awaited
    <3> QED
      BY <1>10, <2>4, <3>1, <3>2
  <2> QED
    BY <2>1, <2>3, <2>4 DEF Served
<1>16. CASE PostUnstreamed(i)
  <2>1. /\ replies'[i] = rs /\ cursor'[i] = c /\ own'[i] = o /\ lastId'[k] = l /\ stream' = stream
    BY <1>16 DEF PostUnstreamed
  <2> QED
    BY <1>10, <2>1 DEF Served
<1>17. CASE Added(i)
  <2>1. rs # <<>> /\ h.command = "add"
    BY <1>17 DEF Added, Comes
  <2>2. PICK m \in stream : h.entries = {m}
    BY <1>6, <2>1 DEF Sound
  <2>3. Max(h.entries) = m
    BY <2>2, Bounds, Greatest
  <2> DEFINE r == Reply("trim", {m}, 0)
  <2>4. /\ replies'[i] = Append(Tail(rs), r) /\ cursor'[i] = m /\ own'[i] = o \cup {m}
        /\ lastId'[k] = l /\ stream' = stream
        /\ {n \in stream : c < n /\ n < m} \ Coming(i, {"read"}) \subseteq passedBy'
    BY <1>3, <1>17, <2>3 DEF Added, ServerTypes
  <2>5. r \in Answers /\ r.command = "trim" /\ r.entries = {m} /\ m \in Nat /\ c < m
    <3>1. r \in Answers /\ r.command = "trim" /\ r.entries = {m}
      BY <1>2, EntriesAreNumbers DEF Reply, Answers, Commands
    <3>2. c < m
      BY <1>6, <2>1, <2>2 DEF Level
    <3> QED
      BY <1>2, <3>1, <3>2
  <2>6. ToSet(rs) = ToSet(Tail(rs)) \cup {h}
    BY <1>1, <2>1, Dropped
  <2>7. Coming(i, {"read"}) = UNION {a.entries : a \in {b \in ToSet(rs) : b.command = "read"}}
    BY DEF Coming
  <2> HIDE DEF r, rs, c, o, l, h
  <2>8. ASSUME NEW n \in stream, ~Met(n)'
        PROVE  \/ Firm(Append(Tail(rs), r), k, n)
               \/ Awaited(Append(Tail(rs), r), m, o \cup {m}, l, k, n)
    <3>1. CASE n = m
      BY <1>6, <2>1, <2>5, <3>1, FirmMoves
    <3>2. CASE Firm(rs, k, n) /\ n # m
      <4>1. Firm(Tail(rs), k, n)
        BY <1>14, <2>1, <2>2, <3>2
      <4> QED
        BY <1>6, <2>1, <2>5, <4>1, FirmMoves
    <3>3. CASE Awaited(rs, c, o, l, k, n) /\ n # m
      <4>1. Polled(Tail(rs), c, k, n)
        BY <1>8, <2>1, <3>3 DEF Awaited, Brings
      <4>2. ASSUME n < m PROVE \E q \in DOMAIN Tail(rs) : Brings(Tail(rs)[q], n)
        <5>1. CASE n < c
          BY <4>1, <5>1 DEF Polled
        <5>2. CASE c < n
          <6>1. n \in Coming(i, {"read"})
            BY <2>4, <2>8, <4>2, <5>2 DEF Met
          <6>2. PICK a \in ToSet(rs) : a.command = "read" /\ n \in a.entries
            BY <2>7, <6>1
          <6>3. a \in ToSet(Tail(rs))
            BY <2>1, <2>6, <6>2
          <6> QED
            BY <6>2, <6>3 DEF ToSet, Brings
        <5>3. n # c /\ n \in Nat
          BY <1>2, <3>3 DEF Awaited
        <5> QED
          BY <1>1, <5>1, <5>2, <5>3
      <4>3. Polled(Tail(rs), m, k, n)
        <5>1. \A a \in ToSet(Tail(rs)) : a.entries \subseteq Nat
          BY <1>6, <1>7, <2>1
        <5>2. c <= m /\ n \in Nat
          BY <1>1, <1>2, <2>5
        <5> QED
          BY <1>1, <1>6, <2>1, <2>5, <4>1, <4>2, <5>1, <5>2, PolledOn
      <4>4. Polled(Append(Tail(rs), r), m, k, n)
        <5>1. Passes(r, n) => n < m /\ \A x \in r.entries : x <= m
          BY <2>5 DEF Passes
        <5> QED
          BY <1>2, <1>6, <2>1, <2>5, <4>2, <4>3, <5>1, PolledAppend
      <4> QED
        BY <3>3, <4>4 DEF Awaited
    <3> QED
      BY <1>10, <2>8, <3>1, <3>2, <3>3
  <2> QED
    BY <2>4, <2>8 DEF Served
\* A reply is taken, and nothing that is awaited is behind what the socket has then.
<1>18. ASSUME rs # <<>>, Taken(i), UNCHANGED <<stream, cursor, own>>,
              \A n \in stream : ~Met(n)' =>
                /\ n \in h.entries => /\ h.command \notin {"add", "trim"}
                                      /\ ~(h.command = "range" /\ h.socket = k)
                                      /\ h.command = "read" => ~(n < c)
                /\ Awaited(rs, c, o, l, k, n) => lastId'[k] < n
       PROVE  Served(k, i)'
  <2>1. replies'[i] = Tail(rs) /\ cursor'[i] = c /\ own'[i] = o /\ stream' = stream
    BY <1>18 DEF Taken, ServerTypes
  <2> HIDE DEF rs, c, o, l, h
  <2>2. ASSUME NEW n \in stream, ~Met(n)'
        PROVE  Firm(Tail(rs), k, n) \/ Awaited(Tail(rs), c, o, lastId'[k], k, n)
    <3>1. CASE Firm(rs, k, n)
      BY <1>14, <1>18, <2>2, <3>1
    <3>2. CASE Awaited(rs, c, o, l, k, n)
      <4>1. ~Brings(h, n) \/ n > c
        BY <1>1, <1>2, <1>18, <2>2, <3>2 DEF Brings, Awaited
      <4>2. Polled(Tail(rs), c, k, n)
        BY <1>8, <1>18, <3>2, <4>1 DEF Awaited
      <4>3. n > lastId'[k]
        BY <1>18, <2>2, <3>2
      <4> QED
        BY <3>2, <4>2, <4>3 DEF Awaited
    <3> QED
      BY <1>10, <2>2, <3>1, <3>2
  <2> QED
    BY <2>1, <2>2 DEF Served
<1>19. CASE AddUnanswered(i)
  <2>1. /\ rs # <<>> /\ Taken(i) /\ UNCHANGED <<stream, cursor, own>> /\ lastId'[k] = l
        /\ Show(h.entries, Sockets(i))
    BY <1>19 DEF AddUnanswered, Comes
  <2> HIDE DEF rs, c, o, l, h
  <2>2. \A n \in stream : ~Met(n)' => n \notin h.entries
    BY <1>3, <1>11, <1>13, <2>1
  <2> QED
    BY <1>18, <2>1, <2>2 DEF Awaited
<1>20. CASE Trimmed(i)
  <2>1. /\ rs # <<>> /\ h.command = "trim" /\ Taken(i) /\ UNCHANGED <<stream, cursor, own>>
        /\ Write(h.entries, Sockets(i))
    BY <1>20 DEF Trimmed, Comes
  <2>2. h.entries # {} /\ h.entries \in SUBSET stream
    BY <1>6, <2>1 DEF Sound
  <2>3. lastId'[k] = Max(h.entries)
    BY <1>3, <2>1, <2>2 DEF Write
  <2> HIDE DEF rs, c, o, l, h
  <2>4. ASSUME NEW n \in stream, ~Met(n)'
        PROVE  n \notin h.entries /\ (Awaited(rs, c, o, l, k, n) => Max(h.entries) < n)
    <3>1. n \notin h.entries
      BY <1>3, <1>11, <1>13, <2>1, <2>4 DEF Write
    <3>2. ASSUME Awaited(rs, c, o, l, k, n) PROVE \A m \in h.entries : ~(n < m)
      BY <1>9, <2>1, <3>2 DEF Passes
    <3> QED
      BY <1>12, <2>2, <3>1, <3>2
  <2> QED
    BY <1>18, <2>1, <2>3, <2>4
<1>21. CASE PollStream(i)
  <2> DEFINE S == {n \in stream : n > c}
             r == Reply("read", S, 0)
  <2>1. /\ replies'[i] = Append(rs, r) /\ cursor'[i] = c /\ own'[i] = o /\ lastId'[k] = l
        /\ stream' = stream
    BY <1>21 DEF PollStream, Issue, ServerTypes
  <2>2. r \in Answers /\ r.command = "read" /\ r.entries = S
    <3>1. S \in SUBSET Entries
      BY <1>2
    <3> QED
      BY <3>1, EntriesAreNumbers DEF Reply, Answers, Commands
  <2> HIDE DEF r, rs, c, o, l, h
  <2>3. ASSUME NEW n \in stream, ~Met(n)'
        PROVE  Firm(Append(rs, r), k, n) \/ Awaited(Append(rs, r), c, o, l, k, n)
    <3>1. CASE Firm(rs, k, n)
      BY <1>1, <2>2, <3>1, FirmMoves
    <3>2. CASE Awaited(rs, c, o, l, k, n)
      <4>1. n \in S \/ n < c
        BY <1>1, <1>2, <3>2 DEF Awaited
      <4>2. Polled(Append(rs, r), c, k, n)
        BY <1>1, <1>2, <2>2, <3>2, <4>1, PolledAppend DEF Awaited
      <4> QED
        BY <3>2, <4>2 DEF Awaited
    <3> QED
      BY <1>10, <2>3, <3>1, <3>2
  <2> QED
    BY <2>1, <2>3 DEF Served
<1>22. CASE PollAnswered(i)
  <2> DEFINE S == h.entries
             c2 == Max(S)
  <2>1. /\ rs # <<>> /\ h.command = "read" /\ stream' = stream
        /\ replies'[i] = Tail(rs) /\ cursor'[i] = c2 /\ own'[i] = o \ S
        /\ Write(S \ o, Sockets(i))
    BY <1>22 DEF PollAnswered, Comes, Taken, ServerTypes
  <2>2. S # {} /\ S \in SUBSET stream /\ S \in SUBSET Entries
    BY <1>2, <1>6, <2>1 DEF Sound
  <2>3. c2 \in S /\ c2 \in Nat /\ \A m \in S : m <= c2
    BY <1>2, <2>2, Bounds, Greatest
  <2>4. c <= c2
    <3>1. PICK m \in S : c <= m
      BY <1>6, <2>1 DEF Level
    <3> QED
      BY <1>1, <1>2, <2>2, <2>3, <3>1
  <2>5. lastId'[k] = IF S \ o # {} THEN Max(S \ o) ELSE l
    BY <1>3, <2>1 DEF Write
  <2> HIDE DEF rs, c, o, l, h, c2, S
  <2>6. ASSUME NEW n \in stream, ~Met(n)'
        PROVE  Firm(Tail(rs), k, n) \/ Awaited(Tail(rs), c2, o \ S, lastId'[k], k, n)
    <3>1. CASE Firm(rs, k, n)
      BY <1>14, <2>1, <3>1
    <3>2. CASE Awaited(rs, c, o, l, k, n)
      <4>1. n \notin S
        <5>1. n \notin S \ o
          BY <1>3, <1>11, <1>13, <2>1, <2>6 DEF Write
        <5> QED
          BY <3>2, <5>1 DEF Awaited
      <4>2. \A m \in S : ~(n < m)
        BY <1>9, <2>1, <3>2, <4>1 DEF Passes, S
      <4>3. c2 < n
        BY <1>12, <2>2, <4>1, <4>2 DEF c2
      <4>4. lastId'[k] < n
        <5>1. l < n
          BY <1>1, <1>2, <3>2 DEF Awaited
        <5>2. S \ o \in SUBSET stream /\ \A m \in S \ o : ~(n < m)
          BY <2>2, <4>2
        <5>3. S \ o # {} => Max(S \ o) < n
          BY <1>12, <4>1, <5>2
        <5> QED
          BY <2>5, <5>1, <5>3
      <4>5. Polled(Tail(rs), c, k, n)
        BY <1>8, <2>1, <3>2, <4>1 DEF Awaited, Brings, S
      <4>6. Polled(Tail(rs), c2, k, n)
        <5>1. \A a \in ToSet(Tail(rs)) : a.entries \subseteq Nat
          BY <1>6, <1>7, <2>1
        <5>2. n \in Nat /\ ~(n < c2)
          BY <1>2, <2>3, <4>3
        <5> QED
          BY <1>1, <1>6, <2>1, <2>3, <2>4, <4>5, <5>1, <5>2, PolledOn
      <4> QED
        BY <1>2, <2>3, <3>2, <4>3, <4>4, <4>6 DEF Awaited
    <3> QED
      BY <1>10, <2>6, <3>1, <3>2
  <2> QED
    BY <2>1, <2>6 DEF Served
<1>23. CASE PollFails(i)
  <2>1. /\ rs # <<>> /\ h.command = "read" /\ Taken(i) /\ UNCHANGED <<stream, cursor, own>>
        /\ lastId'[k] = l /\ \A n \in h.entries : n < c => n \in passedBy'
    BY <1>23 DEF PollFails, Comes
  <2> HIDE DEF rs, c, o, l, h
  <2> QED
    BY <1>18, <2>1 DEF Awaited, Met
<1>24. CASE CaughtUp(i)
  <2>1. /\ rs # <<>> /\ h.command = "range" /\ Taken(i) /\ UNCHANGED <<stream, cursor, own>>
        /\ Write(h.entries, {h.socket})
    BY <1>24 DEF CaughtUp, Comes
  <2>2. lastId'[k] = IF h.socket = k /\ h.entries # {} THEN Max(h.entries) ELSE l
    BY <2>1 DEF Write
  <2> HIDE DEF rs, c, o, l, h
  <2>3. ASSUME NEW n \in stream, ~Met(n)', h.socket = k
        PROVE  n \notin h.entries /\ (Awaited(rs, c, o, l, k, n) => lastId'[k] < n)
    <3>1. n \notin h.entries
      <4>1. {k} \in SUBSET Attempts /\ Show(h.entries, {k})
        BY <2>1, <2>3 DEF Write
      <4> QED
        BY <1>11, <2>3, <4>1
    <3>2. ASSUME Awaited(rs, c, o, l, k, n), h.entries # {} PROVE Max(h.entries) < n
      <4>1. \A m \in h.entries : ~(n < m)
        BY <1>9, <2>1, <2>3, <3>2 DEF Passes
      <4> QED
        BY <1>6, <1>12, <2>1, <3>1, <3>2, <4>1
    <3> QED
      BY <2>2, <3>1, <3>2 DEF Awaited
  <2> QED
    BY <1>18, <2>1, <2>2, <2>3 DEF Awaited
<1>25. CASE CatchUpFails(i)
  <2>1. /\ rs # <<>> /\ h.command = "range" /\ Taken(i) /\ UNCHANGED <<stream, cursor, own>>
        /\ lastId'[k] = l /\ h.entries \subseteq passedBy'
    BY <1>25 DEF CatchUpFails, Comes
  <2> HIDE DEF rs, c, o, l, h
  <2> QED
    BY <1>18, <2>1 DEF Awaited, Met
<1>26. CASE Unregister(i)
  <2>1. /\ replies'[i] = rs /\ cursor'[i] = c /\ own'[i] = o /\ lastId'[k] = l /\ stream' = stream
    BY <1>3, <1>26 DEF Unregister, clientSide
  <2> QED
    BY <1>10, <2>1 DEF Served
<1>27. CASE Restart(i)
  <2>1. home'[k] # i
    BY <1>27, RealtimeAssumption DEF RealtimeAssumption, Restart
  <2> QED
    BY <2>1
<1> QED
  BY <1>15, <1>16, <1>17, <1>19, <1>20, <1>21, <1>22, <1>23, <1>24, <1>25, <1>26, <1>27 DEF Registry
LEMMA RegistryMissed ==
  ASSUME TypeOK, SocketsInv, ServerTypes, QueueInv, KnownInv, HomeInv, MissedInv,
         NEW i \in Instances, Registry(i)
  PROVE  MissedInv'
<1>1. (IdsKnown /\ Offline /\ Resumed)'
  BY RegistryOffline
<1>2. AllRise'
  BY RegistryRises DEF MissedInv
<1>3. ASSUME NEW k \in wired', NEW j \in Instances, home'[k] = j PROVE Served(k, j)'
  <2>1. k \in wired /\ k \in Attempts
    BY <1>3, RegistryQueue DEF TypeOK
  <2>2. home[k] = j /\ Served(k, j)
    <3>1. j # Nowhere
      BY RealtimeAssumption DEF RealtimeAssumption
    <3>2. home[k] = j
      BY <1>3, <2>1, <3>1, RegistryHome
    <3> QED
      BY <2>1, <3>2 DEF MissedInv, Online
  <2>3. CASE j = i
    BY <1>3, <2>1, <2>2, <2>3, ServedHere
  <2>4. CASE j # i
    BY <2>1, <2>2, <2>4, ServedElsewhere
  <2> QED
    BY <2>3, <2>4
<1> QED
  BY <1>1, <1>2, <1>3 DEF MissedInv, Online

-----------------------------------------------------------------------------
(* Sockets that close, and that open.                                      *)

\* An adapter is made when its attempt has restored the queue.
AdapterInv ==
  \A k \in Attempts : /\ attempt[k] \in {"unused", "restoring"} => adapter[k] = "none"
                      /\ k \in wired => adapter[k] # "none"

LEMMA InitAdapter == Init => AdapterInv
BY DEF Init, AdapterInv

\* What the client comes to expect something from is made in that step, and until a
\* restart of the application it goes on expecting it.
LEMMA Movers ==
  ASSUME TypeOK, SocketsInv, AdapterInv, Next
  PROVE  /\ AdapterInv'
         /\ \A k \in Attempts : Expected(k)' => Expected(k) \/ k \in Created
         /\ \/ wired \subseteq wired' /\ reloads' = reloads
            \/ /\ reloads' # reloads /\ \A k \in Attempts : ~Expected(k)'
               /\ \A k \in Attempts : ~Linked(adapter'[k])
<1> DEFINE Still(k) == attempt'[k] = attempt[k] /\ adapter'[k] = adapter[k]
           Goal == /\ AdapterInv'
                   /\ \A k \in Attempts : Expected(k)' => Expected(k) \/ k \in Created
                   /\ \/ wired \subseteq wired' /\ reloads' = reloads
                      \/ /\ reloads' # reloads /\ \A k \in Attempts : ~Expected(k)'
                         /\ \A k \in Attempts : ~Linked(adapter'[k])
<1>0. /\ adapter = [k \in Attempts |-> adapter[k]] /\ attempt = [k \in Attempts |-> attempt[k]]
      /\ wired \subseteq Attempts /\ (transport = 0 \/ transport \in Attempts)
  BY ClientAssumption DEF ClientAssumption, TypeOK, Attempts
\* One adapter moves, and what its attempt stands at.
<1>1. ASSUME NEW j \in Attempts, \A k \in Attempts \ {j} : Still(k), wired' = wired, reloads' = reloads,
             attempt'[j] \in {"unused", "restoring"} => adapter'[j] = "none",
             adapter'[j] = "none" => adapter[j] = "none",
             attempt'[j] = "opening" => attempt[j] = "opening" \/ j \in Created
      PROVE  Goal
  BY <1>0, <1>1 DEF AdapterInv, Expected
<1>2. ASSUME UNCHANGED <<attempt, adapter, wired, reloads>> PROVE Goal
  BY <1>2 DEF AdapterInv, Expected
<1>3. ASSUME NEW j \in Attempts, Connect(j) PROVE Goal
  BY <1>0, <1>1, <1>3 DEF Connect, actionVars, AdapterInv
<1>4. ASSUME NEW j \in Attempts, Restore(j) PROVE Goal
  <2>1. adapter[j] = "none" /\ wired' = wired /\ reloads' = reloads
    BY <1>4 DEF Restore, AdapterInv, actionVars
  <2>2. CASE current = j
    <3>1. attempt'[j] = "opening" /\ adapter'[j] = "opening" /\ \A k \in Attempts \ {j} : Still(k)
      BY <1>0, <1>4, <2>2 DEF Restore, SetAdapter
    <3> QED
      BY <1>1, <2>1, <3>1 DEF Created
  <2>3. CASE current # j
    <3>1. attempt'[j] = "done" /\ adapter'[j] = "none" /\ \A k \in Attempts \ {j} : Still(k)
      BY <1>0, <1>4, <2>1, <2>3 DEF Restore
    <3> QED
      BY <1>1, <2>1, <3>1
  <2> QED
    BY <2>2, <2>3
<1>a. ASSUME NEW j \in Attempts, RestoreFails(j) PROVE Goal
  <2>1. /\ attempt'[j] = "done" /\ adapter' = adapter /\ wired' = wired /\ reloads' = reloads
        /\ \A k \in Attempts \ {j} : Still(k)
    BY <1>0, <1>a DEF RestoreFails, actionVars
  <2> QED
    BY <1>1, <2>1
<1>5. ASSUME NEW j \in Attempts, OpenOvertaken(j) \/ OpenFails(j) PROVE Goal
  <2>1. /\ attempt'[j] = "done" /\ adapter'[j] # "none" /\ wired' = wired /\ reloads' = reloads
        /\ \A k \in Attempts \ {j} : Still(k)
    BY <1>0, <1>5 DEF OpenOvertaken, OpenFails, SetAdapter, actionVars
  <2> QED
    BY <1>1, <2>1
<1>6. ASSUME NEW j \in Attempts, Open(j) PROVE Goal
  <2>1. /\ attempt'[j] \in {"done", "flushing"} /\ adapter'[j] = "open" /\ wired' = wired \cup {j}
        /\ reloads' = reloads /\ attempt[j] = "opening"
        /\ \A k \in Attempts \ {j} : Still(k)
    BY <1>0, <1>6 DEF Open, SetAdapter, actionVars
  <2> QED
    BY <1>0, <2>1 DEF AdapterInv, Expected
<1>7. ASSUME NEW j \in Attempts, Socket(j) PROVE Goal
  <2>1. /\ attempt' = attempt /\ wired' = wired /\ reloads' = reloads
        /\ adapter[j] # "none" /\ adapter'[j] # "none"
        /\ \A k \in Attempts \ {j} : Still(k)
    BY <1>0, <1>7 DEF Socket, Lose, Retry, Reopen, RetryFails, SameQueue, SetAdapter, actionVars
  <2> QED
    BY <1>1, <2>1 DEF AdapterInv
<1>8. ASSUME Disconnect PROVE Goal
  <2>1. attempt' = attempt /\ wired' = wired /\ reloads' = reloads
    BY <1>8 DEF Disconnect, actionVars
  <2>2. CASE transport = 0
    BY <1>2, <1>8, <2>1, <2>2 DEF Disconnect
  <2>3. CASE transport # 0
    <3>1. transport \in Attempts /\ attempt[transport] \in {"flushing", "done"}
      BY <1>0, <2>3 DEF SocketsInv
    <3>2. adapter'[transport] \in {"late", "off"} /\ \A k \in Attempts \ {transport} : Still(k)
      BY <1>0, <1>8, <2>1, <2>3, <3>1 DEF Disconnect, SetAdapter
    <3> QED
      BY <1>1, <2>1, <3>1, <3>2
  <2> QED
    BY <2>2, <2>3
<1>9. ASSUME Act \/ (\E a \in Actions : Answer(a) \/ Enqueued(a)) \/ Replay PROVE Goal
  BY <1>2, <1>9 DEF Act, Answer, Enqueued, Replay, connVars, actionVars
<1>10. ASSUME Saved \/ SaveFails PROVE Goal
  <2>1. /\ UNCHANGED <<adapter, wired, reloads>>
        /\ \A k \in Attempts : attempt'[k] = attempt[k] \/ (attempt[k] = "flushing" /\ attempt'[k] = "done")
    BY <1>0, <1>10 DEF Saved, SaveFails, EndFlush, actionVars
  <2> QED
    BY <2>1 DEF AdapterInv, Expected
<1>11. ASSUME Reload PROVE Goal
  <2>1. /\ wired' = {} /\ reloads' # reloads
        /\ \A k \in Attempts : /\ attempt'[k] = IF attempt[k] = "unused" THEN "unused" ELSE "done"
                               /\ adapter'[k] = IF adapter[k] = "none" THEN "none" ELSE "off"
    BY <1>11 DEF Reload, TypeOK
  <2> QED
    BY <2>1 DEF AdapterInv, Expected, Linked
<1> HIDE DEF Goal
<1>12. Goal
  BY <1>3, <1>4, <1>a, <1>5, <1>6, <1>7, <1>8, <1>9, <1>10, <1>11 DEF Next, Own
<1> QED
  BY <1>12 DEF Goal
LEMMA AbandonRises ==
  ASSUME ServerTypes, AllRise, NEW K, Abandon(K), UNCHANGED cursor PROVE AllRise'
<1> SUFFICES ASSUME NEW i \in Instances PROVE Rises(replies'[i], cursor[i])
  BY DEF AllRise
<1> DEFINE rs == replies[i]
           vs == replies'[i]
<1>1. /\ Rises(rs, cursor[i]) /\ DOMAIN vs = DOMAIN rs
      /\ \A q \in DOMAIN rs : vs[q] = Voided(rs[q], K)
  BY DEF Abandon, AllRise
<1> HIDE DEF rs, vs
<1>2. \A q \in DOMAIN rs : vs[q] = rs[q] \/ (rs[q].command = "range" /\ vs[q].command = "range")
  BY <1>1 DEF Voided, Reply
<1>3. \A r \in ToSet(vs) : Level(r, cursor[i])
  BY <1>1, <1>2 DEF Rises, Level, ToSet
<1>4. \A p, q \in DOMAIN vs : p < q => Rise(vs[p], vs[q])
  <2> SUFFICES ASSUME NEW p \in DOMAIN vs, NEW q \in DOMAIN vs, p < q PROVE Rise(vs[p], vs[q])
    OBVIOUS
  <2>1. Rise(rs[p], rs[q])
    BY <1>1 DEF Rises
  <2> QED
    BY <1>1, <1>2, <2>1 DEF Rise
<1>5. Rises(vs, cursor[i])
  BY <1>3, <1>4 DEF Rises
<1> QED
  BY <1>5 DEF vs

\* A socket that stays open where others close.
LEMMA AbandonServed ==
  ASSUME ServerTypes, NEW K, Abandon(K), NEW i \in Instances, NEW k \in Attempts, k \notin K,
         Served(k, i), UNCHANGED <<stream, cursor, own>>, lastId'[k] = lastId[k],
         \A n \in Entries : Met(n) => Met(n)'
  PROVE  Served(k, i)'
<1> DEFINE rs == replies[i]
           vs == [q \in DOMAIN rs |-> Voided(rs[q], K)]
<1>1. replies'[i] = vs /\ rs \in Seq(Answers)
  BY DEF Abandon, ServerTypes
<1>2. ASSUME NEW n, Firm(rs, k, n) PROVE Firm(vs, k, n)
  <2>1. PICK q \in DOMAIN rs : /\ n \in rs[q].entries
                               /\ \/ rs[q].command \in {"add", "trim"}
                                  \/ rs[q].command = "range" /\ rs[q].socket = k
    BY <1>2 DEF Firm, ToSet
  <2>2. Voided(rs[q], K) = rs[q]
    BY <2>1 DEF Voided
  <2>3. q \in DOMAIN vs /\ vs[q] = rs[q]
    BY <2>2
  <2> HIDE DEF vs
  <2> QED
    BY <2>1, <2>3 DEF Firm, ToSet
<1>3. ASSUME NEW n, Polled(rs, cursor[i], k, n) PROVE Polled(vs, cursor[i], k, n)
  BY <1>1, <1>3, PolledVoided
<1> HIDE DEF rs, vs
<1>4. ASSUME NEW n \in stream, ~Met(n)'
      PROVE  Firm(vs, k, n) \/ Awaited(vs, cursor[i], own[i], lastId[k], k, n)
  <2>1. Firm(rs, k, n) \/ Awaited(rs, cursor[i], own[i], lastId[k], k, n)
    BY <1>4, Bounds DEF Served, rs
  <2> QED
    BY <1>2, <1>3, <2>1 DEF Awaited
<1> QED
  BY <1>1, <1>4 DEF Served

\* What was on its way to a socket that goes is passed by.
LEMMA AbandonOffline ==
  ASSUME HomeInv, SocketsInv, ServerTypes, MissedInv, NEW K \in SUBSET Attempts, Abandon(K),
         UNCHANGED stream, NEW k \in Attempts, Expected(k), lastId'[k] = lastId[k],
         \A n \in Entries : Met(n) => Met(n)',
         k \in K /\ home[k] # Nowhere => Overtaken(k) \subseteq passedBy',
         NEW n \in stream', n = lastId'[k] \/ (home'[k] = Nowhere /\ n <= lastId'[k])
  PROVE  Met(n)'
<1>1. n \in stream /\ n \in Entries /\ (n = lastId[k] => Met(n))
  BY Bounds DEF MissedInv, Offline
<1>2. CASE n = lastId[k] \/ home[k] = Nowhere
  BY <1>1, <1>2 DEF MissedInv, Offline
<1>3. CASE n # lastId[k] /\ home[k] # Nowhere
  <2>1. k \in wired /\ k \in K /\ n <= lastId[k]
    BY <1>3, Heard DEF Abandon
  <2>2. PICK i \in Instances : home[k] = i
    BY <1>3 DEF ServerTypes
  <2>3. Met(n) \/ n \in Overtaken(k)
    BY <1>1, <2>1, <2>2, OvertakenOrMet DEF MissedInv, Online
  <2> QED
    BY <1>1, <1>3, <2>1, <2>3 DEF Met
<1> QED
  BY <1>2, <1>3

LEMMA CutMissed ==
  ASSUME TypeOK, SocketsInv, ServerTypes, HomeInv, MissedInv, NEW j \in Attempts, Cut(j)
  PROVE  MissedInv'
<1>1. /\ UNCHANGED <<attempt, wired, posted, stream, cursor, own, lastId, resumeId, seen>>
      /\ {j} \in SUBSET Attempts /\ Abandon({j}) /\ home[j] # Nowhere
      /\ passedBy' = passedBy \cup Forsaken({j})
  BY DEF Cut, vars, connVars
<1>2. /\ \A n \in Entries : Met(n) => Met(n)'
      /\ Overtaken(j) \subseteq passedBy'
  BY <1>1 DEF Met, Forsaken
<1>3. IdsKnown' /\ Resumed'
  BY <1>1 DEF MissedInv, IdsKnown, Resumed
<1>4. AllRise'
  BY <1>1, AbandonRises DEF MissedInv
<1>5. \A k \in Attempts : home'[k] = IF k = j THEN Nowhere ELSE home[k]
  BY <1>1 DEF Abandon
<1>6. ASSUME NEW k \in wired', NEW i \in Instances, home'[k] = i PROVE Served(k, i)'
  <2>1. k \in wired /\ k \in Attempts /\ i # Nowhere
    BY <1>1, <1>6, RealtimeAssumption DEF TypeOK, RealtimeAssumption
  <2>2. k \notin {j} /\ home[k] = i
    BY <1>5, <1>6, <2>1
  <2> QED
    BY <1>1, <1>2, <2>1, <2>2, AbandonServed DEF MissedInv, Online
<1>7. ASSUME NEW k \in Attempts, Expected(k)', NEW n \in stream',
             n = lastId'[k] \/ (home'[k] = Nowhere /\ n <= lastId'[k])
      PROVE  Met(n)'
  <2>1. Expected(k) /\ lastId'[k] = lastId[k]
    BY <1>1, <1>7 DEF Expected
  <2> QED
    BY <1>1, <1>2, <1>7, <2>1, AbandonOffline
<1> QED
  BY <1>3, <1>4, <1>6, <1>7 DEF MissedInv, Online, Offline
\* Some of the client's sockets close, and a new adapter may take over its last id.
LEMMA ClosedMissed ==
  ASSUME TypeOK, SocketsInv, AdapterInv, ServerTypes, HomeInv, MissedInv, Next,
         \A k \in Attempts : Linked(adapter'[k]) => Linked(adapter[k]),
         Abandon(Closed), passedBy' = passedBy \cup Forsaken(IF Created = {} THEN Closed ELSE wired),
         reloads' = reloads,
         lastId' = [k \in Attempts |-> IF k \in Created THEN resumeId ELSE lastId[k]],
         UNCHANGED <<posted, stream, cursor, own, resumeId, seen>>
  PROVE  MissedInv'
<1>1. /\ wired' = wired /\ wired \subseteq Attempts /\ Closed \in SUBSET Attempts
      /\ \A k \in Attempts : Expected(k)' => Expected(k) \/ k \in Created
  BY Movers, Links DEF TypeOK, Closed
<1>2. \A k \in Attempts : k \in Created => k \notin wired /\ home[k] = Nowhere /\ ~Linked(adapter[k])
  BY DEF Created, AdapterInv, HomeInv, Linked
<1>3. \A k \in Attempts : /\ home'[k] = IF k \in Closed THEN Nowhere ELSE home[k]
                          /\ lastId'[k] = IF k \in Created THEN resumeId ELSE lastId[k]
  BY DEF Abandon
<1>4. \A n \in Entries : Met(n) => Met(n)'
  BY DEF Met
<1>5. AllRise'
  BY AbandonRises DEF MissedInv
<1>6. IdsKnown' /\ Resumed'
  <2>1. IdsKnown'
    BY <1>3 DEF MissedInv, IdsKnown
  <2>2. \A k \in wired : lastId'[k] = lastId[k]
    BY <1>1, <1>2, <1>3
  <2> QED
    BY <1>1, <2>1, <2>2 DEF MissedInv, Resumed
<1>7. ASSUME NEW k \in wired', NEW i \in Instances, home'[k] = i PROVE Served(k, i)'
  <2>1. k \in wired /\ k \in Attempts /\ i # Nowhere
    BY <1>1, <1>7, RealtimeAssumption DEF RealtimeAssumption
  <2>2. k \notin Closed /\ home[k] = i /\ lastId'[k] = lastId[k] /\ Served(k, i)
    BY <1>2, <1>3, <1>7, <2>1 DEF MissedInv, Online
  <2> QED
    BY <1>4, <2>1, <2>2, AbandonServed
<1>8. ASSUME NEW k \in Attempts, Expected(k)', NEW n \in stream',
             n = lastId'[k] \/ (home'[k] = Nowhere /\ n <= lastId'[k])
      PROVE  Met(n)'
  <2>1. n \in stream /\ n \in Entries /\ n \in Nat
    BY <1>8, Bounds, EntriesAreNumbers
  <2>2. CASE k \in Created
    <3>1. n <= resumeId
      BY <1>3, <1>8, <2>1, <2>2
    <3>2. Met(n) \/ n \in Forsaken(wired)
      BY <2>1, <3>1, ServedMissNothing DEF NothingMissed, Met
    <3> QED
      BY <1>4, <2>1, <2>2, <3>2 DEF Met
  <2>3. CASE k \notin Created
    <3>1. Expected(k) /\ lastId'[k] = lastId[k]
      BY <1>1, <1>3, <1>8, <2>3
    <3>2. ASSUME k \in Closed, home[k] # Nowhere PROVE Overtaken(k) \subseteq passedBy'
      <4>1. k \in wired
        BY <3>1, <3>2, Heard
      <4>2. Overtaken(k) \subseteq Forsaken(IF Created = {} THEN Closed ELSE wired)
        BY <3>2, <4>1 DEF Forsaken
      <4> QED
        BY <4>2
    <3> QED
      BY <1>1, <1>4, <1>8, <3>1, <3>2, AbandonOffline
  <2> QED
    BY <2>2, <2>3
<1> QED
  BY <1>5, <1>6, <1>7, <1>8 DEF MissedInv, Online, Offline

\* The application starts anew, and expects nothing yet.
LEMMA ReloadMissed ==
  ASSUME TypeOK, SocketsInv, AdapterInv, ServerTypes, MissedInv, Next, NEW K, Abandon(K),
         reloads' # reloads, lastId' = [k \in Attempts |-> 0], resumeId' = 0,
         UNCHANGED <<posted, stream, cursor, own>>
  PROVE  MissedInv'
<1>1. wired' \subseteq Attempts /\ \A k \in Attempts : ~Expected(k)'
  BY Movers, Links
<1>2. AllRise'
  BY AbandonRises DEF MissedInv
<1>3. IdsKnown' /\ Resumed'
  BY DEF MissedInv, IdsKnown, Resumed, ServerTypes
<1> QED
  BY <1>1, <1>2, <1>3 DEF MissedInv, Online, Offline, Expected

\* A socket opens: what is behind its id comes with the catch-up, and what has gone
\* before it is met already.
LEMMA RegisterMissed ==
  ASSUME TypeOK, SocketsInv, AdapterInv, ServerTypes, HomeInv, MissedInv, Next,
         NEW k \in Attempts, NEW i \in Instances, Linked(adapter'[k]), ~Linked(adapter[k]),
         Register(k, i), UNCHANGED <<posted, stream, cursor, own>>
  PROVE  MissedInv'
<1>1. /\ wired \subseteq wired' /\ wired' \subseteq wired \cup {k} /\ wired \subseteq Attempts
      /\ \A j \in Attempts : Expected(j)' => Expected(j)
  <2>1. wired \subseteq wired'
    BY Movers
  <2>2. wired' \subseteq wired \cup {k} /\ \A j \in Attempts : j # k => adapter'[j] = adapter[j]
    BY Links
  <2>3. Created = {}
    BY <2>2 DEF Created, Linked
  <2> QED
    BY <2>1, <2>2, <2>3, Movers DEF TypeOK
<1>2. /\ \A j \in Attempts : home'[j] = IF j = k THEN i ELSE home[j]
      /\ UNCHANGED <<lastId, resumeId, seen>> /\ passedBy \subseteq passedBy'
  BY DEF Register, ServerTypes
<1>3. home[k] = Nowhere /\ i # Nowhere
  BY RealtimeAssumption DEF RealtimeAssumption, HomeInv
<1>4. \A n \in Entries : Met(n) => Met(n)'
  BY <1>2 DEF Met
<1>5. IdsKnown' /\ Resumed'
  BY <1>1, <1>2 DEF MissedInv, IdsKnown, Resumed
<1>6. \A n \in stream : n \in Nat /\ n \in Entries
  BY Bounds, EntriesAreNumbers
<1>7. Offline'
  <2> SUFFICES ASSUME NEW j \in Attempts, Expected(j)', NEW n \in stream',
                      n = lastId'[j] \/ (home'[j] = Nowhere /\ n <= lastId'[j])
               PROVE  Met(n)'
    BY DEF Offline
  <2>1. Expected(j) /\ n \in stream
    BY <1>1
  <2>2. Met(n)
    BY <1>2, <1>3, <2>1 DEF MissedInv, Offline
  <2> QED
    BY <1>4, <1>6, <2>1, <2>2
<1> DEFINE r == Reply("range", CatchUp(k), k)
<1>8. /\ \A j \in Instances : j # i => replies'[j] = replies[j]
      /\ IF lastId[k] # 0 THEN replies'[i] = Append(replies[i], r) ELSE replies'[i] = replies[i]
  BY DEF Register, Issue, ServerTypes
<1>9. r \in Answers /\ r.command = "range" /\ r.socket = k /\ r.entries = CatchUp(k)
  <2>1. CatchUp(k) \in SUBSET Entries
    BY <1>6 DEF CatchUp, Missed
  <2> QED
    BY <2>1, EntriesAreNumbers DEF Reply, Answers, Commands
<1> HIDE DEF r
<1>10. \A j \in Instances : replies[j] \in Seq(Answers) /\ cursor[j] \in Nat
  BY Bounds DEF ServerTypes
<1>11. AllRise'
  <2>1. ASSUME NEW rs \in Seq(Answers), NEW c, Rises(rs, c) PROVE Rises(Append(rs, r), c)
    <3>1. Level(r, c) /\ \A a \in ToSet(rs) : Rise(a, r)
      BY <1>9 DEF Level, Rise
    <3> QED
      BY <1>9, <2>1, <3>1, RisesAppend
  <2>2. ASSUME NEW j \in Instances PROVE Rises(replies'[j], cursor'[j])
    <3>1. Rises(replies[j], cursor[j]) /\ cursor'[j] = cursor[j]
      BY DEF MissedInv, AllRise
    <3>2. replies'[j] = replies[j] \/ replies'[j] = Append(replies[j], r)
      BY <1>8
    <3> QED
      BY <1>10, <2>1, <3>1, <3>2
  <2> QED
    BY <2>2 DEF AllRise
\* The sockets that are there already.
<1>12. ASSUME NEW j \in Attempts, j # k, NEW h \in Instances, Served(j, h) PROVE Served(j, h)'
  <2>1. replies'[h] = replies[h] \/ replies'[h] = Append(replies[h], r)
    BY <1>8
  <2>2. ASSUME NEW n \in stream, ~Met(n)'
        PROVE  \/ Firm(replies'[h], j, n)
               \/ Awaited(replies'[h], cursor[h], own[h], lastId[j], j, n)
    <3>1. Firm(replies[h], j, n) \/ Awaited(replies[h], cursor[h], own[h], lastId[j], j, n)
      BY <1>4, <1>6, <1>12, <2>2 DEF Served
    <3>2. Firm(replies[h], j, n) => Firm(Append(replies[h], r), j, n)
      BY <1>9, <1>10, FirmMoves
    <3>3. ASSUME Polled(replies[h], cursor[h], j, n)
          PROVE  Polled(Append(replies[h], r), cursor[h], j, n)
      BY <1>6, <1>9, <1>10, <1>12, <3>3, PolledAppend
    <3> QED
      BY <2>1, <3>1, <3>2, <3>3 DEF Awaited
  <2> QED
    BY <1>2, <2>2 DEF Served
<1>13. ASSUME k \in wired' PROVE Served(k, i)'
  <2>1. Expected(k)
    BY <1>1, <1>13 DEF Expected
  <2>2. ASSUME NEW n \in stream, ~Met(n)' PROVE Firm(replies'[i], k, n)
    <3>1. lastId[k] # 0 /\ n \notin Missed(k) \ CatchUp(k)
      BY <2>2 DEF Register, Met
    <3>2. ~(n <= lastId[k])
      BY <1>3, <1>4, <1>6, <2>1, <2>2 DEF MissedInv, Offline
    <3>3. n > lastId[k]
      BY <1>6, <3>2 DEF ServerTypes
    <3>4. n \in CatchUp(k)
      BY <3>1, <3>3 DEF Missed
    <3> QED
      <4>1. Firm(Append(replies[i], r), k, n)
        BY <1>9, <1>10, <3>4, FirmMoves
      <4> QED
        BY <1>8, <3>1, <4>1
  <2> QED
    BY <2>2 DEF Served
<1>14. Online'
  <2> SUFFICES ASSUME NEW j \in wired', NEW h \in Instances, home'[j] = h PROVE Served(j, h)'
    BY DEF Online
  <2>1. j \in Attempts
    BY <1>1
  <2>2. CASE j = k
    BY <1>2, <1>13, <2>1, <2>2
  <2>3. CASE j # k
    <3>1. j \in wired /\ home[j] = h
      BY <1>1, <1>2, <2>1, <2>3
    <3> QED
      BY <1>12, <2>1, <2>3, <3>1 DEF MissedInv, Online
  <2> QED
    BY <2>2, <2>3
<1> QED
  BY <1>5, <1>7, <1>11, <1>14 DEF MissedInv

LEMMA NextMissed ==
  ASSUME TypeOK, SocketsInv, AdapterInv, ServerTypes, QueueInv, KnownInv, HomeInv, MissedInv,
         [RealtimeNext]_realtimeVars
  PROVE  AdapterInv' /\ MissedInv'
<1>1. ASSUME UNCHANGED vars PROVE AdapterInv'
  BY <1>1 DEF vars, connVars, AdapterInv
<1>2. ASSUME NEW i \in Instances, Registry(i) PROVE AdapterInv' /\ MissedInv'
  <2>1. UNCHANGED vars
    BY <1>2 DEF Registry, Post, PostUnstreamed, Added, AddUnanswered, Trimmed, PollStream,
                PollAnswered, PollFails, CaughtUp, CatchUpFails, Unregister, Restart
  <2> QED
    BY <1>1, <1>2, <2>1, RegistryMissed
<1>3. ASSUME NEW k \in Attempts, Cut(k) PROVE AdapterInv' /\ MissedInv'
  BY <1>1, <1>3, CutMissed DEF Cut
<1>4. CASE ClientStep
  <2>1. Next /\ UNCHANGED <<posted, stream, cursor, own>> /\ AdapterInv'
    BY <1>4, Movers DEF ClientStep
  <2>2. CASE \E k \in Attempts, i \in Instances :
               Linked(adapter'[k]) /\ ~Linked(adapter[k]) /\ Register(k, i)
    BY <2>1, <2>2, RegisterMissed
  <2>3. CASE /\ \A k \in Attempts : Linked(adapter'[k]) => Linked(adapter[k])
             /\ Abandon(Closed)
             /\ passedBy' = passedBy \cup Forsaken(IF Created = {} THEN Closed ELSE wired)
             /\ IF reloads' # reloads
                THEN lastId' = [k \in Attempts |-> 0] /\ resumeId' = 0
                ELSE /\ lastId' = [k \in Attempts |-> IF k \in Created THEN resumeId ELSE lastId[k]]
                     /\ UNCHANGED <<resumeId, seen>>
    <3>1. CASE reloads' # reloads
      BY <2>1, <2>3, <3>1, ReloadMissed
    <3>2. CASE reloads' = reloads
      BY <2>1, <2>3, <3>2, ClosedMissed
    <3> QED
      BY <3>1, <3>2
  <2> QED
    BY <1>4, <2>2, <2>3 DEF ClientStep
<1>5. CASE UNCHANGED realtimeVars
  <2>1. UNCHANGED <<vars, posted, stream, replies, cursor, own, home, lastId, resumeId, seen, passedBy>>
    BY <1>5 DEF realtimeVars, serverVars, clientSide
  <2>2. UNCHANGED <<attempt, wired>>
    BY <2>1 DEF vars, connVars
  <2>3. (IdsKnown /\ AllRise /\ Resumed)'
    BY <2>1, <2>2 DEF MissedInv, IdsKnown, AllRise, Resumed
  <2>4. (Online /\ Offline)'
    BY <2>1, <2>2 DEF MissedInv, Online, Offline, Served, Met, Expected
  <2> QED
    BY <1>1, <2>1, <2>3, <2>4 DEF MissedInv
<1> QED
  BY <1>2, <1>3, <1>4, <1>5 DEF RealtimeNext

LEMMA InitMissed == RealtimeInit => AdapterInv /\ MissedInv
<1> SUFFICES ASSUME RealtimeInit PROVE AdapterInv /\ MissedInv
  OBVIOUS
<1>1. /\ AdapterInv /\ wired = {} /\ stream = {} /\ resumeId = 0 /\ posted = 0
      /\ \A k \in Attempts : lastId[k] = 0
      /\ \A i \in Instances : replies[i] = <<>>
  BY InitAdapter DEF RealtimeInit, Init
<1>2. DOMAIN <<>> = {} /\ ToSet(<<>>) = {}
  BY EmptySeq DEF ToSet
<1> QED
  BY <1>1, <1>2 DEF MissedInv, IdsKnown, AllRise, Rises, Online, Offline, Resumed

\* The id that the client resumes from has passed no notification that it has not seen,
\* but for the reasons NothingMissed names, however many instances, sockets, polls and
\* failures there are (packages/server/src/transport/registry.ts:86-219,
\* ws-handler.ts:205-240).
THEOREM NothingIsMissed == RealtimeSpec => []NothingMissed
<1> DEFINE Typed == TypeOK /\ SavedInv /\ ServerTypes /\ QueueInv
           More == SocketsInv /\ AdapterInv /\ KnownInv /\ HomeInv /\ MissedInv
<1>1. RealtimeInit => More
  BY InitOnce, InitMissed, InitSockets DEF RealtimeInit
<1>2. Typed /\ More /\ [RealtimeNext]_realtimeVars => More'
  BY NextHome, NextKnown, NextMissed, NextSockets, RealtimeStepIsClientStep
<1>3. Typed /\ More => NothingMissed
  BY ServedMissNothing
<1>4. RealtimeSpec => []Typed
  BY RealtimeTypes
<1> HIDE DEF Typed
<1>5. RealtimeSpec => []More
  <2> HIDE DEF More
  <2> QED
    BY <1>1, <1>2, <1>4, PTL DEF RealtimeSpec
<1> HIDE DEF More
<1> QED
  BY <1>3, <1>4, <1>5, PTL
=============================================================================
