------------------------ MODULE SnapshotDeliveryProofs ------------------------
(***************************************************************************)
(* Theorems about the delivery of snapshots, for every number of replicas, *)
(* data planes and requests, any contents and any bound on versions and    *)
(* faults.                                                                 *)
(***************************************************************************)
EXTENDS SnapshotDelivery, TLAPS

\* A snapshot of a committed version, whole.
Committed(s) ==
    /\ s \in Snapshots
    /\ s.version \in 1..version
    /\ s.content = history[s.version]

\* What a request's place says of its other fields.
Shape ==
    \A q \in Requests :
        /\ request[q].at # "none" => request[q].to \in Replicas
        /\ request[q].at = "reading" => request[q].seen \in 1..version

\* Every snapshot there is, wherever it is kept, is a committed one.
KeptInv ==
    /\ \A r \in Replicas : cache[r] # None => Committed(cache[r])
    /\ \A d \in Planes : store[d] # None => Committed(store[d])
    /\ \A s \in sent : Committed(s)
    /\ \A q \in Requests : request[q].reply \in Snapshots => Committed(request[q].reply)

\* The versions the watcher has are committed ones and only go up.
WatchInv ==
    \A r \in Replicas :
        /\ watched[r] <= version
        /\ polled[r] # None => watched[r] <= polled[r] /\ polled[r] <= version

\* A request that builds holds its replica's lock, and builds for want of a
\* snapshot as new as the watcher's version; one past the wait is owed a version
\* newer than its own.
Served(q) ==
    LET r == request[q].to
    IN  /\ request[q].at \in {"building", "reading"} => builder[r] = q
        /\ request[q].at = "building" => ~IsFresh(r)
        /\ request[q].at = "reading" =>
            cache[r] = None \/ cache[r].version < request[q].seen
        /\ request[q].at \in {"queued", "building"} => request[q].after < watched[r]
        /\ request[q].at = "reading" => request[q].after < request[q].seen
ServeInv == \A q \in Requests : Served(q)

-----------------------------------------------------------------------------

\* No snapshot is one of the answers without one (304, an error, none).
LEMMA AnswersApart ==
    None \notin Snapshots /\ NotModified \notin Snapshots /\ Failed \notin Snapshots
  BY AnswersAssumption

\* What is committed stays so.
LEMMA CommittedStays ==
    ASSUME ConfigTypeOK, NEW s, Committed(s), (\E c \in Contents : Publish(c)) \/ UNCHANGED configVars
    PROVE  Committed(s)'
  BY DEF Committed, Publish, configVars, ConfigTypeOK

\* A commit keeps the configuration well typed and never lowers its version.
LEMMA PublishTyped ==
    ASSUME ConfigTypeOK, (\E c \in Contents : Publish(c)) \/ UNCHANGED configVars
    PROVE  ConfigTypeOK' /\ version <= version'
  BY DEF Publish, configVars, ConfigTypeOK

\* What a request keeps as it is handled.
Kept(q) ==
    /\ request'[q].to = request[q].to /\ request'[q].by = request[q].by
    /\ request'[q].after = request[q].after
    /\ \A x \in Requests : x # q => request'[x] = request[x]

LongPolls == request \in [Requests -> LongPoll]

\* The fields of a long-poll.
LEMMA LongPollParts ==
    ASSUME NEW p \in LongPoll
    PROVE  /\ p.at \in {"none", "received", "waiting", "queued", "building", "reading", "answered"}
           /\ p.to \in Replicas \cup {None} /\ p.by \in Planes \cup {None} /\ p.after \in Int
           /\ p.woken \in BOOLEAN /\ p.seen \in Nat
           /\ p.reply \in Snapshots \cup {None, NotModified, Failed}
  BY DEF LongPoll

\* A handler that goes on to wait, queue or build changes nothing else of its request.
LEMMA Moved ==
    ASSUME LongPolls, NEW q \in Requests, NEW a \in {"waiting", "queued", "building"},
           request' = [request EXCEPT ![q].at = a]
    PROVE  /\ LongPolls' /\ Kept(q) /\ request'[q].at = a
           /\ request'[q].seen = request[q].seen /\ request'[q].reply = request[q].reply
<1> DEFINE p == [request[q] EXCEPT !.at = a]
<1>1. p \in LongPoll /\ p.at = a /\ p.to = request[q].to /\ p.by = request[q].by
      /\ p.after = request[q].after /\ p.seen = request[q].seen /\ p.reply = request[q].reply
  BY DEF LongPolls, LongPoll
<1>2. request' = [request EXCEPT ![q] = p]
  OBVIOUS
<1> HIDE DEF p
<1>3. QED
  BY <1>1, <1>2 DEF LongPolls, Kept

\* A handler that waits once more changes nothing but its event.
LEMMA Unwoken ==
    ASSUME LongPolls, NEW q \in Requests, request' = [request EXCEPT ![q].woken = FALSE]
    PROVE  /\ LongPolls' /\ Kept(q) /\ request'[q].at = request[q].at
           /\ request'[q].seen = request[q].seen /\ request'[q].reply = request[q].reply
<1> DEFINE p == [request[q] EXCEPT !.woken = FALSE]
<1>1. p \in LongPoll /\ p.at = request[q].at /\ p.to = request[q].to /\ p.by = request[q].by
      /\ p.after = request[q].after /\ p.seen = request[q].seen /\ p.reply = request[q].reply
  BY DEF LongPolls, LongPoll
<1>2. request' = [request EXCEPT ![q] = p]
  OBVIOUS
<1> HIDE DEF p
<1>3. QED
  BY <1>1, <1>2 DEF LongPolls, Kept

\* A build that begins to read fixes the version it reads at, and nothing else.
LEMMA Read ==
    ASSUME LongPolls, NEW q \in Requests, NEW v \in Nat,
           request' = [request EXCEPT ![q].at = "reading", ![q].seen = v]
    PROVE  /\ LongPolls' /\ Kept(q) /\ request'[q].at = "reading"
           /\ request'[q].seen = v /\ request'[q].reply = request[q].reply
<1> DEFINE p == [request[q] EXCEPT !.at = "reading", !.seen = v]
<1>1. p \in LongPoll /\ p.at = "reading" /\ p.to = request[q].to /\ p.by = request[q].by
      /\ p.after = request[q].after /\ p.seen = v /\ p.reply = request[q].reply
  BY DEF LongPolls, LongPoll
<1>2. request' = [request EXCEPT ![q] = p]
  BY DEF LongPolls
<1> HIDE DEF p
<1>3. QED
  BY <1>1, <1>2 DEF LongPolls, Kept

\* An answer ends one request and leaves every other alone.
LEMMA Replied ==
    ASSUME LongPolls, NEW q \in Requests, NEW y \in Snapshots \cup {NotModified, Failed},
           Answered(q, y)
    PROVE  /\ LongPolls' /\ Kept(q) /\ request'[q].at = "answered" /\ request'[q].reply = y
<1> DEFINE p == [request[q] EXCEPT !.at = "answered", !.reply = y]
<1>1. p \in LongPoll /\ p.at = "answered" /\ p.to = request[q].to /\ p.by = request[q].by
      /\ p.after = request[q].after /\ p.reply = y
  BY DEF LongPolls, LongPoll
<1>2. request' = [request EXCEPT ![q] = p]
  BY DEF LongPolls, Answered
<1> HIDE DEF p
<1>3. QED
  BY <1>1, <1>2 DEF LongPolls, Kept

\* Waking and orphaning requests changes nothing but that.
LEMMA WokenOrOrphaned ==
    ASSUME LongPolls,
           \/ \E r \in Replicas : request' = WakeAll(r)
           \/ \E Q \in SUBSET Requests : request' = Orphaned(Q)
    PROVE  /\ LongPolls'
           /\ \A q \in Requests :
                /\ request'[q].at = request[q].at /\ request'[q].to = request[q].to
                /\ request'[q].after = request[q].after
                /\ request'[q].seen = request[q].seen /\ request'[q].reply = request[q].reply
<1>1. ASSUME NEW p \in LongPoll, NEW n, n \in {p, [p EXCEPT !.woken = TRUE], [p EXCEPT !.by = None]}
      PROVE  /\ n \in LongPoll /\ n.at = p.at /\ n.to = p.to /\ n.after = p.after
             /\ n.seen = p.seen /\ n.reply = p.reply
  BY <1>1 DEF LongPoll
<1>2. /\ \A q \in Requests : request'[q] \in
            {request[q], [request[q] EXCEPT !.woken = TRUE], [request[q] EXCEPT !.by = None]}
      /\ request' = [q \in Requests |-> request'[q]]
  BY DEF WakeAll, Orphaned
<1>3. \A q \in Requests : request[q] \in LongPoll
  BY DEF LongPolls
<1>4. QED
  BY <1>1, <1>2, <1>3 DEF LongPolls

\* A request nobody makes, and one just received, are long-polls without a reply.
LEMMA LongPollBegins ==
    /\ NoRequest \in LongPoll /\ NoRequest.at = "none" /\ NoRequest.reply = None
    /\ \A d \in Planes, r \in Replicas, a \in Int :
        /\ Received(d, r, a) \in LongPoll
        /\ Received(d, r, a).at = "received" /\ Received(d, r, a).to = r
        /\ Received(d, r, a).reply = None
  BY DEF LongPoll, NoRequest, Received

\* What a handler does up to its next await, field by field.
LEMMA Waited ==
    ASSUME DTypeOK, Shape, NEW q \in Requests, Arrive(q) \/ Resume(q) \/ WaitTimeout(q)
    PROVE  /\ LongPolls' /\ Kept(q)
           /\ UNCHANGED <<version, history, watched, polled, cache, plane, store, sent, faults>>
           /\ request[q].at \in {"received", "waiting"} /\ request[q].to \in Replicas
           /\ \/ /\ request'[q].at = "waiting" /\ request'[q].reply = request[q].reply
                 /\ builder' = builder
              \/ /\ Waits(q) /\ request'[q].at = "answered" /\ request'[q].reply = NotModified
                 /\ builder' = builder
              \/ /\ ~Waits(q) /\ IsFresh(request[q].to) /\ request'[q].at = "answered"
                 /\ request'[q].reply = Answer(q, cache[request[q].to]) /\ builder' = builder
              \/ /\ ~Waits(q) /\ request'[q].at = "queued"
                 /\ request'[q].reply = request[q].reply /\ builder' = builder
              \/ /\ ~Waits(q) /\ ~IsFresh(request[q].to) /\ request'[q].at = "building"
                 /\ request'[q].reply = request[q].reply
                 /\ builder[request[q].to] = None
                 /\ builder' = [builder EXCEPT ![request[q].to] = q]
<1>0. /\ LongPolls /\ request[q].at \in {"received", "waiting"} /\ request[q].to \in Replicas
      /\ UNCHANGED <<version, history, watched, polled, cache, plane, store, sent, faults>>
  BY DEF DTypeOK, LongPolls, Shape, Arrive, Resume, WaitTimeout, configVars, planeVars
<1>1. CASE Waits(q)
  <2>1. CASE request' = [request EXCEPT ![q].at = "waiting"] /\ builder' = builder
    BY <1>0, <2>1, Moved
  <2>2. CASE request' = [request EXCEPT ![q].woken = FALSE] /\ builder' = builder /\ request[q].at = "waiting"
    BY <1>0, <2>2, Unwoken
  <2>3. CASE Answered(q, NotModified) /\ builder' = builder
    BY <1>0, <1>1, <2>3, Replied
  <2>4. QED
    BY <1>1, <2>1, <2>2, <2>3 DEF Arrive, Resume, WaitTimeout
<1>2. CASE ~Waits(q) /\ ServeCurrent(q)
  <2>1. CASE IsFresh(request[q].to) /\ Answered(q, Answer(q, cache[request[q].to])) /\ builder' = builder
    <3>1. Answer(q, cache[request[q].to]) \in Snapshots \cup {NotModified}
      BY <1>0, <2>1 DEF DTypeOK, IsFresh, Answer
    <3>2. QED
      BY <1>0, <1>2, <2>1, <3>1, Replied
  <2>2. CASE request' = [request EXCEPT ![q].at = "queued"] /\ builder' = builder
    BY <1>0, <1>2, <2>2, Moved
  <2>3. CASE /\ ~IsFresh(request[q].to) /\ builder[request[q].to] = None
             /\ builder' = [builder EXCEPT ![request[q].to] = q]
             /\ request' = [request EXCEPT ![q].at = "building"]
    BY <1>0, <1>2, <2>3, Moved
  <2>4. QED
    BY <1>2, <2>1, <2>2, <2>3 DEF ServeCurrent
<1>3. QED
  BY <1>1, <1>2 DEF Arrive, Resume, WaitTimeout

\* What a request that was waiting for the lock does with it, field by field.
LEMMA Locked ==
    ASSUME DTypeOK, Shape, NEW q \in Requests, TakeLock(q)
    PROVE  /\ LongPolls' /\ Kept(q)
           /\ UNCHANGED <<version, history, watched, polled, cache, plane, store, sent, faults>>
           /\ request[q].at = "queued" /\ request[q].to \in Replicas /\ builder[request[q].to] = None
           /\ \/ /\ IsFresh(request[q].to) /\ request'[q].at = "answered"
                 /\ request'[q].reply = Answer(q, cache[request[q].to]) /\ builder' = builder
              \/ /\ ~IsFresh(request[q].to) /\ request'[q].at = "building"
                 /\ request'[q].reply = request[q].reply
                 /\ builder' = [builder EXCEPT ![request[q].to] = q]
<1>0. /\ LongPolls /\ request[q].at = "queued" /\ request[q].to \in Replicas
      /\ UNCHANGED <<version, history, watched, polled, cache, plane, store, sent, faults>>
      /\ builder[request[q].to] = None
  BY DEF DTypeOK, LongPolls, Shape, TakeLock, configVars, planeVars
<1>1. CASE IsFresh(request[q].to) /\ Answered(q, Answer(q, cache[request[q].to])) /\ builder' = builder
  <2>1. Answer(q, cache[request[q].to]) \in Snapshots \cup {NotModified}
    BY <1>0, <1>1 DEF DTypeOK, IsFresh, Answer
  <2>2. QED
    BY <1>0, <1>1, <2>1, Replied
<1>2. CASE /\ ~IsFresh(request[q].to) /\ builder' = [builder EXCEPT ![request[q].to] = q]
           /\ request' = [request EXCEPT ![q].at = "building"]
  BY <1>0, <1>2, Moved
<1>3. QED
  BY <1>1, <1>2 DEF TakeLock

\* A finished build caches and answers with the committed version it read at.
LEMMA Built ==
    ASSUME DTypeOK, Shape, NEW q \in Requests, Build(q)
    PROVE  LET r == request[q].to
               s == [version |-> request[q].seen, content |-> history[request[q].seen]]
           IN  /\ LongPolls' /\ Kept(q)
               /\ UNCHANGED <<version, history, watched, polled, plane, store, sent, faults>>
               /\ request[q].at = "reading" /\ r \in Replicas /\ Committed(s)
               /\ cache' = [cache EXCEPT ![r] = s] /\ builder' = [builder EXCEPT ![r] = None]
               /\ request'[q].at = "answered" /\ request'[q].reply = Answer(q, s)
<1> DEFINE s == [version |-> request[q].seen, content |-> history[request[q].seen]]
<1>1. /\ LongPolls /\ request[q].at = "reading" /\ request[q].to \in Replicas
      /\ request[q].seen \in 1..version
      /\ UNCHANGED <<version, history, watched, polled, plane, store, sent, faults>>
  BY DEF DTypeOK, LongPolls, Shape, Build, configVars, planeVars
<1>2. Committed(s)
  BY <1>1 DEF Committed, DTypeOK, ConfigTypeOK, Snapshots
<1>3. /\ cache' = [cache EXCEPT ![request[q].to] = s] /\ builder' = [builder EXCEPT ![request[q].to] = None]
      /\ Answered(q, Answer(q, s))
  BY DEF Build, RowsRead
<1> HIDE DEF s
<1>4. Answer(q, s) \in Snapshots \cup {NotModified}
  BY <1>2 DEF Answer, Committed
<1>5. /\ LongPolls' /\ Kept(q) /\ request'[q].at = "answered" /\ request'[q].reply = Answer(q, s)
  BY <1>1, <1>3, <1>4, Replied
<1>6. QED
  BY <1>1, <1>2, <1>3, <1>5 DEF s

\* Where a poller is, and its after.
Pollers == [at : {"fetching", "asking", "pausing"}, after : Int]

\* Moving pollers about keeps their types.
LEMMA PollerMoves ==
    ASSUME plane \in [Planes -> Pollers], NEW S \in SUBSET Planes,
           NEW a \in {"fetching", "asking", "pausing"},
           \/ plane' = [d \in Planes |-> IF d \in S THEN [plane[d] EXCEPT !.at = a] ELSE plane[d]]
           \/ \E d \in Planes : plane' = [plane EXCEPT ![d].at = a]
    PROVE  plane' \in [Planes -> Pollers]
<1>1. \A x \in Pollers : [x EXCEPT !.at = a] \in Pollers
  BY DEF Pollers
<1>2. QED
  BY <1>1

\* One request handled up to anything but a read keeps the shape of all of them.
LEMMA ShapeKept ==
    ASSUME Shape, NEW q \in Requests, Kept(q), version' = version, request[q].to \in Replicas,
           request'[q].at # "reading"
    PROVE  Shape'
  BY DEF Shape, Kept

\* Store.Update keeps the types of the poller and of the store.
LEMMA ApplyTyped ==
    ASSUME DTypeOK, NEW d \in Planes, NEW s \in Snapshots, Apply(d, s)
    PROVE  /\ plane' \in [Planes -> Pollers]
           /\ store' \in [Planes -> Snapshots \cup {None}]
<1>1. s.version \in Int
  BY DEF Snapshots
<1>2. plane \in [Planes -> Pollers] /\ store \in [Planes -> Snapshots \cup {None}]
  BY DEF DTypeOK, Pollers
<1>3. CASE IsNewer(d, s)
  <2>1. [at |-> "fetching", after |-> s.version] \in Pollers
    BY <1>1 DEF Pollers
  <2>2. /\ store' = [store EXCEPT ![d] = s]
        /\ plane' = [plane EXCEPT ![d] = [at |-> "fetching", after |-> s.version]]
    BY <1>3 DEF Apply
  <2>3. QED
    BY <1>2, <2>1, <2>2
<1>4. CASE ~IsNewer(d, s)
  <2>1. plane' = [plane EXCEPT ![d].at = "pausing"] /\ store' = store
    BY <1>4 DEF Apply
  <2>2. QED
    BY <1>2, <2>1, PollerMoves
<1>5. QED
  BY <1>3, <1>4

\* Every step keeps types and shape.
LEMMA TypedStep == DTypeOK /\ Shape /\ [Next]_dvars => DTypeOK' /\ Shape'
<1> SUFFICES ASSUME DTypeOK, Shape, [Next]_dvars
             PROVE  DTypeOK' /\ Shape'
  OBVIOUS
<1> USE DeliveryAssumption, VersionsAssumption, AnswersApart
        DEF DTypeOK, ConfigTypeOK, Shape
<1>1. ASSUME NEW c \in Contents, Commit(c) PROVE DTypeOK' /\ Shape'
  BY <1>1 DEF Commit, Publish, replicaVars, planeVars
<1>2. ASSUME NEW r \in Replicas, PollRead(r) \/ PollFails(r) PROVE DTypeOK' /\ Shape'
  <2>1. polled' \in [Replicas -> Nat \cup {None}] /\ faults' \in 0..MaxFaults
    BY <1>2 DEF PollRead, PollFails, Fault
  <2>2. UNCHANGED <<version, history, watched, cache, builder, request, plane, store, sent>>
    BY <1>2 DEF PollRead, PollFails, configVars, planeVars
  <2>3. QED
    BY <2>1, <2>2
<1>3. ASSUME NEW r \in Replicas, PollApply(r) PROVE DTypeOK' /\ Shape'
  <2>1. CASE request' = request
    BY <1>3, <2>1 DEF PollApply, configVars, replicaVars, planeVars
  <2>2. CASE request' = WakeAll(r)
    <3>1. LongPolls' /\ Shape'
      BY <1>3, <2>2, WokenOrOrphaned DEF LongPolls, PollApply, configVars
    <3>2. QED
      BY <1>3, <3>1 DEF PollApply, LongPolls, configVars, planeVars
  <2>3. QED
    BY <1>3, <2>1, <2>2 DEF PollApply
<1>4. ASSUME NEW r \in Replicas, RestartReplica(r) PROVE DTypeOK' /\ Shape'
  <2>1. LongPolls' /\ Shape'
    BY <1>4, LongPollBegins DEF RestartReplica, LongPolls, configVars
  <2>2. plane' \in [Planes -> Pollers]
    <3>1. plane' = [d \in Planes |->
                IF d \in {e \in Planes : \E q \in {x \in Requests : request[x].to = r} : request[q].by = e}
                THEN [plane[d] EXCEPT !.at = "pausing"] ELSE plane[d]]
      BY <1>4 DEF RestartReplica
    <3>2. plane \in [Planes -> Pollers]
      BY DEF Pollers
    <3> HIDE DEF DTypeOK, Shape
    <3>3. QED
      BY <3>1, <3>2, PollerMoves
  <2>3. QED
    BY <1>4, <2>1, <2>2 DEF RestartReplica, Fault, StartVersions, LongPolls, configVars, Pollers
<1>5. ASSUME NEW q \in Requests, Arrive(q) \/ Resume(q) \/ WaitTimeout(q) PROVE DTypeOK' /\ Shape'
  <2>1. LongPolls' /\ builder' \in [Replicas -> Requests \cup {None}]
    <3> HIDE DEF DTypeOK, Shape
    <3>1. builder \in [Replicas -> Requests \cup {None}]
      BY DEF DTypeOK
    <3>2. LongPolls' /\ (builder' = builder \/ builder' = [builder EXCEPT ![request[q].to] = q])
      BY <1>5, Waited
    <3>3. QED
      BY <3>1, <3>2
  <2>2. Shape'
    <3> HIDE DEF DTypeOK, Shape
    <3>1. QED
      BY <1>5, Waited, ShapeKept
  <2>3. QED
    BY <1>5, <2>1, <2>2, Waited DEF LongPolls
<1>6. ASSUME NEW q \in Requests, TakeLock(q) PROVE DTypeOK' /\ Shape'
  <2>1. LongPolls' /\ builder' \in [Replicas -> Requests \cup {None}]
    BY <1>6, Locked
  <2>2. Shape'
    <3> HIDE DEF DTypeOK, Shape
    <3>1. QED
      BY <1>6, Locked, ShapeKept
  <2>3. QED
    BY <1>6, <2>1, <2>2, Locked DEF LongPolls
<1>7. ASSUME NEW q \in Requests, BeginRead(q) PROVE DTypeOK' /\ Shape'
  <2>1. /\ LongPolls' /\ Kept(q) /\ request'[q].seen = version /\ version' = version
        /\ request[q].to \in Replicas /\ version \in 1..version
    <3>1. /\ LongPolls /\ version \in Nat /\ version \in 1..version /\ version' = version
          /\ request[q].to \in Replicas
          /\ request' = [request EXCEPT ![q].at = "reading", ![q].seen = version]
      BY <1>7 DEF BeginRead, LongPolls, configVars
    <3> HIDE DEF DTypeOK, Shape
    <3>2. QED
      BY <3>1, Read
  <2>2. Shape'
    BY <2>1 DEF Kept
  <2>3. QED
    BY <1>7, <2>1, <2>2 DEF BeginRead, LongPolls, configVars, replicaVars, planeVars
<1>8. ASSUME NEW q \in Requests, Build(q) PROVE DTypeOK' /\ Shape'
  <2> DEFINE s == [version |-> request[q].seen, content |-> history[request[q].seen]]
  <2>1. s \in Snapshots /\ cache' = [cache EXCEPT ![request[q].to] = s]
    BY <1>8, Built DEF Committed
  <2> HIDE DEF s
  <2>2. LongPolls' /\ Shape'
    <3> HIDE DEF DTypeOK, Shape
    <3>1. QED
      BY <1>8, Built, ShapeKept
  <2>3. QED
    BY <1>8, <2>1, <2>2, Built DEF LongPolls
<1>9. ASSUME NEW q \in Requests, BuildFails(q) \/ DropAnswer(q) PROVE DTypeOK' /\ Shape'
  <2>1. CASE BuildFails(q)
    <3>1. LongPolls' /\ Shape'
      BY <2>1, Replied DEF BuildFails, LongPolls, Kept, configVars
    <3>2. QED
      BY <2>1, <3>1 DEF BuildFails, Fault, LongPolls, configVars, planeVars
  <2>2. CASE DropAnswer(q)
    <3>1. LongPolls' /\ Shape'
      BY <2>2, LongPollBegins DEF DropAnswer, LongPolls, configVars
    <3>2. QED
      BY <2>2, <3>1 DEF DropAnswer, LongPolls, configVars, replicaVars, planeVars
  <2>3. QED
    BY <1>9, <2>1, <2>2
<1>10. ASSUME NEW d \in Planes, NEW r \in Replicas, NEW q \in Requests, Ask(d, r, q)
       PROVE  DTypeOK' /\ Shape'
  <2>1. LongPolls' /\ Shape'
    BY <1>10, LongPollBegins DEF Ask, LongPolls, configVars
  <2>2. QED
    <3>1. plane' \in [Planes -> Pollers]
      BY <1>10, PollerMoves DEF Ask, Pollers
    <3>2. QED
      BY <1>10, <2>1, <3>1 DEF Ask, LongPolls, configVars, replicaVars, Pollers
<1>11. ASSUME NEW d \in Planes, NEW q \in Requests, Receive(d, q) PROVE DTypeOK' /\ Shape'
  <2>1. LongPolls' /\ Shape'
    BY <1>11, LongPollBegins DEF Receive, LongPolls, configVars
  <2>2. QED
    <3>1. /\ plane' \in [Planes -> Pollers]
          /\ store' \in [Planes -> Snapshots \cup {None}] /\ sent' \subseteq Snapshots
      <4>1. CASE /\ request[q].reply \in Snapshots /\ Apply(d, request[q].reply)
                 /\ sent' = sent \cup {request[q].reply}
        <5> HIDE DEF DTypeOK, Shape
        <5>1. sent \subseteq Snapshots
          BY DEF DTypeOK
        <5>2. QED
          BY <4>1, <5>1, ApplyTyped
      <4>2. CASE \E a \in {"fetching", "pausing"} :
                    plane' = [plane EXCEPT ![d].at = a] /\ UNCHANGED <<store, sent>>
        BY <4>2, PollerMoves DEF Pollers
      <4>3. QED
        BY <1>11, <4>1, <4>2 DEF Receive
    <3>2. UNCHANGED <<version, history, watched, polled, cache, builder, faults>>
      BY <1>11 DEF Receive, configVars, replicaVars
    <3>3. QED
      BY <2>1, <3>1, <3>2 DEF LongPolls, Pollers
<1>12. ASSUME NEW d \in Planes, Retry(d) PROVE DTypeOK' /\ Shape'
  <2>1. plane' \in [Planes -> Pollers]
    BY <1>12, PollerMoves DEF Retry, Pollers
  <2>2. QED
    BY <1>12, <2>1 DEF Retry, configVars, replicaVars, Pollers
<1>13. ASSUME NEW d \in Planes, Lose(d) \/ RestartPlane(d) PROVE DTypeOK' /\ Shape'
  <2>1. LongPolls' /\ Shape'
    <3>1. \E Q \in SUBSET Requests : request' = Orphaned(Q)
      BY <1>13 DEF Lose, RestartPlane
    <3>2. QED
      BY <1>13, <3>1, WokenOrOrphaned DEF Lose, RestartPlane, LongPolls, configVars
  <2>2. /\ plane' \in [Planes -> Pollers]
        /\ store' \in [Planes -> Snapshots \cup {None}]
    <3>1. CASE plane' = [plane EXCEPT ![d].at = "pausing"] /\ store' = store
      BY <3>1, PollerMoves DEF Pollers
    <3>2. CASE /\ plane' = [plane EXCEPT ![d] = [at |-> "fetching", after |-> -1]]
               /\ store' = [store EXCEPT ![d] = None]
      BY <3>2 DEF Pollers
    <3>3. QED
      BY <1>13, <3>1, <3>2 DEF Lose, RestartPlane
  <2>3. UNCHANGED <<version, history, watched, polled, cache, builder, sent>> /\ faults' \in 0..MaxFaults
    BY <1>13 DEF Lose, RestartPlane, Fault, configVars, replicaVars
  <2>4. QED
    BY <2>1, <2>2, <2>3 DEF LongPolls, Pollers
<1>14. ASSUME NEW d \in Planes, NEW s \in sent, ProxyReplays(d, s) PROVE DTypeOK' /\ Shape'
  BY <1>14, ApplyTyped DEF ProxyReplays, Fault, configVars, replicaVars, Pollers
<1>15. CASE UNCHANGED dvars
  BY <1>15 DEF dvars, configVars, replicaVars, planeVars
<1>16. QED
  <2> HIDE DEF DTypeOK, Shape
  <2>1. QED
    BY <1>1, <1>2, <1>3, <1>4, <1>5, <1>6, <1>7, <1>8, <1>9, <1>10, <1>11, <1>12, <1>13, <1>14, <1>15
       DEF Next, WatcherStep, HandlerStep, PollerStep

\* In the beginning, too.
LEMMA InitTyped == Init => DTypeOK /\ Shape
<1> SUFFICES ASSUME Init PROVE DTypeOK /\ Shape
  OBVIOUS
<1>1. ConfigTypeOK /\ version = 1
  BY DEF Init, ConfigInit, ConfigTypeOK
<1>2. /\ watched \in [Replicas -> Nat] /\ polled \in [Replicas -> Nat \cup {None}]
      /\ cache \in [Replicas -> Snapshots \cup {None}]
      /\ builder \in [Replicas -> Requests \cup {None}]
  BY <1>1 DEF Init, StartVersions
<1>3. LongPolls /\ Shape
  BY LongPollBegins DEF Init, LongPolls, Shape
<1>4. /\ plane \in [Planes -> Pollers]
      /\ store \in [Planes -> Snapshots \cup {None}] /\ sent \subseteq Snapshots
      /\ faults \in 0..MaxFaults
  BY DeliveryAssumption DEF Init, Pollers
<1>5. QED
  BY <1>1, <1>2, <1>3, <1>4 DEF DTypeOK, LongPolls, Pollers

\* Every state of the delivery is well typed, and its requests well shaped.
THEOREM DeliveryTypeCorrect == Spec => [](DTypeOK /\ Shape)
<1>1. (DTypeOK /\ Shape) /\ [Next]_dvars => (DTypeOK /\ Shape)'
  BY TypedStep
<1>2. QED
  BY InitTyped, <1>1, PTL DEF Spec

-----------------------------------------------------------------------------
(* Snapshots.                                                              *)

\* The configuration only changes by being published.
LEMMA ConfigStep ==
    ASSUME [Next]_dvars
    PROVE  (\E c \in Contents : Publish(c)) \/ UNCHANGED configVars
  BY DEF Next, dvars, Commit, WatcherStep, PollRead, PollApply, PollFails, RestartReplica, HandlerStep,
     Arrive, Resume, TakeLock, BeginRead, Build, DropAnswer, WaitTimeout, BuildFails, PollerStep,
     Ask, Receive, Retry, Lose, RestartPlane, ProxyReplays

\* No step makes a snapshot of anything but one committed version.
LEMMA KeptStep == DTypeOK /\ Shape /\ KeptInv /\ [Next]_dvars => KeptInv'
<1> SUFFICES ASSUME DTypeOK, Shape, KeptInv, [Next]_dvars
             PROVE  KeptInv'
  OBVIOUS
<1>0. ASSUME NEW s, Committed(s) PROVE Committed(s)'
  BY <1>0, CommittedStays, ConfigStep DEF DTypeOK
<1> USE DEF KeptInv
<1>q. ASSUME UNCHANGED <<cache, store, sent>>,
             \A q \in Requests : request'[q].reply = request[q].reply \/ request'[q].reply \notin Snapshots
      PROVE  KeptInv'
  BY <1>0, <1>q
<1>1. ASSUME NEW r \in Replicas, WatcherStep(r) \/ PollFails(r) PROVE KeptInv'
  <2>1. UNCHANGED <<cache, store, sent>> /\ (request' = request \/ request' = WakeAll(r))
    BY <1>1 DEF WatcherStep, PollRead, PollApply, PollFails, planeVars
  <2>2. LongPolls
    BY DEF DTypeOK, LongPolls
  <2>3. QED
    BY <2>1, <2>2, <1>q, WokenOrOrphaned
<1>2. ASSUME NEW r \in Replicas, RestartReplica(r) PROVE KeptInv'
  <2>1. /\ \A x \in Replicas : cache'[x] = cache[x] \/ cache'[x] = None
        /\ UNCHANGED <<store, sent>>
        /\ \A q \in Requests : request'[q] = request[q] \/ request'[q] = NoRequest
    BY <1>2 DEF RestartReplica, DTypeOK
  <2>2. QED
    BY <1>0, <2>1, LongPollBegins, AnswersApart
<1>3. ASSUME NEW q \in Requests, Arrive(q) \/ Resume(q) \/ WaitTimeout(q) \/ TakeLock(q) PROVE KeptInv'
  <2>1. /\ UNCHANGED <<cache, store, sent>> /\ Kept(q) /\ request[q].to \in Replicas
        /\ \/ request'[q].reply \in {request[q].reply, NotModified}
           \/ IsFresh(request[q].to) /\ request'[q].reply = Answer(q, cache[request[q].to])
    BY <1>3, Waited, Locked
  <2>2. request'[q].reply \in {request[q].reply, NotModified, cache[request[q].to]}
    BY <2>1 DEF Answer
  <2>3. cache[request[q].to] = None \/ Committed(cache[request[q].to])
    BY <2>1
  <2>4. QED
    BY <1>0, <2>1, <2>2, <2>3, AnswersApart DEF Kept
<1>4. ASSUME NEW q \in Requests, BeginRead(q) PROVE KeptInv'
  <2>1. LongPolls /\ version \in Nat /\ UNCHANGED <<cache, store, sent>>
        /\ request' = [request EXCEPT ![q].at = "reading", ![q].seen = version]
    BY <1>4 DEF BeginRead, DTypeOK, LongPolls, ConfigTypeOK, replicaVars, planeVars
  <2>2. QED
    BY <1>q, <2>1, Read DEF Kept
<1>5. ASSUME NEW q \in Requests, Build(q) PROVE KeptInv'
  <2>1. PICK s : /\ Committed(s) /\ UNCHANGED <<store, sent>> /\ Kept(q)
                 /\ cache' = [cache EXCEPT ![request[q].to] = s]
                 /\ request'[q].reply \in {s, NotModified}
    BY <1>5, Built DEF Answer
  <2>2. \A r \in Replicas : cache'[r] \in {cache[r], s}
    BY <2>1 DEF DTypeOK
  <2>3. QED
    BY <1>0, <2>1, <2>2, AnswersApart DEF Kept
<1>6. ASSUME NEW q \in Requests, BuildFails(q) \/ DropAnswer(q) PROVE KeptInv'
  <2>1. LongPolls /\ UNCHANGED <<cache, store, sent>>
    BY <1>6 DEF BuildFails, DropAnswer, DTypeOK, LongPolls, replicaVars, planeVars
  <2>2. CASE Answered(q, Failed)
    BY <1>q, <2>1, <2>2, Replied, AnswersApart DEF Kept
  <2>3. CASE request' = [request EXCEPT ![q] = NoRequest]
    BY <1>q, <2>1, <2>3, LongPollBegins, AnswersApart DEF LongPolls
  <2>4. QED
    BY <1>6, <2>2, <2>3 DEF BuildFails, DropAnswer
<1>7. ASSUME NEW d \in Planes, NEW r \in Replicas, NEW q \in Requests, Ask(d, r, q) PROVE KeptInv'
  <2>1. /\ UNCHANGED <<cache, store, sent>> /\ plane[d].after \in Int
        /\ request' = [request EXCEPT ![q] = Received(d, r, plane[d].after)]
    BY <1>7 DEF Ask, DTypeOK, replicaVars
  <2>2. QED
    BY <1>q, <2>1, LongPollBegins, AnswersApart DEF DTypeOK
<1>8. ASSUME NEW d \in Planes, NEW s, Apply(d, s), Committed(s),
             cache' = cache, sent' = sent \/ sent' = sent \cup {s},
             \A q \in Requests : request'[q].reply = request[q].reply \/ request'[q].reply \notin Snapshots
      PROVE  KeptInv'
  <2>1. \A e \in Planes : store'[e] \in {store[e], s}
    BY <1>8 DEF Apply, DTypeOK
  <2>2. QED
    BY <1>0, <1>8, <2>1
<1>9. ASSUME NEW d \in Planes, NEW q \in Requests, Receive(d, q) PROVE KeptInv'
  <2>1. cache' = cache /\ request' = [request EXCEPT ![q] = NoRequest]
    BY <1>9 DEF Receive, replicaVars
  <2>2. \A x \in Requests : request'[x].reply = request[x].reply \/ request'[x].reply \notin Snapshots
    BY <2>1, LongPollBegins, AnswersApart DEF DTypeOK
  <2>3. CASE UNCHANGED <<store, sent>>
    BY <1>q, <2>1, <2>2, <2>3
  <2>4. CASE /\ request[q].reply \in Snapshots /\ Apply(d, request[q].reply)
             /\ sent' = sent \cup {request[q].reply}
    BY <1>8, <2>1, <2>2, <2>4
  <2>5. QED
    BY <1>9, <2>3, <2>4 DEF Receive
<1>10. ASSUME NEW d \in Planes, Retry(d) \/ Lose(d) \/ RestartPlane(d) PROVE KeptInv'
  <2>1. /\ cache' = cache /\ sent' = sent
        /\ \A e \in Planes : store'[e] = store[e] \/ store'[e] = None
        /\ (request' = request \/ \E Q \in SUBSET Requests : request' = Orphaned(Q))
    BY <1>10 DEF Retry, Lose, RestartPlane, replicaVars, DTypeOK
  <2>2. LongPolls
    BY DEF DTypeOK, LongPolls
  <2>3. \A q \in Requests : request'[q].reply = request[q].reply
    BY <2>1, <2>2, WokenOrOrphaned
  <2>4. QED
    BY <1>0, <2>1, <2>3
<1>11. ASSUME NEW d \in Planes, NEW s \in sent, ProxyReplays(d, s) PROVE KeptInv'
  BY <1>8, <1>11 DEF ProxyReplays, replicaVars
<1>12. CASE UNCHANGED dvars \/ \E c \in Contents : Commit(c)
  BY <1>q, <1>12 DEF dvars, Commit, replicaVars, planeVars
<1>13. QED
  <2> HIDE DEF KeptInv
  <2>1. QED
    BY <1>1, <1>2, <1>3, <1>4, <1>5, <1>6, <1>7, <1>9, <1>10, <1>11, <1>12
       DEF Next, HandlerStep, PollerStep

\* Every snapshot a cache, an answer, a proxy or a data plane holds is whole and
\* committed, for any number of replicas, data planes and requests.
LEMMA KeptInvariant == Spec => []KeptInv
<1>1. Init => KeptInv
  BY LongPollBegins, AnswersApart DEF Init, KeptInv
<1>2. (DTypeOK /\ Shape) /\ KeptInv /\ [Next]_dvars => KeptInv'
  BY KeptStep
<1>3. QED
  BY <1>1, <1>2, DeliveryTypeCorrect, PTL DEF Spec

\* A version names its content, wherever a snapshot of it is: torn reads, stale
\* caches and replaying proxies never show another.
THEOREM SnapshotsAreConsistent == Spec => []SnapshotsConsistent
<1>1. KeptInv => SnapshotsConsistent
  <2> SUFFICES ASSUME KeptInv, NEW s \in Held \ {None}
               PROVE  s.version <= version /\ s.content = history[s.version]
    BY DEF SnapshotsConsistent
  <2>1. Committed(s)
    BY DEF Held, InFlight, KeptInv
  <2>2. QED
    BY <2>1 DEF Committed
<1>2. QED
  BY <1>1, KeptInvariant, PTL

-----------------------------------------------------------------------------
(* The watcher's version and the lock.                                     *)

\* The version the watcher knows only goes up between restarts, and is never
\* ahead of the committed one.
LEMMA WatchStep == DTypeOK /\ WatchInv /\ [Next]_dvars => WatchInv'
<1> SUFFICES ASSUME DTypeOK, WatchInv, [Next]_dvars
             PROVE  WatchInv'
  OBVIOUS
<1> USE DeliveryAssumption DEF WatchInv
<1>0. /\ version \in Nat /\ version' \in Nat /\ version <= version'
      /\ watched \in [Replicas -> Nat] /\ polled \in [Replicas -> Nat \cup {None}]
  BY PublishTyped, ConfigStep DEF DTypeOK, ConfigTypeOK
<1>q. ASSUME UNCHANGED <<watched, polled>> PROVE WatchInv'
  BY <1>0, <1>q
<1>1. ASSUME NEW r \in Replicas, PollRead(r) \/ PollApply(r) \/ PollFails(r) \/ RestartReplica(r) PROVE WatchInv'
  <2>1. CASE PollRead(r)
    BY <1>0, <2>1 DEF PollRead, configVars
  <2>2. CASE PollApply(r)
    BY <1>0, <2>2 DEF PollApply, configVars
  <2>3. CASE PollFails(r)
    BY <1>0, <2>3 DEF PollFails
  <2>4. CASE RestartReplica(r)
    BY <1>0, <2>4 DEF RestartReplica, StartVersions, configVars
  <2>5. QED
    BY <1>1, <2>1, <2>2, <2>3, <2>4
<1>2. CASE UNCHANGED <<watched, polled>>
  BY <1>q, <1>2
<1>3. QED
  BY <1>1, <1>2 DEF Next, dvars, replicaVars, Commit, WatcherStep, HandlerStep, Arrive, Resume,
     TakeLock, BeginRead, Build, DropAnswer, WaitTimeout, BuildFails, PollerStep, Ask, Receive,
     Retry, Lose, RestartPlane, ProxyReplays

\* No step serves a request out of turn.
LEMMA ServeStep ==
    DTypeOK /\ Shape /\ WatchInv /\ WatchInv' /\ ServeInv /\ [Next]_dvars => ServeInv'
<1> SUFFICES ASSUME DTypeOK, Shape, WatchInv, WatchInv', ServeInv, [Next]_dvars
             PROVE  ServeInv'
  OBVIOUS
<1>0. /\ LongPolls /\ version \in Nat /\ version' \in Nat /\ version <= version'
      /\ watched \in [Replicas -> Nat] /\ watched' \in [Replicas -> Nat]
      /\ polled \in [Replicas -> Nat \cup {None}]
      /\ cache \in [Replicas -> Snapshots \cup {None}] /\ \A s \in Snapshots : s.version \in Nat
      /\ \A q \in Requests : request[q].after \in Int /\ request[q].seen \in Nat
  BY TypedStep, PublishTyped, ConfigStep, LongPollParts
     DEF DTypeOK, ConfigTypeOK, LongPolls, Snapshots
<1>q. ASSUME NEW q \in Requests,
             request'[q].at = request[q].at, request'[q].to = request[q].to,
             request'[q].after = request[q].after, request'[q].seen = request[q].seen,
             request[q].at \in {"queued", "building", "reading"} =>
                /\ watched[request[q].to] <= watched'[request[q].to]
                /\ request[q].at # "queued" =>
                    /\ cache'[request[q].to] = cache[request[q].to]
                    /\ builder'[request[q].to] = builder[request[q].to]
      PROVE  Served(q)'
  BY <1>0, <1>q DEF ServeInv, Served, IsFresh, Shape
<1>f. ASSUME UNCHANGED <<watched, cache, builder>>, NEW q \in Requests,
             request'[q].at = request[q].at, request'[q].to = request[q].to,
             request'[q].after = request[q].after, request'[q].seen = request[q].seen
      PROVE  Served(q)'
  BY <1>0, <1>f, <1>q DEF Shape
<1>i. ASSUME NEW q \in Requests, request'[q].at \in {"none", "received", "waiting", "answered"}
      PROVE  Served(q)'
  BY <1>i DEF Served
<1>1. ASSUME NEW r \in Replicas, WatcherStep(r) \/ PollFails(r) PROVE ServeInv'
  <2>1. /\ UNCHANGED <<cache, builder>> /\ (request' = request \/ request' = WakeAll(r))
        /\ \A x \in Replicas : watched[x] <= watched'[x]
    BY <1>0, <1>1, DeliveryAssumption DEF WatcherStep, PollRead, PollApply, PollFails, WatchInv
  <2>2. \A q \in Requests :
            /\ request'[q].at = request[q].at /\ request'[q].to = request[q].to
            /\ request'[q].after = request[q].after /\ request'[q].seen = request[q].seen
    BY <1>0, <2>1, WokenOrOrphaned
  <2>3. \A q \in Requests : request[q].at # "none" => request[q].to \in Replicas
    BY DEF Shape
  <2>4. QED
    BY <2>1, <2>2, <2>3, <1>q DEF ServeInv
<1>2. ASSUME NEW r \in Replicas, RestartReplica(r) PROVE ServeInv'
  <2> SUFFICES ASSUME NEW q \in Requests PROVE Served(q)'
    BY DEF ServeInv
  <2>1. CASE request[q].to = r
    BY <1>2, <2>1, <1>i, LongPollBegins DEF RestartReplica
  <2>2. CASE request[q].to # r
    <3>1. /\ request'[q] = request[q]
          /\ \A x \in Replicas \ {r} : /\ watched'[x] = watched[x] /\ cache'[x] = cache[x]
                                      /\ builder'[x] = builder[x]
      BY <1>2, <2>2 DEF RestartReplica, DTypeOK
    <3>2. QED
      BY <1>0, <2>2, <3>1, <1>q DEF Shape
  <2>3. QED
    BY <2>1, <2>2
<1>3. ASSUME NEW q \in Requests, Arrive(q) \/ Resume(q) \/ WaitTimeout(q) \/ TakeLock(q) PROVE ServeInv'
  <2> SUFFICES ASSUME NEW x \in Requests PROVE Served(x)'
    BY DEF ServeInv
  <2>1. /\ Kept(q) /\ UNCHANGED <<watched, cache>> /\ request[q].to \in Replicas
        /\ \/ builder' = builder
           \/ builder[request[q].to] = None /\ builder' = [builder EXCEPT ![request[q].to] = q]
    BY <1>3, Waited, Locked
  <2>2. CASE x # q
    <3>1. request'[x] = request[x]
      BY <2>1, <2>2 DEF Kept
    <3>2. request[x].at \in {"building", "reading"} =>
            builder[request[x].to] = x /\ request[x].to \in Replicas
      BY DEF ServeInv, Served, Shape
    <3>3. request[x].at \in {"building", "reading"} => builder'[request[x].to] = builder[request[x].to]
      BY <2>1, <3>2, DeliveryAssumption DEF DTypeOK
    <3>4. QED
      BY <1>0, <2>1, <3>1, <3>3, <1>q DEF Shape
  <2>3. CASE x = q /\ request'[q].at = "queued"
    <3>1. ~Waits(q)
      BY <1>3, <2>3, Waited, Locked
    <3>2. QED
      BY <1>0, <2>1, <2>3, <3>1 DEF Waits, Kept, Served
  <2>4. CASE x = q /\ request'[q].at = "building"
    <3>1. /\ ~IsFresh(request[q].to) /\ builder' = [builder EXCEPT ![request[q].to] = q]
          /\ ~Waits(q) \/ request[q].at = "queued"
      BY <1>3, <2>4, Waited, Locked
    <3>2. request[q].after < watched[request[q].to]
      BY <1>0, <2>1, <3>1 DEF Waits, ServeInv, Served
    <3>3. QED
      BY <1>0, <2>1, <2>4, <3>1, <3>2 DEF DTypeOK, Kept, Served, IsFresh
  <2>5. CASE x = q /\ request'[q].at \in {"waiting", "answered"}
    BY <2>5, <1>i
  <2>6. QED
    BY <1>3, <2>2, <2>3, <2>4, <2>5, Waited, Locked
<1>4. ASSUME NEW q \in Requests, BeginRead(q) PROVE ServeInv'
  <2>1. /\ request[q].at = "building" /\ UNCHANGED <<version, watched, cache, builder>>
        /\ request[q].to \in Replicas
        /\ request' = [request EXCEPT ![q].at = "reading", ![q].seen = version]
    BY <1>4 DEF BeginRead, replicaVars, configVars, Shape
  <2>2. Kept(q) /\ request'[q].at = "reading" /\ request'[q].seen = version
    BY <1>0, <2>1, Read
  <2>3. /\ builder[request[q].to] = q /\ ~IsFresh(request[q].to)
        /\ request[q].after < watched[request[q].to] /\ watched[request[q].to] <= version
    BY <2>1 DEF ServeInv, Served, WatchInv
  <2>4. Served(q)'
    BY <1>0, <2>1, <2>2, <2>3 DEF Kept, Served, IsFresh
  <2>5. \A x \in Requests \ {q} : Served(x)'
    BY <2>1, <2>2, <1>f DEF Kept
  <2>6. QED
    BY <2>4, <2>5 DEF ServeInv
<1>5. ASSUME NEW q \in Requests, Build(q) \/ BuildFails(q) PROVE ServeInv'
  <2>1. /\ request[q].at \in {"building", "reading"} /\ request[q].to \in Replicas
        /\ watched' = watched /\ builder' = [builder EXCEPT ![request[q].to] = None]
        /\ \A r \in Replicas \ {request[q].to} : cache'[r] = cache[r]
    BY <1>0, <1>5 DEF Build, BuildFails, Shape
  <2>2. Kept(q) /\ request'[q].at = "answered"
    BY <1>0, <1>5, Built, Replied DEF BuildFails
  <2>3. ASSUME NEW x \in Requests, x # q PROVE Served(x)'
    <3>1. request'[x] = request[x]
      BY <2>2, <2>3 DEF Kept
    <3>2. request[x].at \in {"building", "reading"} => request[x].to # request[q].to
      BY <2>1, <2>3 DEF ServeInv, Served
    <3>3. QED
      BY <1>0, <2>1, <3>1, <3>2, <1>q DEF Shape, DTypeOK
  <2>4. Served(q)'
    BY <2>2, <1>i
  <2>5. QED
    BY <2>3, <2>4 DEF ServeInv
<1>6. ASSUME NEW q \in Requests, UNCHANGED <<watched, cache, builder>>,
             request'[q].at \in {"none", "received"},
             \A x \in Requests : x # q => request'[x] = request[x]
      PROVE  ServeInv'
  BY <1>6, <1>f, <1>i DEF ServeInv
<1>7. ASSUME NEW q \in Requests,
             \/ DropAnswer(q)
             \/ \E d \in Planes : Receive(d, q) \/ \E r \in Replicas : Ask(d, r, q)
      PROVE  ServeInv'
  <2>1. CASE DropAnswer(q) \/ \E d \in Planes : Receive(d, q)
    <3>1. UNCHANGED <<watched, cache, builder>> /\ request' = [request EXCEPT ![q] = NoRequest]
      BY <2>1 DEF DropAnswer, Receive, replicaVars
    <3>2. QED
      BY <1>0, <1>6, <3>1, LongPollBegins DEF LongPolls
  <2>2. ASSUME NEW d \in Planes, NEW r \in Replicas, Ask(d, r, q) PROVE ServeInv'
    <3>1. /\ UNCHANGED <<watched, cache, builder>> /\ plane[d].after \in Int
          /\ request' = [request EXCEPT ![q] = Received(d, r, plane[d].after)]
      BY <2>2 DEF Ask, replicaVars, DTypeOK
    <3>2. QED
      BY <1>0, <1>6, <3>1, LongPollBegins DEF LongPolls
  <2>3. QED
    BY <1>7, <2>1, <2>2
<1>8. ASSUME NEW d \in Planes,
             Retry(d) \/ Lose(d) \/ RestartPlane(d) \/ \E s \in sent : ProxyReplays(d, s)
      PROVE  ServeInv'
  <2>1. /\ UNCHANGED <<watched, cache, builder>>
        /\ request' = request \/ \E Q \in SUBSET Requests : request' = Orphaned(Q)
    BY <1>8 DEF Retry, Lose, RestartPlane, ProxyReplays, replicaVars
  <2>2. \A q \in Requests :
            /\ request'[q].at = request[q].at /\ request'[q].to = request[q].to
            /\ request'[q].after = request[q].after /\ request'[q].seen = request[q].seen
    BY <1>0, <2>1, WokenOrOrphaned
  <2>3. QED
    BY <2>1, <2>2, <1>f DEF ServeInv
<1>9. CASE UNCHANGED dvars \/ \E c \in Contents : Commit(c)
  BY <1>f, <1>9 DEF dvars, Commit, replicaVars, ServeInv
<1>10. QED
  BY <1>1, <1>2, <1>3, <1>4, <1>5, <1>7, <1>8, <1>9 DEF Next, HandlerStep, PollerStep

\* What every state of the delivery satisfies.
DeliveryInv == DTypeOK /\ Shape /\ KeptInv /\ WatchInv /\ ServeInv

\* The invariant holds throughout.
LEMMA DeliveryInvariant == Spec => []DeliveryInv
<1>1. Init => WatchInv
  BY DEF Init, ConfigInit, StartVersions, WatchInv
<1>2. Init => ServeInv
  BY LongPollBegins DEF Init, ServeInv, Served
<1>3. DTypeOK /\ WatchInv /\ [Next]_dvars => WatchInv'
  BY WatchStep
<1>4. DTypeOK /\ Shape /\ WatchInv /\ WatchInv' /\ ServeInv /\ [Next]_dvars => ServeInv'
  BY ServeStep
<1>5. DeliveryInv <=> DTypeOK /\ Shape /\ KeptInv /\ WatchInv /\ ServeInv
  BY DEF DeliveryInv
<1>6. QED
  BY <1>1, <1>2, <1>3, <1>4, <1>5, DeliveryTypeCorrect, KeptInvariant, PTL DEF Spec

\* However many requests race for a snapshot, a replica has one of them build it,
\* and never a version it has in its cache.
THEOREM EachVersionBuiltOnce == Spec => []BuiltOncePerVersion
<1>1. DeliveryInv => BuiltOncePerVersion
  BY DEF DeliveryInv, ServeInv, Served, BuiltOncePerVersion
<1>2. QED
  BY <1>1, DeliveryInvariant, PTL

\* A replica never says "not modified", or answers from its cache, with less than
\* its watcher knows, however the event, the timeout and a build fall together.
THEOREM LongPollsAreFresh == Spec => AnswersAreFresh
<1>1. ASSUME DeliveryInv, [Next]_dvars, NEW q \in Requests,
             request[q].at # "answered", request'[q].at = "answered", request'[q].reply # Failed
      PROVE  IF request'[q].reply = NotModified
             THEN watched[request[q].to] <= request[q].after
             ELSE \/ request'[q].reply.version >= watched[request[q].to]
                  \/ request[q].at = "reading"
  <2>0. /\ DTypeOK /\ Shape /\ LongPolls /\ Served(q)
        /\ request[q].after \in Int /\ request[q].seen \in Nat
        /\ \A r \in Replicas : watched[r] \in Nat /\ cache[r] \in Snapshots \cup {None}
        /\ \A s \in Snapshots : s.version \in Nat
    BY <1>1, LongPollParts DEF DeliveryInv, ServeInv, DTypeOK, LongPolls, Snapshots
  <2>1. ASSUME NEW s \in Snapshots, request[q].to \in Replicas, IsFresh(request[q].to),
               s = cache[request[q].to], request'[q].reply = Answer(q, s)
        PROVE  IF request'[q].reply = NotModified
               THEN watched[request[q].to] <= request[q].after
               ELSE request'[q].reply.version >= watched[request[q].to]
    BY <2>0, <2>1, AnswersApart DEF IsFresh, Answer
  <2>2. CASE Arrive(q) \/ Resume(q) \/ WaitTimeout(q)
    BY <1>1, <2>0, <2>1, <2>2, Waited DEF Waits, IsFresh
  <2>3. CASE TakeLock(q)
    BY <1>1, <2>0, <2>1, <2>3, Locked DEF IsFresh
  <2>4. CASE Build(q)
    <3>1. PICK s : /\ Committed(s) /\ s.version = request[q].seen /\ request[q].at = "reading"
                   /\ request'[q].reply = Answer(q, s)
      BY <2>0, <2>4, Built
    <3>2. s.version > request[q].after
      BY <2>0, <3>1 DEF Served
    <3>3. QED
      BY <2>0, <3>1, <3>2, AnswersApart DEF Answer, Committed
  <2>5. CASE BuildFails(q)
    BY <1>1, <2>0, <2>5, Replied DEF BuildFails
  <2>6. CASE /\ ~(Arrive(q) \/ Resume(q) \/ WaitTimeout(q) \/ TakeLock(q) \/ Build(q))
             /\ ~BuildFails(q)
    <3>1. ASSUME NEW x \in Requests, x # q,
                 HandlerStep(x) \/ WaitTimeout(x) \/ BuildFails(x)
          PROVE  request'[q] = request[q]
      <4>1. CASE Arrive(x) \/ Resume(x) \/ WaitTimeout(x) \/ TakeLock(x) \/ Build(x)
        BY <2>0, <3>1, <4>1, Waited, Locked, Built DEF Kept
      <4>2. CASE BeginRead(x) \/ DropAnswer(x) \/ BuildFails(x)
        BY <2>0, <3>1, <4>2 DEF BeginRead, DropAnswer, BuildFails, Answered, LongPolls
      <4>3. QED
        BY <3>1, <4>1, <4>2 DEF HandlerStep
    <3>2. CASE BeginRead(q) \/ DropAnswer(q)
      <4>1. request'[q].at \in {"reading", "none"}
        <5>1. version \in Nat
          BY <2>0 DEF DTypeOK, ConfigTypeOK
        <5>2. CASE BeginRead(q)
          BY <2>0, <5>1, <5>2, Read DEF BeginRead
        <5>3. CASE DropAnswer(q)
          BY <2>0, <5>3, LongPollBegins DEF DropAnswer, LongPolls
        <5>4. QED
          BY <3>2, <5>2, <5>3
      <4>2. QED
        BY <1>1, <4>1
    <3>3. ASSUME NEW r \in Replicas, WatcherStep(r) \/ PollFails(r) \/ RestartReplica(r)
          PROVE  request'[q].at \in {request[q].at, "none"}
      <4>1. CASE request' = request \/ request' = WakeAll(r)
        BY <2>0, <4>1, WokenOrOrphaned
      <4>2. CASE RestartReplica(r)
        BY <4>2, LongPollBegins DEF RestartReplica
      <4>3. QED
        BY <3>3, <4>1, <4>2 DEF WatcherStep, PollRead, PollApply, PollFails
    <3>4. ASSUME NEW d \in Planes,
                 \/ PollerStep(d) \/ Lose(d) \/ RestartPlane(d) \/ \E s \in sent : ProxyReplays(d, s)
          PROVE  request'[q].at \in {request[q].at, "none", "received"}
      <4>1. CASE request' = request \/ \E Q \in SUBSET Requests : request' = Orphaned(Q)
        BY <2>0, <4>1, WokenOrOrphaned
      <4>2. ASSUME NEW x \in Requests, Receive(d, x) PROVE request'[q].at \in {request[q].at, "none"}
        BY <2>0, <4>2, LongPollBegins DEF Receive, LongPolls
      <4>3. ASSUME NEW x \in Requests, NEW r \in Replicas, Ask(d, r, x)
            PROVE  request'[q].at \in {request[q].at, "received"}
        <5>1. plane[d].after \in Int /\ request' = [request EXCEPT ![x] = Received(d, r, plane[d].after)]
          BY <2>0, <4>3 DEF Ask, DTypeOK
        <5>2. QED
          BY <2>0, <5>1, LongPollBegins DEF LongPolls
      <4>4. QED
        BY <3>4, <4>1, <4>2, <4>3 DEF PollerStep, Retry, Lose, RestartPlane, ProxyReplays
    <3>5. CASE UNCHANGED dvars \/ \E c \in Contents : Commit(c)
      BY <1>1, <3>5 DEF dvars, Commit
    <3>6. QED
      BY <1>1, <2>6, <3>1, <3>2, <3>3, <3>4, <3>5 DEF Next, HandlerStep
  <2>7. QED
    BY <2>2, <2>3, <2>4, <2>5, <2>6
<1>2. DeliveryInv /\ [Next]_dvars =>
        [\A q \in Requests :
            LET r == request[q].to
                reply == request'[q].reply
            IN  request[q].at # "answered" /\ request'[q].at = "answered" /\ reply # Failed =>
                    IF reply = NotModified THEN watched[r] <= request[q].after
                    ELSE reply.version >= watched[r] \/ request[q].at = "reading"]_dvars
  BY <1>1
<1>3. QED
  BY <1>2, DeliveryInvariant, PTL DEF Spec, AnswersAreFresh

-----------------------------------------------------------------------------
(* The refinement.                                                         *)

\* Every step of watchers, caches, handlers, pollers, proxies and restarts is,
\* for a data plane, a step forward to a committed configuration, a restart or
\* nothing.
LEMMA ReplicaStep == DeliveryInv /\ [Next]_dvars => [Replica!Next]_(Replica!rvars)
<1> SUFFICES ASSUME DeliveryInv, [Next]_dvars
             PROVE  Replica!Next \/ UNCHANGED <<configVars, store>>
  BY DEF Replica!rvars, Replica!configVars, configVars
<1>0. DTypeOK /\ KeptInv /\ store \in [Planes -> Snapshots \cup {None}]
  BY DEF DeliveryInv, DTypeOK
<1>1. ASSUME NEW d \in Planes, NEW s, Committed(s), Apply(d, s), UNCHANGED configVars
      PROVE  Replica!Next \/ UNCHANGED <<configVars, store>>
  <2>1. CASE IsNewer(d, s)
    <3>1. /\ store' = [store EXCEPT ![d] = s] /\ s.version \in 1..version
          /\ s.version \in Nat /\ s.content = history[s.version]
      BY <1>1, <2>1 DEF Apply, Committed, Snapshots
    <3>2. s = Replica!At(s.version)
      BY <1>1, <3>1 DEF Committed, Snapshots, Replica!At
    <3>3. store[d] = None \/ store[d].version < s.version
      BY <1>0, <2>1, <3>1 DEF IsNewer, Snapshots
    <3>4. Replica!CatchUp(d, s.version)
      BY <1>1, <3>1, <3>2, <3>3 DEF Replica!CatchUp, Replica!configVars, configVars
    <3>5. QED
      BY <3>1, <3>4 DEF Replica!Next
  <2>2. CASE ~IsNewer(d, s)
    BY <1>1, <2>2 DEF Apply
  <2>3. QED
    BY <2>1, <2>2
<1>2. ASSUME NEW c \in Contents, Commit(c) PROVE Replica!Next
  <2>1. Replica!ConfigNext
    BY <1>0, <1>2 DEF Commit, Publish, Replica!ConfigNext, DTypeOK, ConfigTypeOK
  <2>2. QED
    BY <1>2, <2>1 DEF Commit, planeVars, Replica!Next, Replica!Commit
<1>3. ASSUME NEW d \in Planes, NEW q \in Requests, Receive(d, q)
      PROVE  Replica!Next \/ UNCHANGED <<configVars, store>>
  <2>1. UNCHANGED configVars
    BY <1>3 DEF Receive
  <2>2. CASE request[q].reply \in Snapshots /\ Apply(d, request[q].reply)
    BY <1>0, <1>1, <2>1, <2>2 DEF KeptInv
  <2>3. QED
    BY <1>3, <2>1, <2>2 DEF Receive
<1>4. ASSUME NEW d \in Planes, NEW s \in sent, ProxyReplays(d, s)
      PROVE  Replica!Next \/ UNCHANGED <<configVars, store>>
  BY <1>0, <1>1, <1>4 DEF ProxyReplays, KeptInv
<1>5. ASSUME NEW d \in Planes, RestartPlane(d) PROVE Replica!Next
  BY <1>5 DEF RestartPlane, Replica!Next, Replica!Restart, Replica!configVars, configVars
<1>6. QED
  BY <1>2, <1>3, <1>4, <1>5 DEF Next, dvars, planeVars, WatcherStep, PollRead, PollApply, PollFails,
     RestartReplica, HandlerStep, Arrive, Resume, TakeLock, BeginRead, Build, DropAnswer,
     WaitTimeout, BuildFails, PollerStep, Ask, Retry, Lose

\* What a data plane runs on is a committed configuration as a whole and only moves
\* forward, for any number of replicas, data planes, requests and faults.
THEOREM DeliveryImplementsReplica == Spec => ImplementsReplica
<1>1. Init => Replica!Init
  BY DEF Init, ConfigInit, Replica!Init, Replica!ConfigInit
<1>2. QED
  BY <1>1, ReplicaStep, DeliveryInvariant, PTL DEF Spec, ImplementsReplica, Replica!Spec

===============================================================================
