-------------------------- MODULE SnapshotDelivery --------------------------
(***************************************************************************)
(* How a committed configuration reaches the data planes: on each control- *)
(* plane replica a watcher that polls the version and wakes long-polls, a  *)
(* single-flight snapshot cache and the handler of the snapshot endpoint   *)
(* (control-plane configstate/); on each data plane the poller and the     *)
(* store (dataplane internal/config).                                      *)
(*                                                                         *)
(* A replica runs one event loop: what a handler does between two awaits   *)
(* is one action.  A data plane asks any replica each time.  Everything    *)
(* that can be lost, late or restarted counts against MaxFaults.           *)
(***************************************************************************)
EXTENDS VersionedConfig

CONSTANTS
    Replicas,    \* control-plane processes
    Planes,      \* data-plane processes
    Requests,    \* HTTP requests a replica can be handling
    MaxFaults,   \* bound: faults stop here
    None,        \* no snapshot, no request, no version
    NotModified, \* the answer 304
    Failed       \* an answer that is an error

ASSUME DeliveryAssumption ==
    /\ None \notin Int /\ None \notin Requests
    /\ None \notin Replicas /\ None \notin Planes
    /\ MaxFaults \in Nat

Snapshots == [version : Nat, content : Contents]

ASSUME AnswersAssumption == {None, NotModified, Failed} \cap Snapshots = {}

VARIABLES
    watched,   \* VersionWatcher._version
    polled,    \* what a poll of the watcher has read and not yet applied
    cache,     \* SnapshotService._cached
    builder,   \* the request that holds SnapshotService._lock
    request,   \* the long-polls in flight
    plane,     \* Poller.Run: where it is, its after, its request
    store,     \* Store.cur, its snapshot
    sent,      \* the snapshots some replica has answered
    faults

replicaVars == <<watched, polled, cache, builder>>
planeVars   == <<plane, store>>
dvars == <<configVars, replicaVars, request, planeVars, sent, faults>>

\* A request nobody makes, and one that replica r has just received.
NoRequest == [at |-> "none", to |-> None, by |-> None, after |-> 0,
              woken |-> FALSE, seen |-> 0, reply |-> None]
Received(d, r, after) ==
    [at |-> "received", to |-> r, by |-> d, after |-> after,
     woken |-> FALSE, seen |-> 0, reply |-> None]

LongPoll ==
    [at : {"none", "received", "waiting", "queued", "building", "reading", "answered"},
     to : Replicas \cup {None},
     by : Planes \cup {None},    \* None once the client has gone away
     after : Int,
     woken : BOOLEAN,            \* the Event it waits on has been set
     seen : Nat,                 \* the version its transaction reads at
     reply : Snapshots \cup {None, NotModified, Failed}]

DTypeOK ==
    /\ ConfigTypeOK
    /\ watched \in [Replicas -> Nat]
    /\ polled \in [Replicas -> Nat \cup {None}]
    /\ cache \in [Replicas -> Snapshots \cup {None}]
    /\ builder \in [Replicas -> Requests \cup {None}]
    /\ request \in [Requests -> LongPoll]
    /\ plane \in [Planes -> [at : {"fetching", "asking", "pausing"}, after : Int]]
    /\ store \in [Planes -> Snapshots \cup {None}]
    /\ sent \subseteq Snapshots
    /\ faults \in 0..MaxFaults

\* start() polls once; a database that is down leaves 0.
StartVersions == {0, version}

Init ==
    /\ ConfigInit
    /\ watched \in [Replicas -> StartVersions]
    /\ polled = [r \in Replicas |-> None]
    /\ cache = [r \in Replicas |-> None]
    /\ builder = [r \in Replicas |-> None]
    /\ request = [q \in Requests |-> NoRequest]
    /\ plane = [d \in Planes |-> [at |-> "fetching", after |-> -1]]
    /\ store = [d \in Planes |-> None]
    /\ sent = {}
    /\ faults = 0

-----------------------------------------------------------------------------
(* The database.                                                           *)

Commit(c) ==
    /\ Publish(c)
    /\ UNCHANGED <<replicaVars, request, planeVars, sent, faults>>

-----------------------------------------------------------------------------
(* The watcher.                                                            *)

PollRead(r) ==
    /\ polled[r] = None
    /\ polled' = [polled EXCEPT ![r] = version]
    /\ UNCHANGED <<configVars, watched, cache, builder, request, planeVars, sent, faults>>

\* Fault: the event is replaced, not set.
WakeNobody(r) == request

\* The event is set and replaced: every request waiting on it resumes.
WakeAll(r) ==
    [q \in Requests |->
        IF request[q].at = "waiting" /\ request[q].to = r
        THEN [request[q] EXCEPT !.woken = TRUE] ELSE request[q]]

PollApply(r) ==
    /\ polled[r] # None
    /\ polled' = [polled EXCEPT ![r] = None]
    /\ watched' = [watched EXCEPT ![r] = polled[r]]
    /\ request' = IF polled[r] # watched[r] THEN WakeAll(r) ELSE request
    /\ UNCHANGED <<configVars, cache, builder, planeVars, sent, faults>>

-----------------------------------------------------------------------------
(* The snapshot endpoint: after = -1 stands for an absent after_version.    *)

\* Fault: what was built once is served for good.
IsFreshForever(r) == cache[r] # None

IsFresh(r) == cache[r] # None /\ cache[r].version >= watched[r]

\* The last check of the handler, and its answer.
Answer(q, s) == IF s.version <= request[q].after THEN NotModified ELSE s

Answered(q, reply) ==
    request' = [request EXCEPT ![q].at = "answered", ![q].reply = reply]

\* SnapshotService.current up to its first await.
ServeCurrent(q) ==
    LET r == request[q].to
    IN  \/ /\ IsFresh(r)
           /\ Answered(q, Answer(q, cache[r]))
           /\ UNCHANGED builder
        \/ /\ ~IsFresh(r)
           /\ builder[r] # None
           /\ request' = [request EXCEPT ![q].at = "queued"]
           /\ UNCHANGED builder
        \/ /\ ~IsFresh(r)
           /\ builder[r] = None
           /\ builder' = [builder EXCEPT ![r] = q]
           /\ request' = [request EXCEPT ![q].at = "building"]

Waits(q) == watched[request[q].to] <= request[q].after

\* An absent after_version, -1, is below every version the watcher can have.
Arrive(q) ==
    /\ request[q].at = "received"
    /\ \/ /\ Waits(q)
          /\ request' = [request EXCEPT ![q].at = "waiting"]
          /\ UNCHANGED builder
       \/ ~Waits(q) /\ ServeCurrent(q)
    /\ UNCHANGED <<configVars, watched, polled, cache, planeVars, sent, faults>>

\* The event fired: the loop of wait_newer looks again.
Resume(q) ==
    /\ request[q].at = "waiting"
    /\ request[q].woken
    /\ \/ /\ Waits(q)
          /\ request' = [request EXCEPT ![q].woken = FALSE]
          /\ UNCHANGED builder
       \/ ~Waits(q) /\ ServeCurrent(q)
    /\ UNCHANGED <<configVars, watched, polled, cache, planeVars, sent, faults>>

\* wait_s is over, whether the event fired as well or not.
WaitTimeout(q) ==
    /\ request[q].at = "waiting"
    /\ \/ /\ Waits(q)
          /\ Answered(q, NotModified)
          /\ UNCHANGED builder
       \/ ~Waits(q) /\ ServeCurrent(q)
    /\ UNCHANGED <<configVars, watched, polled, cache, planeVars, sent, faults>>

\* Fault: the cache is not looked at again under the lock.
TakeLockBlindly(q) ==
    LET r == request[q].to
    IN  /\ request[q].at = "queued"
        /\ builder[r] = None
        /\ builder' = [builder EXCEPT ![r] = q]
        /\ request' = [request EXCEPT ![q].at = "building"]
        /\ UNCHANGED <<configVars, watched, polled, cache, planeVars, sent, faults>>

\* The lock is free: the cache is looked at once more under it.
TakeLock(q) ==
    LET r == request[q].to
    IN  /\ request[q].at = "queued"
        /\ builder[r] = None
        /\ \/ /\ IsFresh(r)
              /\ Answered(q, Answer(q, cache[r]))
              /\ UNCHANGED builder
           \/ /\ ~IsFresh(r)
              /\ builder' = [builder EXCEPT ![r] = q]
              /\ request' = [request EXCEPT ![q].at = "building"]
        /\ UNCHANGED <<configVars, watched, polled, cache, planeVars, sent, faults>>

\* REPEATABLE READ: the first statement, which reads the version, fixes what
\* every later one of the transaction sees.
BeginRead(q) ==
    /\ request[q].at = "building"
    /\ request' = [request EXCEPT ![q].at = "reading", ![q].seen = version]
    /\ UNCHANGED <<configVars, replicaVars, planeVars, sent, faults>>

\* Fault: READ COMMITTED, each statement sees what is committed by then.
RowsReadLate(q) == history[version]

RowsRead(q) == history[request[q].seen]

Build(q) ==
    LET r == request[q].to
        s == [version |-> request[q].seen, content |-> RowsRead(q)]
    IN  /\ request[q].at = "reading"
        /\ cache' = [cache EXCEPT ![r] = s]
        /\ builder' = [builder EXCEPT ![r] = None]
        /\ Answered(q, Answer(q, s))
        /\ UNCHANGED <<configVars, watched, polled, planeVars, sent, faults>>

-----------------------------------------------------------------------------
(* The data plane's poller.                                                *)

Ask(d, r, q) ==
    /\ plane[d].at = "fetching"
    /\ request[q].at = "none"
    /\ request' = [request EXCEPT ![q] = Received(d, r, plane[d].after)]
    /\ plane' = [plane EXCEPT ![d].at = "asking"]
    /\ UNCHANGED <<configVars, replicaVars, store, sent, faults>>

\* Fault: any other version is taken.
IsOther(d, s) == store[d] = None \/ s.version # store[d].version

\* Store.Update and what Run does with its result.
IsNewer(d, s) == store[d] = None \/ s.version > store[d].version

Apply(d, s) ==
    IF IsNewer(d, s)
    THEN /\ store' = [store EXCEPT ![d] = s]
         /\ plane' = [plane EXCEPT ![d] = [at |-> "fetching", after |-> s.version]]
    ELSE /\ plane' = [plane EXCEPT ![d].at = "pausing"]
         /\ UNCHANGED store

Receive(d, q) ==
    /\ request[q].at = "answered"
    /\ request[q].by = d
    /\ request' = [request EXCEPT ![q] = NoRequest]
    /\ LET reply == request[q].reply
       IN  \/ /\ reply \in Snapshots
              /\ Apply(d, reply)
              /\ sent' = sent \cup {reply}
           \/ /\ reply = NotModified
              /\ plane' = [plane EXCEPT ![d].at = "fetching"]
              /\ UNCHANGED <<store, sent>>
           \/ /\ reply = Failed
              /\ plane' = [plane EXCEPT ![d].at = "pausing"]
              /\ UNCHANGED <<store, sent>>
    /\ UNCHANGED <<configVars, replicaVars, faults>>

\* The backoff, or the pause after a stale snapshot, is over.
Retry(d) ==
    /\ plane[d].at = "pausing"
    /\ plane' = [plane EXCEPT ![d].at = "fetching"]
    /\ UNCHANGED <<configVars, replicaVars, request, store, sent, faults>>

\* The answer to a client that has gone away.
DropAnswer(q) ==
    /\ request[q].at = "answered"
    /\ request[q].by = None
    /\ request' = [request EXCEPT ![q] = NoRequest]
    /\ UNCHANGED <<configVars, replicaVars, planeVars, sent, faults>>

-----------------------------------------------------------------------------
(* Faults.                                                                 *)

Fault ==
    /\ faults < MaxFaults
    /\ faults' = faults + 1

\* The database does not answer the watcher, or a build, or a build's client.
PollFails(r) ==
    /\ Fault
    /\ polled[r] # None
    /\ polled' = [polled EXCEPT ![r] = None]
    /\ UNCHANGED <<configVars, watched, cache, builder, request, planeVars, sent>>

BuildFails(q) ==
    /\ Fault
    /\ request[q].at \in {"building", "reading"}
    /\ builder' = [builder EXCEPT ![request[q].to] = None]
    /\ Answered(q, Failed)
    /\ UNCHANGED <<configVars, watched, polled, cache, planeVars, sent>>

\* The requests the data plane or the replica leaves behind.
Orphaned(Q) ==
    [q \in Requests |-> IF q \in Q THEN [request[q] EXCEPT !.by = None] ELSE request[q]]

\* The data plane's side of the request fails: refused, cut or timed out.  The
\* handler goes on without a client.
Lose(d) ==
    /\ Fault
    /\ plane[d].at = "asking"
    /\ plane' = [plane EXCEPT ![d].at = "pausing"]
    /\ request' = Orphaned({q \in Requests : request[q].by = d})
    /\ UNCHANGED <<configVars, replicaVars, store, sent>>

\* A caching proxy answers with what some replica once sent.
ProxyReplays(d, s) ==
    /\ Fault
    /\ plane[d].at = "fetching"
    /\ s \in sent
    /\ Apply(d, s)
    /\ UNCHANGED <<configVars, replicaVars, request, sent>>

\* A replica restarts with nothing; its clients see the connection close.
RestartReplica(r) ==
    /\ Fault
    /\ LET here  == {q \in Requests : request[q].to = r}
       IN  /\ request' = [q \in Requests |-> IF q \in here THEN NoRequest ELSE request[q]]
           /\ plane' = [d \in Planes |->
                IF \E q \in here : request[q].by = d
                THEN [plane[d] EXCEPT !.at = "pausing"] ELSE plane[d]]
    /\ \E v \in StartVersions : watched' = [watched EXCEPT ![r] = v]
    /\ polled' = [polled EXCEPT ![r] = None]
    /\ cache' = [cache EXCEPT ![r] = None]
    /\ builder' = [builder EXCEPT ![r] = None]
    /\ UNCHANGED <<configVars, store, sent>>

\* A data plane restarts with an empty store.
RestartPlane(d) ==
    /\ Fault
    /\ plane' = [plane EXCEPT ![d] = [at |-> "fetching", after |-> -1]]
    /\ store' = [store EXCEPT ![d] = None]
    /\ request' = Orphaned({q \in Requests : request[q].by = d})
    /\ UNCHANGED <<configVars, replicaVars, sent>>

-----------------------------------------------------------------------------

WatcherStep(r) == PollRead(r) \/ PollApply(r)

HandlerStep(q) ==
    Arrive(q) \/ Resume(q) \/ TakeLock(q) \/ BeginRead(q) \/ Build(q) \/ DropAnswer(q)

PollerStep(d) ==
    \/ \E r \in Replicas, q \in Requests : Ask(d, r, q)
    \/ \E q \in Requests : Receive(d, q)
    \/ Retry(d)

Next ==
    \/ \E c \in Contents : Commit(c)
    \/ \E r \in Replicas : WatcherStep(r) \/ PollFails(r) \/ RestartReplica(r)
    \/ \E q \in Requests : HandlerStep(q) \/ WaitTimeout(q) \/ BuildFails(q)
    \/ \E d \in Planes :
        \/ PollerStep(d)
        \/ Lose(d)
        \/ RestartPlane(d)
        \/ \E s \in sent : ProxyReplays(d, s)

Spec == Init /\ [][Next]_dvars

\* Event loops and goroutines that can run do; the database answers polls; a
\* fault is never owed.  No timeout is owed either: a long-poll is answered
\* because the watcher wakes it.
Fairness ==
    /\ \A r \in Replicas : WF_dvars(PollRead(r)) /\ WF_dvars(PollApply(r))
    /\ \A q \in Requests : WF_dvars(HandlerStep(q))
    /\ \A d \in Planes : WF_dvars(PollerStep(d))

FairSpec == Spec /\ Fairness

-----------------------------------------------------------------------------
(* Correctness.                                                            *)

InFlight == {request[q].reply : q \in Requests} \cap Snapshots
Held == {cache[r] : r \in Replicas} \cup {store[d] : d \in Planes} \cup InFlight \cup sent

\* Every snapshot a cache, an answer, a proxy or a data plane holds shows the
\* whole content committed with its version, although its rows are read one
\* table after another while transactions commit: a version names its content.
SnapshotsConsistent ==
    \A s \in Held \ {None} : s.version <= version /\ s.content = history[s.version]

\* "building it at most once per version": at most one request of a replica
\* reads the database, and only for a version newer than the cached one.
BuiltOncePerVersion ==
    \A q \in Requests :
        LET r == request[q].to
        IN  request[q].at \in {"building", "reading"} =>
                /\ builder[r] = q
                /\ request[q].at = "reading" =>
                    cache[r] = None \/ cache[r].version < request[q].seen

\* A replica answers 304 only while its watcher knows nothing newer, even when
\* the wait times out as the event fires, and never answers from the cache with
\* less than its watcher knows: a woken long-poll sees the version that woke it.
AnswersAreFresh ==
    [][\A q \in Requests :
        LET r == request[q].to
            reply == request'[q].reply
        IN  request[q].at # "answered" /\ request'[q].at = "answered" /\ reply # Failed =>
                IF reply = NotModified THEN watched[r] <= request[q].after
                ELSE reply.version >= watched[r] \/ request[q].at = "reading"]_dvars

\* Every committed version, or a newer one, reaches every data plane, whichever
\* replicas it asks, once faults stop: the watcher's wake-up alone suffices.
EventuallyDelivered ==
    \A d \in Planes : \A v \in 1..MaxVersion :
        version = v ~> (store[d] # None /\ store[d].version >= v)

-----------------------------------------------------------------------------

Replica == INSTANCE ConfigReplica WITH copy <- store

\* What a data plane runs on is always a committed configuration as a whole, and
\* it never goes back to an older one, whatever replicas and proxies answer.
ImplementsReplica == Replica!Spec
=============================================================================
