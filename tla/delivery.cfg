\* Two replicas, one behind the other, one data plane, two versions, one fault or
\* replayed answer, and the request a data plane that gave up leaves behind, which
\* contends with the next one for the cache and its lock.  No symmetry: the run
\* checks liveness too.
CONSTANTS
    Replicas = {r1, r2}
    Planes = {d1}
    Requests = {q1, q2}
    Contents = {a, b}
    MaxVersion = 2
    MaxFaults = 1
    None = None
    NotModified = NotModified
    Failed = Failed
SPECIFICATION FixedFairSpec
INVARIANTS
    SnapshotsConsistent
    BuiltOncePerVersion
PROPERTIES
    AnswersAreFresh
    ImplementsReplica
    EventuallyDelivered
