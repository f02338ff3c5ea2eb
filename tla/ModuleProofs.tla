----------------------------- MODULE ModuleProofs -----------------------------
(* Theorems about a tenant's modules, for any contents, uploads and bounds:    *)
(* what the queue, the worker and its restarts may do to a module, what the    *)
(* tenant's page shows of it over ModuleLifecycle, and that the page over the  *)
(* real handlers and worker is the page over ModuleLifecycle.  That every      *)
(* module gets its verdict is liveness, and TLC's.                             *)
EXTENDS ModuleValidation, TenantModules, FiniteSetTheorems, WellFoundedInduction, TLAPS

-----------------------------------------------------------------------------
(* The lifecycle.                                                            *)

Statuses == {"absent"} \cup Pending \cup Verdicts

\* The table and the handlers of uploads: a module has a status as soon as it has
\* a row, and one row; a request that is at work has the module it brings.
LifecycleInv ==
    /\ rows \in Seq(Modules)
    /\ \A i, j \in DOMAIN rows : rows[i] = rows[j] => i = j
    /\ status \in [Modules -> Statuses]
    /\ \A m \in Modules : status[m] # "absent" <=> \E i \in DOMAIN rows : rows[i] = m
    /\ upload \in [Uploads -> [at : {"unused", "sent", "inserted", "created", "exists", "lost"},
                               module : Modules \cup {None}]]
    /\ \A u \in Uploads : upload[u].at \in {"sent", "inserted"} => upload[u].module \in Modules

\* What clients do: they post a module, and take their answer.
Request == \E u \in Uploads : Forget(u) \/ \E m \in Modules : Post(u, m)

LifecycleStep == LifecycleNext \/ Request

\* What a step of the lifecycle leaves alone: rows are only added, a stored module
\* stays stored, and a verdict is final.
Later ==
    /\ \A i \in DOMAIN rows : i \in DOMAIN rows' /\ rows'[i] = rows[i]
    /\ \A m \in Modules :
        /\ status[m] # "absent" => status'[m] # "absent"
        /\ status[m] \in Verdicts => status'[m] = status[m]

\* An empty table is one.
LEMMA LifecycleStart == LifecycleInit => LifecycleInv
  BY DEF LifecycleInit, LifecycleInv, Statuses, Unused, Answer

\* Every step of the lifecycle keeps the table in order, and takes nothing back.
LEMMA LifecycleStepInv ==
    ASSUME LifecycleInv, LifecycleStep
    PROVE  LifecycleInv' /\ Later
<1> USE DEF LifecycleInv, Later, Statuses, Pending, Verdicts
<1>1. ASSUME NEW u \in Uploads, Insert(u) PROVE LifecycleInv' /\ Later
  <2> DEFINE m == upload[u].module
  <2>1. CASE status[m] = "absent"
    <3>1. /\ m \in Modules /\ upload[u].at = "sent"
          /\ status' = [status EXCEPT ![m] = "uploaded"]
          /\ rows' = Append(rows, m)
          /\ upload' = [upload EXCEPT ![u].at = "inserted"]
      BY <1>1, <2>1 DEF Insert
    <3> DEFINE n == Len(rows)
    <3>2. /\ n \in Nat /\ DOMAIN rows = 1..n /\ DOMAIN rows' = 1..(n + 1) /\ rows' \in Seq(Modules)
          /\ rows'[n + 1] = m /\ \A i \in 1..n : rows'[i] = rows[i]
      BY <3>1
    <3>3. \A i \in 1..n : rows[i] # m
      BY <2>1, <3>1, <3>2
    <3> HIDE DEF m, n
    <3>4. \A i, j \in DOMAIN rows' : rows'[i] = rows'[j] => i = j
      <4>1. \A i \in 1..(n + 1) : i = n + 1 \/ i \in 1..n
        BY <3>2
      <4>2. \A i, j \in 1..n : rows[i] = rows[j] => i = j
        BY <3>2
      <4>3. QED
        BY <3>2, <3>3, <4>1, <4>2
    <3>5. \A x \in Modules : status'[x] # "absent" <=> \E i \in DOMAIN rows' : rows'[i] = x
      <4>1. \A i \in 1..(n + 1) : i = n + 1 \/ i \in 1..n
        BY <3>2
      <4>2. 1..n \subseteq 1..(n + 1) /\ n + 1 \in 1..(n + 1)
        BY <3>2
      <4>3. ASSUME NEW x \in Modules
            PROVE  status[x] # "absent" <=> \E i \in 1..n : rows[i] = x
        BY <3>2
      <4>4. status'[m] = "uploaded" /\ \A x \in Modules : x # m => status'[x] = status[x]
        BY <3>1
      <4>5. ASSUME NEW x \in Modules, x # m
            PROVE  (\E i \in 1..n : rows[i] = x) <=> \E i \in 1..(n + 1) : rows'[i] = x
        BY <3>2, <4>1, <4>2, <4>5
      <4>6. ASSUME NEW x \in Modules
            PROVE  status'[x] # "absent" <=> \E i \in 1..(n + 1) : rows'[i] = x
        <5>1. CASE x = m
          BY <3>2, <4>2, <4>4, <5>1
        <5>2. CASE x # m
          BY <4>3, <4>4, <4>5, <5>2
        <5>3. QED
          BY <5>1, <5>2
      <4>7. QED
        BY <3>2, <4>6
    <3>6. /\ upload' \in [Uploads -> [at : {"unused", "sent", "inserted", "created", "exists", "lost"},
                                      module : Modules \cup {None}]]
          /\ \A x \in Uploads : upload'[x].at \in {"sent", "inserted"} => upload'[x].module \in Modules
      BY <3>1 DEF m
    <3>7. status' \in [Modules -> Statuses] /\ status[m] = "absent"
      BY <3>1, <2>1 DEF m
    <3>8. QED
      BY <3>1, <3>2, <3>4, <3>5, <3>6, <3>7
  <2>2. CASE status[m] # "absent"
    <3>1. /\ upload' = [upload EXCEPT ![u] = [at |-> "exists", module |-> None]]
          /\ UNCHANGED <<rows, status>>
      BY <1>1, <2>2 DEF Insert, Answer
    <3>2. QED
      BY <3>1
  <2>3. QED
    BY <2>1, <2>2
<1>2. ASSUME NEW u \in Uploads,
             Fail(u) \/ Confirm(u) \/ Forget(u) \/ \E m \in Modules : Post(u, m)
      PROVE LifecycleInv' /\ Later
  BY <1>2 DEF Fail, Confirm, Forget, Post, Answer, Unused
<1>3. CASE Lose
  BY <1>3 DEF Lose, Answer
<1>4. ASSUME NEW m \in Modules, Begin(m) \/ Judge(m) PROVE LifecycleInv' /\ Later
  BY <1>4 DEF Begin, Judge
<1>5. QED
  BY <1>1, <1>2, <1>3, <1>4 DEF LifecycleStep, Request, LifecycleNext, Handle

\* So does a step of something else.
LEMMA LifecycleStutter == LifecycleInv /\ UNCHANGED moduleVars => LifecycleInv' /\ Later
  BY DEF LifecycleInv, Later, moduleVars

-----------------------------------------------------------------------------
(* What the recovery queues: induction over the rows.                        *)

\* A set of numbers has a least one.
LEMMA LeastNumber ==
    ASSUME NEW B \in SUBSET Nat, B # {}
    PROVE  \E k \in B : \A x \in B : ~(x < k)
<1>1. PICK k \in B : \A x \in B : ~(<<x, k>> \in OpToRel(<, Nat))
  BY WFMin, NatLessThanWellFounded
<1>2. \A x \in B : ~(x < k)
  BY <1>1 DEF OpToRel
<1>3. QED
  BY <1>2

\* Induction, for a set of numbers instead of a predicate.
LEMMA SetInduction ==
    ASSUME NEW A \in SUBSET Nat, 0 \in A, \A n \in A : n + 1 \in A
    PROVE  A = Nat
<1> SUFFICES ASSUME Nat \ A # {} PROVE FALSE
  OBVIOUS
<1>1. PICK m \in Nat \ A : \A n \in Nat \ A : ~(n < m)
  BY LeastNumber
<1>2. m # 0 /\ m - 1 \in Nat /\ m - 1 < m
  OBVIOUS
<1>3. m - 1 \in A
  BY <1>1, <1>2
<1>4. QED
  BY <1>2, <1>3

\* f[i] is the modules of S among the first i rows, oldest first, for i up to n.
Picks(f, n, S) ==
    f = [i \in 0..n |->
            IF i = 0 THEN <<>>
            ELSE IF rows[i] \in S THEN Append(f[i - 1], rows[i]) ELSE f[i - 1]]

\* For every number of rows there is such a function.
LEMMA PicksExist ==
    ASSUME NEW S, NEW n \in Nat
    PROVE  \E f : Picks(f, n, S)
<1> DEFINE A == {i \in Nat : \E f : Picks(f, i, S)}
<1>1. 0 \in A
  <2>1. Picks([i \in 0..0 |-> <<>>], 0, S)
    BY DEF Picks
  <2>2. QED
    BY <2>1
<1>2. ASSUME NEW i \in A PROVE i + 1 \in A
  <2>1. PICK f : Picks(f, i, S)
    BY <1>2
  <2> DEFINE g == [j \in 0..(i + 1) |->
                    IF j # i + 1 THEN f[j]
                    ELSE IF rows[i + 1] \in S THEN Append(f[i], rows[i + 1]) ELSE f[i]]
  <2>2. i \in Nat
    BY <1>2
  <2>3. ASSUME NEW j \in 0..(i + 1)
        PROVE  g[j] = IF j = 0 THEN <<>>
                      ELSE IF rows[j] \in S THEN Append(g[j - 1], rows[j]) ELSE g[j - 1]
    <3>1. CASE j = i + 1
      BY <2>2, <3>1
    <3>2. CASE j # i + 1
      <4>1. j \in 0..i /\ (j # 0 => j - 1 \in 0..(i + 1) /\ j - 1 # i + 1)
        BY <2>2, <3>2
      <4>2. g[j] = f[j] /\ (j # 0 => g[j - 1] = f[j - 1])
        BY <3>2, <4>1
      <4>3. QED
        BY <2>1, <4>1, <4>2 DEF Picks
    <3>3. QED
      BY <3>1, <3>2
  <2>4. Picks(g, i + 1, S)
    BY <2>3 DEF Picks
  <2>5. QED
    BY <2>2, <2>4
<1> HIDE DEF A
<1>3. A = Nat
  <2>1. A \in SUBSET Nat
    BY DEF A
  <2>2. QED
    BY <1>1, <1>2, <2>1, SetInduction
<1>4. QED
  BY <1>3 DEF A

\* What such a function picks are the modules of S among the rows.
LEMMA PicksAll ==
    ASSUME rows \in Seq(Modules), NEW S, NEW f, Picks(f, Len(rows), S)
    PROVE  /\ f[Len(rows)] \in Seq(Modules)
           /\ \A k \in 1..Len(rows) : rows[k] \in S =>
                \E j \in DOMAIN f[Len(rows)] : f[Len(rows)][j] = rows[k]
<1> DEFINE P(i) == /\ f[i] \in Seq(Modules)
                   /\ \A k \in 1..i : rows[k] \in S => \E j \in DOMAIN f[i] : f[i][j] = rows[k]
           A == {i \in Nat : i \in 0..Len(rows) => P(i)}
<1>1. 0 \in A
  BY DEF Picks
<1>2. ASSUME NEW i \in A PROVE i + 1 \in A
  <2> SUFFICES ASSUME i + 1 \in 0..Len(rows) PROVE P(i + 1)
    OBVIOUS
  <2>1. i \in Nat /\ i \in 0..Len(rows) /\ i + 1 \in 1..Len(rows) /\ rows[i + 1] \in Modules
    BY <1>2
  <2>2. f[i] \in Seq(Modules)
    BY <1>2, <2>1
  <2>3. f[i + 1] = IF rows[i + 1] \in S THEN Append(f[i], rows[i + 1]) ELSE f[i]
    <3>1. i + 1 # 0 /\ i + 1 - 1 = i
      BY <2>1
    <3>2. f[i + 1] = IF i + 1 = 0 THEN <<>>
                     ELSE IF rows[i + 1] \in S THEN Append(f[i + 1 - 1], rows[i + 1]) ELSE f[i + 1 - 1]
      <4>1. \A j \in 0..Len(rows) :
                f[j] = IF j = 0 THEN <<>>
                       ELSE IF rows[j] \in S THEN Append(f[j - 1], rows[j]) ELSE f[j - 1]
        BY DEF Picks
      <4>2. QED
        BY <4>1
    <3>3. QED
      BY <3>1, <3>2
  <2>4. ASSUME NEW k \in 1..(i + 1), rows[k] \in S
        PROVE  \E j \in DOMAIN f[i + 1] : f[i + 1][j] = rows[k]
    <3>1. CASE k = i + 1
      BY <2>1, <2>2, <2>3, <2>4, <3>1
    <3>2. CASE k # i + 1
      <4>1. k \in 1..i
        BY <2>1, <3>2
      <4>2. PICK j \in DOMAIN f[i] : f[i][j] = rows[k]
        BY <1>2, <2>1, <2>4, <4>1
      <4>3. j \in DOMAIN f[i + 1] /\ f[i + 1][j] = rows[k]
        BY <2>1, <2>2, <2>3, <4>2
      <4>4. QED
        BY <4>3
    <3>3. QED
      BY <3>1, <3>2
  <2>5. f[i + 1] \in Seq(Modules)
    BY <2>1, <2>2, <2>3
  <2>6. QED
    BY <2>4, <2>5
<1>3. A \in SUBSET Nat
  OBVIOUS
<1> HIDE DEF A
<1>4. A = Nat
  BY <1>1, <1>2, <1>3, SetInduction
<1>5. Len(rows) \in Nat /\ Len(rows) \in 0..Len(rows)
  OBVIOUS
<1>6. QED
  BY <1>4, <1>5 DEF A

\* _recover_pending queues every module it asks for.
LEMMA OldestFirstHas ==
    ASSUME rows \in Seq(Modules), NEW S
    PROVE  /\ OldestFirst(S) \in Seq(Modules)
           /\ \A k \in 1..Len(rows) : rows[k] \in S =>
                \E j \in DOMAIN OldestFirst(S) : OldestFirst(S)[j] = rows[k]
<1>1. PICK f : Picks(f, Len(rows), S)
  <2>1. Len(rows) \in Nat
    OBVIOUS
  <2>2. QED
    BY <2>1, PicksExist
<1> DEFINE upTo[n \in 0..Len(rows)] ==
                IF n = 0 THEN <<>>
                ELSE IF rows[n] \in S THEN Append(upTo[n - 1], rows[n]) ELSE upTo[n - 1]
<1>2. OldestFirst(S) = upTo[Len(rows)]
  BY DEF OldestFirst
<1>3. Picks(upTo, Len(rows), S)
  BY <1>1 DEF Picks
<1> HIDE DEF upTo
<1>4. QED
  BY <1>2, <1>3, PicksAll

-----------------------------------------------------------------------------
(* The queue and its worker.                                                 *)

InHands == {"taken", "asking", "judged"}

\* A module the worker asks about is under validation until the worker says so:
\* nothing else judges, and a restart drops the worker's hands with its queue.
WorkerInv ==
    /\ queue \in Seq(Modules)
    /\ worker.at \in {"recovering", "idle"} \cup InHands
    /\ worker.module \in IF worker.at \in InHands THEN Modules ELSE {None}
    /\ worker.at \in {"asking", "judged"} => status[worker.module] = "validating"
    /\ worker.at = "judged" => worker.verdict \in Verdicts

ServerInv == LifecycleInv /\ WorkerInv /\ NoModuleForgotten

\* The fields of a worker.
LEMMA WorkerFields ==
    ASSUME NEW at, NEW m, NEW v
    PROVE  Worker(at, m, v).at = at /\ Worker(at, m, v).module = m /\ Worker(at, m, v).verdict = v
  BY DEF Worker

\* A step of the handlers, which judges nothing and takes nothing from the worker,
\* and leaves a new module to the handler that will queue it.
LEMMA HandlerStep ==
    ASSUME ServerInv, NEW u \in Uploads,
           \/ (Insert(u) \/ Fail(u) \/ Forget(u) \/ \E m \in Modules : Post(u, m)) /\ UNCHANGED workerVars
           \/ Enqueue(u)
    PROVE  WorkerInv' /\ LifecycleStep /\ NoModuleForgotten'
<1> USE DEF ServerInv
<1>1. LifecycleStep
  BY DEF Enqueue, LifecycleStep, Request, LifecycleNext, Handle
<1>2. LifecycleInv' /\ Later
  BY <1>1, LifecycleStepInv
<1>3. worker' = worker
  BY DEF workerVars, Enqueue
<1>4. \A m \in Modules : status[m] # "absent" => status'[m] = status[m]
  BY DEF Enqueue, Insert, Fail, Confirm, Forget, Post, LifecycleInv
<1>5. WorkerInv'
  <2>1. queue' = queue \/ (upload[u].module \in Modules /\ queue' = Append(queue, upload[u].module))
    BY DEF LifecycleInv, Enqueue, Confirm, workerVars
  <2>2. queue \in Seq(Modules)
    BY DEF WorkerInv
  <2>3. queue' \in Seq(Modules)
    BY <2>1, <2>2
  <2>4. QED
    BY <1>3, <1>4, <2>3 DEF WorkerInv, InHands
<1>6. ASSUME NEW m \in Modules, status'[m] \in Pending
      PROVE  \/ worker'.at = "recovering" \/ worker'.module = m
             \/ \E i \in DOMAIN queue' : queue'[i] = m
             \/ \E x \in Uploads : upload'[x] = [at |-> "inserted", module |-> m]
  <2>1. CASE status[m] = "absent"
    <3>1. upload[u].at = "sent" /\ upload' = [upload EXCEPT ![u].at = "inserted"] /\ m = upload[u].module
      BY <1>6, <2>1 DEF Enqueue, Insert, Fail, Confirm, Forget, Post, LifecycleInv, Pending
    <3>2. upload'[u] = [at |-> "inserted", module |-> m]
      BY <3>1 DEF LifecycleInv
    <3>3. QED
      BY <3>2
  <2>2. CASE status[m] # "absent"
    <3>1. status[m] \in Pending
      BY <1>4, <1>6, <2>2
    <3>2. CASE worker.at = "recovering" \/ worker.module = m
      BY <1>3, <3>2
    <3>3. ASSUME NEW i \in DOMAIN queue, queue[i] = m PROVE i \in DOMAIN queue' /\ queue'[i] = m
      <4>1. queue' = queue \/ \E x \in Modules : queue' = Append(queue, x)
        BY DEF workerVars, Enqueue, Confirm, LifecycleInv
      <4>2. QED
        BY <3>3, <4>1 DEF WorkerInv
    <3>4. ASSUME NEW x \in Uploads, upload[x] = [at |-> "inserted", module |-> m]
          PROVE  \/ upload'[x] = [at |-> "inserted", module |-> m]
                 \/ \E i \in DOMAIN queue' : queue'[i] = m
      <4>1. CASE Enqueue(u) /\ x = u
        <5>1. queue' = Append(queue, m)
          BY <3>4, <4>1 DEF Enqueue
        <5>2. Len(queue) + 1 \in DOMAIN queue' /\ queue'[Len(queue) + 1] = m
          BY <5>1 DEF WorkerInv
        <5>3. QED
          BY <5>2
      <4>2. CASE ~Enqueue(u) \/ x # u
        <5>1. upload'[x] = upload[x]
          BY <3>4, <4>2 DEF Enqueue, Insert, Fail, Confirm, Forget, Post, LifecycleInv, Unused, Answer
        <5>2. QED
          BY <3>4, <5>1
      <4>3. QED
        BY <4>1, <4>2
    <3>5. QED
      BY <3>1, <3>2, <3>3, <3>4 DEF NoModuleForgotten
  <2>3. QED
    BY <2>1, <2>2
<1>7. QED
  BY <1>1, <1>5, <1>6 DEF NoModuleForgotten

\* What the worker does to a module is to begin or to judge it, or nothing; it lets
\* go of a module only with its verdict, or into the queue.
LEMMA WorkerStep ==
    ASSUME ServerInv, Validate \/ Trouble \/ Restart
    PROVE  WorkerInv' /\ (LifecycleNext \/ UNCHANGED moduleVars) /\ NoModuleForgotten'
<1> DEFINE m == worker.module
           Kept(q, w) == \A x \in Modules : status[x] \in Pending =>
                            \/ w.at = "recovering" \/ w.module = x
                            \/ \E i \in DOMAIN q : q[i] = x
                            \/ \E u \in Uploads : upload[u] = [at |-> "inserted", module |-> x]
<1> USE DEF ServerInv
<1>0. Kept(queue, worker) /\ None \notin Modules
  BY NoneAssumption DEF NoModuleForgotten
<1>q. ASSUME UNCHANGED moduleVars, WorkerInv', Kept(queue', worker')
      PROVE  WorkerInv' /\ (LifecycleNext \/ UNCHANGED moduleVars) /\ NoModuleForgotten'
  BY <1>q DEF NoModuleForgotten, moduleVars
<1>1. CASE Recover
  <2> DEFINE S == {x \in Modules : status[x] \in Pending}
             old == OldestFirst(S)
  <2>1. queue' = queue \o old /\ worker'.at = "idle" /\ worker'.module = None /\ UNCHANGED moduleVars
    BY <1>1, WorkerFields DEF Recover, Ready
  <2>2. old \in Seq(Modules) /\ \A k \in 1..Len(rows) : rows[k] \in S => \E j \in DOMAIN old : old[j] = rows[k]
    BY OldestFirstHas DEF LifecycleInv
  <2>3. ASSUME NEW x \in Modules, status[x] \in Pending
        PROVE  \E i \in DOMAIN queue' : queue'[i] = x
    <3>1. PICK k \in DOMAIN rows : rows[k] = x
      BY <2>3 DEF LifecycleInv, Pending
    <3>2. k \in 1..Len(rows)
      BY <3>1 DEF LifecycleInv
    <3>3. PICK j \in DOMAIN old : old[j] = x
      BY <2>2, <2>3, <3>1, <3>2
    <3> HIDE DEF old
    <3>4. Len(queue) + j \in DOMAIN queue' /\ queue'[Len(queue) + j] = x
      BY <2>1, <2>2, <3>3 DEF WorkerInv
    <3>5. QED
      BY <3>4
  <2> HIDE DEF old
  <2>4. WorkerInv'
    BY <2>1, <2>2 DEF WorkerInv, InHands
  <2>5. QED
    BY <1>q, <2>1, <2>3, <2>4
<1>2. CASE Take
  <2>1. /\ worker.at = "idle" /\ worker.module = None /\ queue # <<>> /\ queue' = Tail(queue)
        /\ worker'.at = "taken" /\ worker'.module = Head(queue) /\ UNCHANGED moduleVars
    BY <1>2, WorkerFields DEF Take, Ready
  <2>2. queue' \in Seq(Modules) /\ Head(queue) \in Modules
    BY <2>1 DEF WorkerInv
  <2>3. \A i \in DOMAIN queue : queue[i] = Head(queue) \/ \E j \in DOMAIN queue' : queue'[j] = queue[i]
    <3> SUFFICES ASSUME NEW i \in DOMAIN queue, i # 1
                 PROVE  \E j \in DOMAIN queue' : queue'[j] = queue[i]
      BY DEF WorkerInv
    <3>1. i - 1 \in DOMAIN queue' /\ queue'[i - 1] = queue[i]
      BY <2>1 DEF WorkerInv
    <3>2. QED
      BY <3>1
  <2>4. ASSUME NEW x \in Modules, status[x] \in Pending
        PROVE  \/ worker'.module = x \/ \E i \in DOMAIN queue' : queue'[i] = x
               \/ \E u \in Uploads : upload[u] = [at |-> "inserted", module |-> x]
    <3>1. worker.at # "recovering" /\ worker.module # x
      BY <1>0, <2>1
    <3>2. \/ \E i \in DOMAIN queue : queue[i] = x
          \/ \E u \in Uploads : upload[u] = [at |-> "inserted", module |-> x]
      BY <1>0, <2>4, <3>1
    <3>3. QED
      BY <2>1, <2>3, <3>2
  <2>5. WorkerInv'
    BY <2>1, <2>2 DEF WorkerInv, InHands
  <2>6. QED
    BY <1>q, <2>1, <2>4, <2>5
<1>3. CASE Trouble
  <2>1. /\ worker.at \in InHands /\ queue' = Append(queue, m)
        /\ worker'.at = "idle" /\ worker'.module = None /\ UNCHANGED moduleVars
    BY <1>3, WorkerFields DEF Trouble, Ready, InHands
  <2>2. m \in Modules /\ queue' \in Seq(Modules)
    BY <2>1 DEF WorkerInv
  <2> HIDE DEF m
  <2>3. /\ \A i \in DOMAIN queue : i \in DOMAIN queue' /\ queue'[i] = queue[i]
        /\ Len(queue) + 1 \in DOMAIN queue' /\ queue'[Len(queue) + 1] = m
    BY <2>1, <2>2 DEF WorkerInv
  <2>4. ASSUME NEW x \in Modules, status[x] \in Pending
        PROVE  \/ \E i \in DOMAIN queue' : queue'[i] = x
               \/ \E u \in Uploads : upload[u] = [at |-> "inserted", module |-> x]
    <3>1. worker.at # "recovering" /\ (worker.module = x => m = x)
      BY <2>1 DEF m, InHands
    <3>2. \/ m = x \/ \E i \in DOMAIN queue : queue[i] = x
          \/ \E u \in Uploads : upload[u] = [at |-> "inserted", module |-> x]
      BY <1>0, <2>4, <3>1
    <3>3. QED
      BY <2>3, <3>2
  <2>5. WorkerInv'
    BY <2>1, <2>2 DEF WorkerInv, InHands
  <2>6. QED
    BY <1>q, <2>1, <2>4, <2>5
<1>4. CASE Restart
  <2>1. Lose /\ queue' = <<>> /\ worker'.at = "recovering" /\ worker'.module = None
    BY <1>4, WorkerFields DEF Restart
  <2>2. WorkerInv' /\ NoModuleForgotten'
    BY <2>1 DEF WorkerInv, InHands, NoModuleForgotten
  <2>3. QED
    BY <2>1, <2>2 DEF LifecycleNext
<1>5. CASE Claim
  <2>0. m \in Modules /\ worker.at = "taken"
    BY <1>5 DEF Claim, WorkerInv, InHands
  <2>1. CASE status[m] \in Pending
    <3>1. /\ status' = [status EXCEPT ![m] = "validating"] /\ UNCHANGED <<rows, upload, queue>>
          /\ worker'.at = "asking" /\ worker'.module = m
      BY <1>5, <2>1, WorkerFields DEF Claim
    <3> HIDE DEF m
    <3>2. status'[m] = "validating" /\ \A x \in Modules : x # m => status'[x] = status[x]
      BY <2>0, <3>1 DEF LifecycleInv
    <3>3. WorkerInv'
      BY <2>0, <3>1, <3>2 DEF WorkerInv, InHands
    <3>4. NoModuleForgotten'
      BY <1>0, <2>0, <3>1, <3>2 DEF NoModuleForgotten, m
    <3>5. Begin(m) \/ UNCHANGED moduleVars
      <4>1. CASE status[m] = "uploaded"
        BY <3>1, <4>1 DEF Begin
      <4>2. CASE status[m] = "validating"
        BY <2>0, <3>1, <4>2 DEF moduleVars, LifecycleInv
      <4>3. QED
        BY <2>1, <4>1, <4>2 DEF Pending
    <3>6. QED
      BY <2>0, <3>3, <3>4, <3>5 DEF LifecycleNext
  <2>2. CASE status[m] \notin Pending
    <3>1. UNCHANGED moduleVars /\ queue' = queue /\ worker'.at = "idle" /\ worker'.module = None
      BY <1>5, <2>2, WorkerFields DEF Claim, Ready, moduleVars
    <3>2. WorkerInv' /\ Kept(queue', worker')
      BY <1>0, <2>0, <2>2, <3>1 DEF WorkerInv, InHands
    <3>3. QED
      BY <1>q, <3>1, <3>2
  <2>3. QED
    BY <2>1, <2>2
<1>6. ASSUME NEW v \in Verdicts, Report(v)
      PROVE  UNCHANGED moduleVars /\ WorkerInv' /\ Kept(queue', worker')
  <2>1. /\ worker.at = "asking" /\ UNCHANGED moduleVars /\ queue' = queue
        /\ worker'.at = "judged" /\ worker'.module = m /\ worker'.verdict = v
    BY <1>6, WorkerFields DEF Report
  <2>2. WorkerInv'
    BY <1>6, <2>1 DEF WorkerInv, InHands, moduleVars
  <2>3. QED
    BY <1>0, <2>1, <2>2
<1>7. CASE Finish
  <2>1. /\ worker.at = "judged" /\ worker.verdict \in Verdicts /\ m \in Modules /\ status[m] = "validating"
        /\ UNCHANGED <<rows, upload, queue>>
        /\ worker'.at = "idle" /\ worker'.module = None
        /\ status' = [status EXCEPT ![m] = worker.verdict]
    BY <1>7, WorkerFields DEF Finish, WorkerInv, InHands, Ready
  <2>2. Judge(m)
    BY <2>1 DEF Judge
  <2>3. WorkerInv'
    BY <2>1 DEF WorkerInv, InHands
  <2>4. NoModuleForgotten'
    <3>1. status'[m] \notin Pending /\ \A x \in Modules : x # m => status'[x] = status[x]
      BY <2>1 DEF LifecycleInv, Pending, Verdicts
    <3> HIDE DEF m
    <3>2. QED
      BY <1>0, <2>1, <3>1 DEF NoModuleForgotten, m
  <2>5. QED
    BY <2>1, <2>2, <2>3, <2>4 DEF LifecycleNext
<1>8. QED
  BY <1>1, <1>2, <1>3, <1>4, <1>5, <1>6, <1>7, <1>q DEF Validate

\* Every step keeps the invariant, and is one that the promise allows.
LEMMA ServerStep ==
    ServerInv /\ [ValidationNext]_serverVars => ServerInv' /\ [LifecycleStep]_moduleVars /\ Later
<1> SUFFICES ASSUME ServerInv, [ValidationNext]_serverVars
             PROVE  ServerInv' /\ [LifecycleStep]_moduleVars /\ Later
  OBVIOUS
<1>1. WorkerInv' /\ (LifecycleStep \/ UNCHANGED moduleVars) /\ NoModuleForgotten'
  <2>1. ASSUME NEW u \in Uploads,
               \/ Store(u) \/ StoreFails(u) \/ Enqueue(u) \/ ForgetUpload(u)
               \/ \E m \in Modules : PostUpload(u, m)
        PROVE  WorkerInv' /\ LifecycleStep /\ NoModuleForgotten'
    BY <2>1, HandlerStep DEF Store, StoreFails, ForgetUpload, PostUpload
  <2>2. CASE UNCHANGED serverVars
    BY <2>2 DEF serverVars, moduleVars, workerVars, ServerInv, WorkerInv, NoModuleForgotten
  <2>3. QED
    BY <2>1, <2>2, WorkerStep DEF ValidationNext, ServerNext, Handlers, LifecycleStep
<1>2. LifecycleInv' /\ Later
  BY <1>1, LifecycleStepInv, LifecycleStutter DEF ServerInv
<1>3. QED
  BY <1>1, <1>2 DEF ServerInv

\* The invariant holds throughout.
LEMMA ServerInvariant == ValidationSpec => []ServerInv
<1>1. ServerInit => ServerInv
  <2> SUFFICES ASSUME ServerInit PROVE ServerInv
    OBVIOUS
  <2>1. LifecycleInv
    BY LifecycleStart DEF ServerInit
  <2>2. worker.at = "recovering" /\ worker.module = None /\ queue = <<>>
    BY WorkerFields DEF ServerInit
  <2>3. QED
    BY <2>1, <2>2 DEF ServerInv, WorkerInv, NoModuleForgotten, InHands
<1>2. ServerInv /\ [ValidationNext]_serverVars => ServerInv'
  BY ServerStep
<1>3. QED
  BY <1>1, <1>2, PTL DEF ValidationSpec

\* No stored module is ever without someone who will have it validated: a handler
\* that commits before it queues, a retry that queues again, and a queue that is
\* lost with the process leave none behind.
THEOREM NothingForgotten == ValidationSpec => []NoModuleForgotten
  BY ServerInvariant, PTL DEF ServerInv

\* A verdict is final: neither a module queued twice, a retry after trouble, nor a
\* recovery after a restart ever judges it again.
THEOREM VerdictsAreFinal ==
    ValidationSpec => [][\A m \in Modules : status[m] \in Verdicts => status'[m] = status[m]]_serverVars
<1>1. ServerInv /\ [ValidationNext]_serverVars =>
        [\A m \in Modules : status[m] \in Verdicts => status'[m] = status[m]]_serverVars
  BY ServerStep DEF Later
<1>2. QED
  BY <1>1, ServerInvariant, PTL DEF ValidationSpec

\* Queue, worker and restarts do to a module only what ModuleLifecycle allows: the
\* safety part of KeepsPromise, for any number of modules and uploads.
THEOREM ValidationKeepsLifecycle == ValidationSpec => LifecycleSafety
<1>1. ServerInit => LifecycleInit
  BY DEF ServerInit
<1>2. ServerInv /\ [ValidationNext]_serverVars =>
        [LifecycleNext \/ \E u \in Uploads : Forget(u) \/ \E m \in Modules : Post(u, m)]_moduleVars
  BY ServerStep DEF LifecycleStep, Request
<1>3. QED
  BY <1>1, <1>2, ServerInvariant, PTL DEF ValidationSpec, LifecycleSafety

-----------------------------------------------------------------------------
(* The tenant's page.                                                        *)

TableType == [Modules -> Statuses]

\* A list of modules that the server had some time ago: what it lists is stored, and
\* the verdicts it shows are the verdicts.
Past(v) ==
    \/ v = Unloaded
    \/ /\ v \in TableType
       /\ \A m \in Modules : /\ v[m] # "absent" => status[m] # "absent"
                             /\ v[m] \in Verdicts => status[m] = v[m]

Held == {Unloaded, None} \cup Modules \cup TableType
QueryType == [data : Held, failed : BOOLEAN, at : {"idle", "sent", "answered"},
              answer : Held, tries : {0, 1}]

QueryInv ==
    /\ query \in [Queries -> QueryType]
    /\ Past(query["modules"].data) /\ Past(query["modules"].answer)

\* No answer is on its way that misses m, unless the list is loaded for the first time.
Fresh(m) ==
    query["modules"].data # Unloaded /\ query["modules"].answer # Unloaded
        => query["modules"].answer[m] # "absent"

\* An activation is of a version that has been validated, and not refused.
ActInv ==
    /\ act \in [at : {"closed", "open", "sending", "settling"}, module : Modules \cup {None},
                answer : {"none", "ok"}]
    /\ act.at \in {"open", "sending"} => act.module \in Modules /\ status[act.module] = "validated"

\* The bound version is a validated one.
ActiveIsValidated == active = None \/ (active \in Modules /\ status[active] = "validated")

\* The dialog of an upload is shown with the page only, waits for its own request,
\* and afterwards for a list that has its module.
DialogInv ==
    /\ dialog \in [step : {"closed", "pick", "picked", "sending", "refetching", "refused", "unconfirmed"},
                   file : Modules \cup {None}, upload : Uploads \cup {None},
                   chosen : Modules \cup Broken \cup {None}]
    /\ dialog.step # "closed" => Mounted
    /\ \/ dialog.step \in {"picked", "sending", "refetching", "unconfirmed"}
       \/ dialog.step = "closed" /\ dialog.file # None
       => dialog.chosen = None
    /\ dialog.step \in {"picked", "sending", "refetching"} => dialog.file \in Modules
    /\ dialog.step = "sending" =>
        /\ dialog.upload \in Uploads
        /\ upload[dialog.upload].at # "unused"
        /\ upload[dialog.upload].at \in {"sent", "inserted"} => upload[dialog.upload].module = dialog.file
        /\ upload[dialog.upload].at \in {"inserted", "created"} => status[dialog.file] # "absent"
    /\ dialog.step = "refetching" => status[dialog.file] # "absent" /\ Fresh(dialog.file)

TenantInv == LifecycleInv /\ QueryInv /\ ActInv /\ ActiveIsValidated /\ DialogInv

\* What the page does to the server's modules is to post an upload and to take its
\* answer.
LEMMA PageModules ==
    ASSUME TenantInv, PageNext
    PROVE  (Request \/ UNCHANGED moduleVars) /\ UNCHANGED <<rows, status>>
<1>1. ASSUME NEW u \in Uploads, Submit(u) PROVE Request /\ UNCHANGED <<rows, status>>
  BY <1>1 DEF Submit, TenantInv, DialogInv, Request, Post
<1>2. CASE Created \/ Exists
  BY <1>2 DEF Created, Exists, TenantInv, DialogInv, Request, Forget
<1>3. CASE PostElsewhere \/ AnsweredElsewhere
  BY <1>3 DEF PostElsewhere, AnsweredElsewhere, Request, Post, Forget
<1>4. ASSUME \/ OpenUpload \/ CloseUpload \/ FileChecked \/ (\E f \in Modules \cup Broken : ChooseFile(f))
             \/ (\E m \in Modules : OpenActivate(m) \/ ShowReason(m) \/ ActivateElsewhere(m))
             \/ BackToVersions \/ CancelActivate \/ ConfirmActivate
      PROVE  UNCHANGED moduleVars
  BY <1>4 DEF OpenUpload, CloseUpload, FileChecked, ChooseFile, OpenActivate, ShowReason, ActivateElsewhere,
     BackToVersions, CancelActivate, ConfirmActivate
<1>5. ASSUME \/ Poll \/ NoAnswer \/ Activated \/ ActivateFails \/ Activate
             \/ \E q \in Queries : Refocus(q) \/ Loaded(q) \/ Retry(q) \/ LoadFails(q) \/ Read(q) \/ ReadFails(q)
      PROVE  UNCHANGED moduleVars
  BY <1>5 DEF Poll, NoAnswer, Activated, ActivateFails, Activate, Refocus, Loaded, Retry, LoadFails, Read, ReadFails
<1>6. QED
  BY <1>1, <1>2, <1>3, <1>4, <1>5 DEF PageNext, User, Client, Answers, moduleVars

\* What a new request leaves of a query.
LEMMA SentFields ==
    ASSUME NEW q \in QueryType, NEW n \in {0, 1}
    PROVE  /\ Sent(q, n) \in QueryType
           /\ Sent(q, n).data = q.data /\ Sent(q, n).failed = q.failed /\ Sent(q, n).answer = Unloaded
  BY DEF Sent, QueryType, Held

\* What the queries show stays; an answer on its way is kept or dropped.
SameShown(q2) ==
    /\ q2 \in [Queries -> QueryType]
    /\ \A q \in Queries : /\ q2[q].data = query[q].data /\ q2[q].failed = query[q].failed
                          /\ q2[q].answer \in {Unloaded, query[q].answer}

\* An invalidation changes no data, and drops an old answer if there is data.
LEMMA InvalidatedQueries ==
    ASSUME QueryInv, NEW qs
    PROVE  /\ SameShown(Invalidated(qs))
           /\ Mounted /\ "modules" \in qs /\ query["modules"].data # Unloaded =>
                Invalidated(qs)["modules"].answer = Unloaded
<1>1. ASSUME NEW q \in Queries
      PROVE  /\ Invalidated(qs)[q] = query[q] \/ Invalidated(qs)[q] = Sent(query[q], 0)
             /\ q = "modules" /\ Mounted /\ q \in qs /\ query[q].data # Unloaded =>
                    Invalidated(qs)[q] = Sent(query[q], 0)
  BY <1>1 DEF Invalidated
<1>2. \A q \in Queries : query[q] \in QueryType
  BY DEF QueryInv
<1>3. Invalidated(qs) = [q \in Queries |-> Invalidated(qs)[q]]
  BY DEF Invalidated
<1>4. ASSUME NEW q \in Queries
      PROVE  /\ Invalidated(qs)[q] \in QueryType
             /\ Invalidated(qs)[q].data = query[q].data /\ Invalidated(qs)[q].failed = query[q].failed
             /\ Invalidated(qs)[q].answer \in {Unloaded, query[q].answer}
  BY <1>1, <1>2, <1>4, SentFields
<1>5. "modules" \in Queries
  BY DEF Queries
<1>6. SameShown(Invalidated(qs))
  BY <1>3, <1>4 DEF SameShown
<1>7. QED
  BY <1>1, <1>2, <1>5, <1>6, SentFields

\* What Show makes of the queries that it is given, and of an activation.
LEMMA ShowQueries ==
    ASSUME NEW q2 \in [Queries -> QueryType], NEW stale \in BOOLEAN, Show(q2, stale)
    PROVE  /\ query' \in [Queries -> QueryType]
           /\ query'["hook"] = q2["hook"]
           /\ query'["modules"].data = q2["modules"].data /\ query'["modules"].failed = q2["modules"].failed
           /\ query'["modules"].answer \in {Unloaded, q2["modules"].answer}
           /\ act' \in {NoAct, act}
<1> DEFINE list == q2["modules"]
           off == [list EXCEPT !.at = "idle", !.answer = Unloaded]
<1>1. list \in QueryType /\ "modules" \in Queries /\ "hook" \in Queries /\ "hook" # "modules"
  BY DEF Queries
<1>2. \E new \in {list, Sent(list, 0), off} : query' = [q2 EXCEPT !["modules"] = new]
  <2>1. \/ query' = q2
        \/ query' = [q2 EXCEPT !["modules"] = Sent(list, 0)]
        \/ query' = [q2 EXCEPT !["modules"] = list]
        \/ query' = [q2 EXCEPT !["modules"] = off]
    BY DEF Show
  <2>2. q2 = [q2 EXCEPT !["modules"] = list]
    BY <1>1
  <2>3. QED
    BY <2>1, <2>2
<1>3. off \in QueryType /\ off.data = list.data /\ off.failed = list.failed /\ off.answer = Unloaded
  BY <1>1 DEF QueryType, Held
<1>4. \A new \in {list, Sent(list, 0), off} :
        new \in QueryType /\ new.data = list.data /\ new.failed = list.failed /\ new.answer \in {Unloaded, list.answer}
  BY <1>1, <1>3, SentFields
<1>5. act' \in {NoAct, act}
  BY DEF Show
<1> HIDE DEF list, off
<1>6. PICK new \in QueryType :
        /\ query' = [q2 EXCEPT !["modules"] = new]
        /\ new.data = list.data /\ new.failed = list.failed /\ new.answer \in {Unloaded, list.answer}
  BY <1>2, <1>4
<1>7. query' \in [Queries -> QueryType] /\ query'["hook"] = q2["hook"] /\ query'["modules"] = new
  BY <1>1, <1>6
<1>8. QED
  BY <1>5, <1>6, <1>7 DEF list

\* No step of the page shows what the server never had, unmounts the page but by an
\* error of the hook, or puts an older answer in the place of a fresh one.
LEMMA PageQueries ==
    ASSUME TenantInv, PageNext
    PROVE  /\ QueryInv'
           /\ Mounted => Mounted' \/ LoadFails("hook")
           /\ \A m \in Modules : status[m] # "absent" /\ Fresh(m) => Fresh(m)'
<1> DEFINE Goal == /\ QueryInv'
                   /\ Mounted => Mounted' \/ LoadFails("hook")
                   /\ \A m \in Modules : status[m] # "absent" /\ Fresh(m) => Fresh(m)'
<1> USE DEF TenantInv
<1>0. status' = status /\ "modules" \in Queries /\ "hook" \in Queries /\ \A q \in Queries : query[q] \in QueryType
  BY PageModules DEF Queries, QueryInv
<1>1. ASSUME SameShown(query') PROVE Goal
  <2>1. Past(query["modules"].data)' /\ Past(query["modules"].answer)'
    BY <1>0, <1>1 DEF SameShown, QueryInv, Past
  <2>2. Mounted' = Mounted
    BY <1>0, <1>1 DEF SameShown, Mounted, Content
  <2>3. \A m \in Modules : Fresh(m) => Fresh(m)'
    BY <1>0, <1>1 DEF SameShown, Fresh
  <2>4. QED
    BY <1>1, <2>1, <2>2, <2>3 DEF QueryInv, SameShown
<1>2. ASSUME UNCHANGED query PROVE Goal
  BY <1>1, <1>2 DEF SameShown, QueryInv
<1>3. ASSUME NEW q \in Queries, NEW n \in {0, 1}, query' = [query EXCEPT ![q] = Sent(@, n)]
      PROVE  Goal
  <2>1. query' = [query EXCEPT ![q] = Sent(query[q], n)]
    BY <1>3
  <2>2. query' \in [Queries -> QueryType] /\ query'[q] = Sent(query[q], n)
        /\ \A r \in Queries : r # q => query'[r] = query[r]
    BY <1>0, <2>1, SentFields DEF QueryInv
  <2>3. SameShown(query')
    BY <1>0, <2>2, SentFields DEF SameShown
  <2>4. QED
    BY <1>1, <2>3
<1>4. CASE Poll \/ \E q \in Queries : Refocus(q) \/ Retry(q)
  BY <1>0, <1>3, <1>4 DEF Poll, Refocus, Retry
<1>5. CASE Created \/ BackToVersions \/ Activated
  <2>1. \E qs : query' = Invalidated(qs)
    BY <1>5 DEF Created, BackToVersions, Activated
  <2>2. QED
    BY <1>1, <2>1, InvalidatedQueries
<1>6. ASSUME NEW q \in Queries, ReadFails(q) PROVE Goal
  <2>1. query' = [query EXCEPT ![q].at = "answered"]
    BY <1>6 DEF ReadFails
  <2>2. SameShown(query')
    BY <1>0, <2>1 DEF SameShown, QueryInv, QueryType
  <2>3. QED
    BY <1>1, <2>2
<1>7. ASSUME NEW q \in Queries, Read(q) PROVE Goal
  <2>1. query' = [query EXCEPT ![q].at = "answered", ![q].answer = Current(q)]
    BY <1>7 DEF Read
  <2>2. Current(q) \in Held
    BY DEF Current, Held, ActiveIsValidated, LifecycleInv, TableType
  <2>3. /\ query' \in [Queries -> QueryType]
        /\ \A r \in Queries : query'[r].data = query[r].data /\ query'[r].failed = query[r].failed
        /\ \A r \in Queries : r # q => query'[r].answer = query[r].answer
        /\ query'[q].answer = Current(q)
    BY <1>0, <2>1, <2>2 DEF QueryInv, QueryType
  <2>4. query'["modules"].answer \in {query["modules"].answer, status}
    BY <1>0, <2>3 DEF Current
  <2>5. Past(status)
    BY DEF Past, LifecycleInv, TableType
  <2>6. QueryInv'
    BY <1>0, <2>3, <2>4, <2>5 DEF QueryInv, Past
  <2>7. Mounted' = Mounted
    BY <1>0, <2>3 DEF Mounted, Content
  <2>8. \A m \in Modules : status[m] # "absent" /\ Fresh(m) => Fresh(m)'
    BY <1>0, <2>3, <2>4 DEF Fresh
  <2>9. QED
    BY <2>6, <2>7, <2>8
<1>8. ASSUME NEW q \in Queries, NEW new \in QueryType, NEW stale \in BOOLEAN,
             Show([query EXCEPT ![q] = new], stale),
             new.answer = Unloaded, new.data \in {query[q].data, query[q].answer}
      PROVE  /\ QueryInv'
             /\ q = "modules" => query'["hook"] = query["hook"]
             /\ q = "hook" => query'["hook"] = new
             /\ \A m \in Modules : Fresh(m) => Fresh(m)'
  <2> DEFINE q2 == [query EXCEPT ![q] = new]
  <2>1. /\ q2 \in [Queries -> QueryType] /\ q2[q] = new /\ Show(q2, stale)
        /\ \A r \in Queries : r # q => q2[r] = query[r]
    BY <1>8, <1>0 DEF QueryInv
  <2> HIDE DEF q2
  <2>2. /\ query' \in [Queries -> QueryType] /\ query'["hook"] = q2["hook"]
        /\ query'["modules"].data = q2["modules"].data
        /\ query'["modules"].answer \in {Unloaded, q2["modules"].answer}
    BY <2>1, ShowQueries
  <2>3. q \in {"hook", "modules"} /\ "hook" # "modules"
    BY DEF Queries
  <2>4. /\ query'["modules"].data \in {query["modules"].data, query["modules"].answer}
        /\ query'["modules"].answer \in {Unloaded, query["modules"].answer}
        /\ q = "modules" => query'["modules"].answer = Unloaded
        /\ q = "hook" => query'["modules"].data = query["modules"].data
    BY <1>0, <1>8, <2>1, <2>2, <2>3
  <2>5. QueryInv'
    BY <1>0, <2>2, <2>4 DEF QueryInv, Past
  <2>6. \A m \in Modules : Fresh(m) => Fresh(m)'
    BY <2>3, <2>4 DEF Fresh
  <2>7. QED
    BY <1>0, <2>1, <2>2, <2>3, <2>5, <2>6
<1>9. ASSUME NEW q \in Queries, Loaded(q) PROVE Goal
  <2> DEFINE new == [Idle EXCEPT !.data = query[q].answer]
  <2>1. PICK stale \in BOOLEAN : Show([query EXCEPT ![q] = new], stale)
    BY <1>9 DEF Loaded
  <2>2. /\ new \in QueryType /\ new.answer = Unloaded /\ new.data = query[q].answer /\ new.failed = FALSE
        /\ query[q].answer # Unloaded
    BY <1>0, <1>9 DEF Idle, QueryType, Held, Loaded
  <2> HIDE DEF new
  <2>3. /\ QueryInv' /\ (q = "modules" => query'["hook"] = query["hook"])
        /\ (q = "hook" => query'["hook"] = new) /\ \A m \in Modules : Fresh(m) => Fresh(m)'
    BY <1>8, <2>1, <2>2
  <2>4. Mounted => Mounted'
    BY <2>2, <2>3 DEF Mounted, Content, Queries
  <2>5. QED
    BY <2>3, <2>4
<1>10. ASSUME NEW q \in Queries, LoadFails(q) PROVE Goal
  <2> DEFINE new == [Idle EXCEPT !.data = query[q].data, !.failed = TRUE]
  <2>1. Show([query EXCEPT ![q] = new], FALSE)
    BY <1>10 DEF LoadFails
  <2>2. new \in QueryType /\ new.answer = Unloaded /\ new.data = query[q].data
    BY <1>0 DEF Idle, QueryType, Held
  <2> HIDE DEF new
  <2>3. /\ QueryInv' /\ (q = "modules" => query'["hook"] = query["hook"])
        /\ \A m \in Modules : Fresh(m) => Fresh(m)'
    BY <1>8, <2>1, <2>2
  <2>4. Mounted => Mounted' \/ LoadFails("hook")
    BY <1>10, <2>3 DEF Mounted, Content, Queries
  <2>5. QED
    BY <2>3, <2>4
<1>11. ASSUME \/ OpenUpload \/ CloseUpload \/ FileChecked \/ (\E f \in Modules \cup Broken : ChooseFile(f))
             \/ (\E m \in Modules : OpenActivate(m) \/ ShowReason(m) \/ ActivateElsewhere(m))
             \/ (\E u \in Uploads : Submit(u)) \/ CancelActivate \/ ConfirmActivate
             \/ Exists \/ NoAnswer \/ ActivateFails \/ Activate \/ PostElsewhere \/ AnsweredElsewhere
       PROVE  UNCHANGED query
  BY <1>11 DEF OpenUpload, CloseUpload, FileChecked, ChooseFile, OpenActivate, ShowReason, ActivateElsewhere, Submit,
     CancelActivate, ConfirmActivate, Exists, NoAnswer, ActivateFails, Activate, PostElsewhere, AnsweredElsewhere,
     pageVars
<1>12. CASE User \/ PostElsewhere \/ AnsweredElsewhere \/ \E m \in Modules : ActivateElsewhere(m)
  BY <1>2, <1>5, <1>11, <1>12 DEF User
<1>13. CASE Client
  BY <1>2, <1>4, <1>5, <1>9, <1>10, <1>11, <1>13 DEF Client
<1>14. CASE Answers
  BY <1>2, <1>6, <1>7, <1>11, <1>14 DEF Answers
<1>15. Goal
  BY <1>12, <1>13, <1>14 DEF PageNext
<1>16. QED
  BY <1>15

\* The page offers only versions whose verdict it has seen, and the server binds only
\* validated ones.
LEMMA PageActivation ==
    ASSUME TenantInv, PageNext
    PROVE  ActInv' /\ ActiveIsValidated'
<1> USE DEF TenantInv
<1>0. status' = status
  BY PageModules
<1>1. ASSUME act' \in {NoAct, act} PROVE ActInv'
  BY <1>0, <1>1 DEF ActInv, NoAct
<1>2. ASSUME UNCHANGED active PROVE ActiveIsValidated'
  BY <1>0, <1>2 DEF ActiveIsValidated
<1>3. ASSUME NEW m \in Modules, OpenActivate(m) PROVE ActInv' /\ ActiveIsValidated'
  <2>1. /\ UNCHANGED active /\ act' = [at |-> "open", module |-> m, answer |-> "none"]
        /\ query["modules"].data # Unloaded /\ query["modules"].data[m] = "validated"
    BY <1>3 DEF OpenActivate, NoAct, Offered, Content
  <2>2. status[m] = "validated"
    BY <2>1 DEF QueryInv, Past, Verdicts
  <2>3. QED
    BY <1>0, <1>2, <2>1, <2>2 DEF ActInv
<1>4. CASE CancelActivate
  BY <1>1, <1>2, <1>4 DEF CancelActivate
<1>5. CASE ConfirmActivate
  BY <1>0, <1>2, <1>5 DEF ConfirmActivate, ActInv
<1>6. CASE Activate
  <2>1. status[act.module] = "validated" /\ act.module \in Modules
    BY <1>6 DEF Activate, ActInv
  <2>2. active' = act.module /\ act' = [act EXCEPT !.answer = "ok"]
    BY <1>6, <2>1 DEF Activate
  <2>3. QED
    BY <1>0, <2>1, <2>2 DEF ActInv, ActiveIsValidated
<1>7. CASE Activated
  BY <1>0, <1>2, <1>7 DEF Activated, ActInv
<1>8. CASE ActivateFails
  <2>1. status[act.module] = "validated" /\ act.module \in Modules
    BY <1>8 DEF ActivateFails, ActInv
  <2>2. /\ active' \in {active, act.module}
        /\ act' \in {NoAct, [at |-> "open", module |-> act.module, answer |-> "none"]}
    BY <1>8 DEF ActivateFails, NoAct
  <2>3. ActInv'
    <3>1. CASE act' = NoAct
      BY <1>1, <3>1
    <3>2. CASE act' = [at |-> "open", module |-> act.module, answer |-> "none"]
      BY <1>0, <2>1, <3>2 DEF ActInv
    <3>3. QED
      BY <2>2, <3>1, <3>2
  <2>4. QED
    BY <1>0, <2>1, <2>2, <2>3 DEF ActiveIsValidated
<1>9. ASSUME NEW m \in Modules, ActivateElsewhere(m) PROVE ActInv' /\ ActiveIsValidated'
  BY <1>0, <1>1, <1>9 DEF ActivateElsewhere, ActiveIsValidated, pageVars
<1>10. ASSUME NEW q \in Queries, Loaded(q) \/ LoadFails(q) PROVE ActInv' /\ ActiveIsValidated'
  <2>1. act' \in {NoAct, act} /\ UNCHANGED active
    BY <1>10 DEF Loaded, LoadFails, Show
  <2>2. QED
    BY <1>1, <1>2, <2>1
<1>11. ASSUME \/ OpenUpload \/ CloseUpload \/ FileChecked \/ (\E f \in Modules \cup Broken : ChooseFile(f))
              \/ (\E m \in Modules : ShowReason(m)) \/ (\E u \in Uploads : Submit(u)) \/ BackToVersions
              \/ Poll \/ Created \/ Exists \/ NoAnswer \/ PostElsewhere \/ AnsweredElsewhere
              \/ \E q \in Queries : Refocus(q) \/ Retry(q) \/ Read(q) \/ ReadFails(q)
       PROVE  ActInv' /\ ActiveIsValidated'
  <2>1. UNCHANGED <<act, active>>
    BY <1>11 DEF OpenUpload, CloseUpload, FileChecked, ChooseFile, ShowReason, Submit, BackToVersions, Poll, Created,
       Exists, NoAnswer, PostElsewhere, AnsweredElsewhere, Refocus, Retry, Read, ReadFails, pageVars
  <2>2. QED
    BY <1>1, <1>2, <2>1
<1>12. CASE User \/ PostElsewhere \/ AnsweredElsewhere \/ \E m \in Modules : ActivateElsewhere(m)
  BY <1>3, <1>4, <1>5, <1>9, <1>11, <1>12 DEF User
<1>13. CASE Client
  BY <1>7, <1>8, <1>10, <1>11, <1>13 DEF Client
<1>14. CASE Answers
  BY <1>6, <1>11, <1>14 DEF Answers
<1>15. QED
  BY <1>12, <1>13, <1>14 DEF PageNext

\* The dialog of an upload keeps to its own request, and then to a list read since.
LEMMA PageDialog ==
    ASSUME TenantInv, PageNext
    PROVE  DialogInv'
<1> USE DEF TenantInv
<1>0. /\ status' = status /\ \A m \in Modules : status[m] # "absent" /\ Fresh(m) => Fresh(m)'
      /\ Mounted => Mounted' \/ LoadFails("hook")
  BY PageModules, PageQueries
<1>n. ASSUME dialog' = NoDialog PROVE DialogInv'
  BY <1>n DEF DialogInv, NoDialog
<1>1. CASE LoadFails("hook")
  BY <1>n, <1>1 DEF LoadFails
<1> SUFFICES ASSUME Mounted => Mounted' PROVE DialogInv'
  BY <1>0, <1>1
<1>q. ASSUME dialog' = dialog, dialog.step = "sending" => upload'[dialog.upload] = upload[dialog.upload]
      PROVE  DialogInv'
  BY <1>0, <1>q DEF DialogInv
<1>2. CASE OpenUpload \/ CloseUpload \/ NoAnswer
  BY <1>0, <1>2 DEF OpenUpload, CloseUpload, NoAnswer, DialogInv, NoDialog
<1>3. ASSUME NEW f \in Modules \cup Broken, ChooseFile(f) PROVE DialogInv'
  BY <1>0, <1>3 DEF ChooseFile, DialogInv
<1>4. CASE FileChecked
  BY <1>0, <1>4, NoneAssumption, FilesAssumption DEF FileChecked, DialogInv
<1>5. ASSUME NEW u \in Uploads, Submit(u) PROVE DialogInv'
  <2>1. /\ upload'[u] = [at |-> "sent", module |-> dialog.file] /\ dialog.step = "picked" /\ dialog.file \in Modules
        /\ dialog' = [dialog EXCEPT !.step = "sending", !.upload = u]
    BY <1>5 DEF Submit, Post, LifecycleInv, DialogInv
  <2>2. /\ dialog'.step = "sending" /\ dialog'.file = dialog.file /\ dialog'.upload = u
        /\ dialog'.chosen = None
    BY <2>1 DEF DialogInv
  <2>3. dialog' \in [step : {"closed", "pick", "picked", "sending", "refetching", "refused", "unconfirmed"},
                     file : Modules \cup {None}, upload : Uploads \cup {None},
                     chosen : Modules \cup Broken \cup {None}]
    BY <2>1 DEF DialogInv
  <2>4. Mounted'
    BY <2>1 DEF DialogInv
  <2>5. QED
    BY <2>1, <2>2, <2>3, <2>4 DEF DialogInv
<1>6. CASE Created
  <2>1. /\ dialog.step = "sending" /\ upload[dialog.upload].at = "created"
        /\ dialog' = [dialog EXCEPT !.step = "refetching", !.upload = None]
        /\ query' = Invalidated({"modules"})
    BY <1>6 DEF Created
  <2>2. status[dialog.file] # "absent" /\ Mounted /\ dialog.file \in Modules
    BY <2>1 DEF DialogInv
  <2>3. /\ query'["modules"].data = query["modules"].data
        /\ query["modules"].data # Unloaded => query'["modules"].answer = Unloaded
    BY <2>1, <2>2, InvalidatedQueries DEF SameShown, Queries
  <2>4. QED
    BY <1>0, <2>1, <2>2, <2>3 DEF DialogInv, Fresh
<1>7. CASE Exists
  BY <1>0, <1>7 DEF Exists, DialogInv
<1>8. CASE BackToVersions
  BY <1>n, <1>8 DEF BackToVersions
<1>9. ASSUME NEW q \in Queries, Loaded(q) \/ LoadFails(q) PROVE DialogInv'
  <2>1. UNCHANGED upload /\ (dialog' = NoDialog \/ dialog' = dialog)
    BY <1>9 DEF Loaded, LoadFails, AfterFetch, moduleVars
  <2>2. QED
    BY <1>n, <1>q, <2>1
<1>10. CASE PostElsewhere \/ AnsweredElsewhere
  <2>1. PICK u \in Uploads \ {dialog.upload} : dialog' = dialog /\ (Forget(u) \/ \E m \in Modules : Post(u, m))
    BY <1>10 DEF PostElsewhere, AnsweredElsewhere, pageVars
  <2>2. \A x \in Uploads : x # u => upload'[x] = upload[x]
    BY <2>1 DEF Forget, Post, LifecycleInv
  <2>3. QED
    BY <1>q, <2>1, <2>2 DEF DialogInv
<1>11. ASSUME \/ (\E m \in Modules : OpenActivate(m) \/ ShowReason(m) \/ ActivateElsewhere(m))
              \/ CancelActivate \/ ConfirmActivate \/ Poll \/ Activated \/ ActivateFails \/ Activate
              \/ \E q \in Queries : Refocus(q) \/ Retry(q) \/ Read(q) \/ ReadFails(q)
       PROVE  DialogInv'
  <2>1. UNCHANGED <<dialog, upload>>
    BY <1>11 DEF OpenActivate, ShowReason, ActivateElsewhere, CancelActivate, ConfirmActivate, Poll, Activated,
       ActivateFails, Activate, Refocus, Retry, Read, ReadFails, pageVars, moduleVars
  <2>2. QED
    BY <1>q, <2>1
<1>12. CASE User \/ PostElsewhere \/ AnsweredElsewhere \/ \E m \in Modules : ActivateElsewhere(m)
  BY <1>2, <1>3, <1>4, <1>5, <1>8, <1>10, <1>11, <1>12 DEF User
<1>13. CASE Client
  BY <1>2, <1>6, <1>7, <1>9, <1>11, <1>13 DEF Client
<1>14. CASE Answers
  BY <1>11, <1>14 DEF Answers
<1>15. QED
  BY <1>12, <1>13, <1>14 DEF PageNext

\* What the server does by itself to the modules leaves the page right.
LEMMA TableStep ==
    ASSUME TenantInv, LifecycleNext \/ UNCHANGED moduleVars, UNCHANGED <<active, pageVars>>
    PROVE  TenantInv'
<1> USE DEF TenantInv
<1>1. LifecycleInv' /\ Later
  BY LifecycleStepInv, LifecycleStutter DEF LifecycleStep
<1>2. UNCHANGED <<query, dialog, act, active>>
  BY DEF pageVars
<1>3. QueryInv'
  <2>1. ASSUME NEW v, Past(v) PROVE Past(v)'
    BY <1>1, <2>1 DEF Past, Later, TableType
  <2>2. Past(query["modules"].data)' /\ Past(query["modules"].answer)'
    BY <1>2, <2>1 DEF QueryInv
  <2>3. QED
    BY <1>2, <2>2 DEF QueryInv
<1>4. ActInv' /\ ActiveIsValidated'
  BY <1>1, <1>2 DEF ActInv, ActiveIsValidated, Later, Verdicts
<1>5. DialogInv'
  <2>1. Mounted' = Mounted /\ \A m \in Modules : Fresh(m) => Fresh(m)'
    BY <1>2 DEF Mounted, Fresh
  <2>2. ASSUME dialog.step = "sending"
        PROVE  /\ upload'[dialog.upload].at # "unused"
               /\ upload'[dialog.upload].at \in {"sent", "inserted"} => upload'[dialog.upload].module = dialog.file
               /\ upload'[dialog.upload].at \in {"inserted", "created"} => status'[dialog.file] # "absent"
    <3> DEFINE d == dialog.upload
    <3>1. /\ d \in Uploads /\ upload[d].at # "unused" /\ dialog.file \in Modules
          /\ upload[d].at \in {"sent", "inserted"} => upload[d].module = dialog.file
          /\ upload[d].at \in {"inserted", "created"} => status[dialog.file] # "absent"
      BY <2>2 DEF DialogInv
    <3> HIDE DEF d
    <3>2. \/ upload'[d] = upload[d]
          \/ upload[d].at = "sent" /\ status[upload[d].module] = "absent" /\ upload'[d] = [upload[d] EXCEPT !.at = "inserted"]
             /\ status' = [status EXCEPT ![upload[d].module] = "uploaded"]
          \/ upload'[d] \in {Answer("exists"), Answer("lost")}
          \/ upload[d].at = "inserted" /\ upload'[d] = Answer("created")
      <4>1. ASSUME NEW u \in Uploads, Insert(u) \/ Fail(u) \/ Confirm(u)
            PROVE  <3>2!:
        BY <3>1, <4>1 DEF Insert, Fail, Confirm, LifecycleInv
      <4>2. CASE Lose
        BY <3>1, <4>2 DEF Lose
      <4>3. CASE UNCHANGED upload
        BY <4>3
      <4>4. QED
        BY <4>1, <4>2, <4>3 DEF LifecycleNext, Handle, Begin, Judge, moduleVars
    <3>3. /\ upload'[d].at # "unused"
          /\ upload'[d].at \in {"sent", "inserted"} => upload'[d].module = dialog.file
          /\ upload'[d].at \in {"inserted", "created"} => status'[dialog.file] # "absent"
      BY <1>1, <3>1, <3>2 DEF Later, LifecycleInv, Answer
    <3>4. QED
      BY <3>3 DEF d
  <2>3. dialog.step = "refetching" => (status[dialog.file] # "absent" /\ Fresh(dialog.file))'
    BY <1>1, <1>2, <2>1 DEF DialogInv, Later
  <2>4. QED
    BY <1>2, <2>1, <2>2, <2>3 DEF DialogInv
<1>6. QED
  BY <1>1, <1>3, <1>4, <1>5

\* Every step of page and lifecycle keeps the invariant.
LEMMA TenantStep ==
    TenantInv /\ [TenantNext]_vars => TenantInv' /\ [LifecycleStep]_moduleVars /\ Later
<1> SUFFICES ASSUME TenantInv, [TenantNext]_vars
             PROVE  TenantInv' /\ [LifecycleStep]_moduleVars /\ Later
  OBVIOUS
<1>1. TenantInv' /\ (LifecycleStep \/ UNCHANGED moduleVars)
  <2>1. CASE PageNext
    <3>1. LifecycleStep \/ UNCHANGED moduleVars
      BY <2>1, PageModules DEF LifecycleStep
    <3>2. LifecycleInv'
      BY <3>1, LifecycleStepInv, LifecycleStutter DEF TenantInv
    <3>3. QED
      BY <2>1, <3>1, <3>2, PageQueries, PageActivation, PageDialog DEF TenantInv
  <2>2. CASE (LifecycleNext \/ UNCHANGED moduleVars) /\ UNCHANGED <<active, pageVars>>
    BY <2>2, TableStep DEF LifecycleStep
  <2>3. QED
    BY <2>1, <2>2 DEF TenantNext, vars
<1>2. QED
  BY <1>1, LifecycleStepInv, LifecycleStutter DEF TenantInv

\* The stored modules in a row: each once.
LEMMA StoredRows ==
    /\ SetToSeq(Stored) \in Seq(Stored)
    /\ \A i, j \in DOMAIN SetToSeq(Stored) : SetToSeq(Stored)[i] = SetToSeq(Stored)[j] => i = j
    /\ \A m \in Stored : \E i \in DOMAIN SetToSeq(Stored) : SetToSeq(Stored)[i] = m
<1> DEFINE n == Cardinality(Stored)
           s == SetToSeq(Stored)
<1>1. n \in Nat /\ ExistsBijection(1..n, Stored)
  BY FilesAssumption, FS_CardinalityType
<1>2. PICK b : b \in [1..n -> Stored] /\ IsInjective(b)
  BY <1>1 DEF ExistsBijection, Bijection, Injection, IsInjective
<1>3. s \in [1..n -> Stored] /\ IsInjective(s)
  BY <1>2 DEF SetToSeq
<1>4. s \in Injection(1..n, Stored)
  BY <1>3 DEF Injection, IsInjective
<1>5. IsFiniteSet(1..n) /\ Cardinality(1..n) = n
  BY <1>1, FS_Interval
<1>6. s \in Surjection(1..n, Stored)
  BY <1>4, <1>5, FilesAssumption, FS_Injection
<1> HIDE DEF n, s
<1>7. DOMAIN s = 1..n /\ s \in Seq(Stored)
  BY <1>1, <1>3
<1>8. QED
  BY <1>3, <1>6, <1>7 DEF s, IsInjective, Surjection

\* It holds when the page opens.
LEMMA TenantStart == Init => TenantInv
<1> SUFFICES ASSUME Init PROVE TenantInv
  OBVIOUS
<1>1. PICK verdict \in [Stored -> Verdicts] :
        /\ status = [m \in Modules |-> IF m \in Stored THEN verdict[m] ELSE "absent"]
        /\ active \in {m \in Stored : verdict[m] = "validated"} \cup {None}
  BY DEF Init
<1>2. LifecycleInv
  <2>1. rows = SetToSeq(Stored) /\ upload = [u \in Uploads |-> Unused]
    BY DEF Init
  <2>2. rows \in Seq(Modules) /\ \A i \in DOMAIN rows : rows[i] \in Stored
    BY <2>1, StoredRows, FilesAssumption
  <2>3. status \in [Modules -> Statuses]
    BY <1>1 DEF Statuses
  <2>4. \A m \in Modules : status[m] # "absent" <=> m \in Stored
    BY <1>1 DEF Verdicts
  <2>5. \A m \in Modules : status[m] # "absent" <=> \E i \in DOMAIN rows : rows[i] = m
    <3>1. \A m \in Stored : \E i \in DOMAIN rows : rows[i] = m
      BY <2>1, StoredRows
    <3>2. QED
      BY <2>2, <2>4, <3>1
  <2>6. QED
    BY <2>1, <2>2, <2>3, <2>5, StoredRows DEF LifecycleInv, Unused, Answer
<1>3. QueryInv
  <2>1. query["modules"] = Idle /\ query["hook"] = Sent(Idle, 0)
    BY DEF Init, Queries
  <2>2. Idle \in QueryType
    BY DEF Idle, QueryType, Held
  <2>3. query \in [Queries -> QueryType]
    BY <2>2, SentFields DEF Init
  <2>4. QED
    BY <2>1, <2>3 DEF QueryInv, Past, Idle
<1>4. ActInv
  BY DEF Init, ActInv, NoAct
<1>5. ActiveIsValidated
  BY <1>1, FilesAssumption DEF ActiveIsValidated
<1>6. DialogInv
  BY DEF Init, DialogInv, NoDialog
<1>7. QED
  BY <1>2, <1>3, <1>4, <1>5, <1>6 DEF TenantInv

\* It holds throughout.
LEMMA TenantInvariant == TenantSafety => []TenantInv
<1>1. TenantInv /\ [TenantNext]_vars => TenantInv'
  BY TenantStep
<1>2. QED
  BY <1>1, TenantStart, PTL DEF TenantSafety

\* A version that the page offers, from however old a list, is accepted: the verdict
\* it was offered for is final.
THEOREM OffersAreAccepted == TenantSafety => []OfferedIsAccepted
<1>1. TenantInv => OfferedIsAccepted
  BY DEF TenantInv, ActInv, OfferedIsAccepted
<1>2. QED
  BY <1>1, TenantInvariant, PTL

\* The version that a hook runs is always one that has been validated.
THEOREM ActiveStaysValidated == TenantSafety => []ActiveIsValidated
  BY TenantInvariant, PTL DEF TenantInv

\* Among the listed rows from any one on, there is a last one.
LEMMA LastListed ==
    ASSUME NEW r \in Seq(Modules), NEW S, NEW i \in DOMAIN r, r[i] \in S
    PROVE  \E j \in DOMAIN r : r[j] \in S /\ i <= j /\ \A k \in DOMAIN r : r[k] \in S => k <= j
<1> DEFINE n == Len(r)
           B == {k \in Nat : n - k \in DOMAIN r /\ r[n - k] \in S /\ i <= n - k}
<1>1. n \in Nat /\ DOMAIN r = 1..n /\ i \in 1..n
  OBVIOUS
<1> HIDE DEF n
<1>2. ASSUME NEW x \in 1..n, r[x] \in S, i <= x PROVE n - x \in B
  <2>1. n - x \in Nat /\ n - (n - x) = x
    BY <1>1
  <2>2. QED
    BY <1>1, <1>2, <2>1
<1>3. n - i \in B
  BY <1>1, <1>2
<1>4. B \subseteq Nat
  OBVIOUS
<1>5. PICK k \in B : \A x \in B : ~(x < k)
  BY <1>3, <1>4, LeastNumber
<1>6. k \in Nat /\ n - k \in DOMAIN r /\ r[n - k] \in S /\ i <= n - k
  BY <1>5
<1> HIDE DEF B
<1>7. ASSUME NEW x \in DOMAIN r, r[x] \in S PROVE x <= n - k
  <2>1. CASE x < i
    BY <1>1, <1>6, <2>1
  <2>2. CASE ~(x < i)
    <3>1. i <= x
      BY <1>1, <2>2
    <3>2. ~(n - x < k)
      BY <1>1, <1>2, <1>5, <1>7, <3>1
    <3>3. QED
      BY <1>1, <1>6, <3>2
  <2>3. QED
    BY <2>1, <2>2
<1>8. QED
  BY <1>6, <1>7

\* Of the page's steps, only the arrival of the list ends the wait of a dialog whose
\* upload was accepted, if page and list are there without an error.
LEMMA WaitEnds ==
    ASSUME TenantInv, [TenantNext]_vars, dialog.step = "refetching", dialog' # dialog,
           Mounted', ~query'["modules"].failed
    PROVE  Loaded("modules")
<1> USE DEF TenantInv
<1>0. query \in [Queries -> QueryType] /\ "modules" \in Queries /\ "hook" \in Queries /\ "hook" # "modules"
      /\ \A q \in Queries : q \in {"hook", "modules"}
  BY DEF QueryInv, Queries
<1>1. ASSUME NEW q \in Queries, LoadFails(q) PROVE FALSE
  <2> DEFINE new == [Idle EXCEPT !.data = query[q].data, !.failed = TRUE]
             q2 == [query EXCEPT ![q] = new]
  <2>1. Show(q2, FALSE)
    BY <1>1 DEF LoadFails
  <2>2. new \in QueryType /\ new.failed = TRUE
    BY <1>0 DEF Idle, QueryType, Held
  <2>3. q2 \in [Queries -> QueryType] /\ q2[q] = new
    BY <1>0, <2>2
  <2> HIDE DEF new, q2
  <2>4. query'["hook"] = q2["hook"] /\ query'["modules"].failed = q2["modules"].failed
    BY <2>1, <2>3, ShowQueries
  <2>5. QED
    BY <1>0, <2>2, <2>3, <2>4 DEF Mounted, Content
<1>2. ~Loaded("hook")
  BY <1>0 DEF Loaded, AfterFetch
<1>3. dialog.chosen = None
  BY DEF DialogInv
<1>4. ~(OpenUpload \/ CloseUpload \/ FileChecked \/ NoAnswer \/ BackToVersions \/ Created \/ Exists)
      /\ (\A f \in Modules \cup Broken : ~ChooseFile(f)) /\ \A u \in Uploads : ~Submit(u)
  BY <1>3 DEF OpenUpload, CloseUpload, FileChecked, NoAnswer, BackToVersions, Created, Exists, ChooseFile, Submit
<1>5. ~(PostElsewhere \/ AnsweredElsewhere \/ \E m \in Modules : OpenActivate(m) \/ ShowReason(m) \/ ActivateElsewhere(m))
      /\ ~(CancelActivate \/ ConfirmActivate \/ Poll \/ Activated \/ ActivateFails \/ Activate)
      /\ \A q \in Queries : ~(Refocus(q) \/ Retry(q) \/ Read(q) \/ ReadFails(q))
  BY DEF PostElsewhere, AnsweredElsewhere, OpenActivate, ShowReason, ActivateElsewhere, CancelActivate, ConfirmActivate,
     Poll, Activated, ActivateFails, Activate, Refocus, Retry, Read, ReadFails, pageVars
<1>6. ~UNCHANGED pageVars
  BY DEF pageVars
<1>7. PageNext
  BY <1>6 DEF TenantNext, vars
<1>8. ~User
  BY <1>4, <1>5 DEF User
<1>9. ~Answers
  BY <1>5 DEF Answers
<1>10. Client
  BY <1>5, <1>7, <1>8, <1>9 DEF PageNext
<1>11. \E q \in Queries : Loaded(q)
  BY <1>1, <1>4, <1>5, <1>10 DEF Client
<1>12. QED
  BY <1>0, <1>2, <1>11

PanelAtNewest ==
    \A m \in Modules : Listed(m) =>
        \E i, j \in DOMAIN rows : rows[i] = m /\ rows[j] = Panel.module /\ i <= j

\* A panel that looks at nothing else speaks of the newest listed module.
LEMMA PanelIsNewest == LifecycleInv /\ QueryInv /\ focus = NoFocus => PanelAtNewest
<1> SUFFICES ASSUME LifecycleInv, QueryInv, focus = NoFocus, NEW m \in Modules, Listed(m)
             PROVE  \E i, j \in DOMAIN rows : rows[i] = m /\ rows[j] = Panel.module /\ i <= j
  BY DEF PanelAtNewest
<1> DEFINE S == {x \in Modules : Listed(x)}
<1>1. /\ rows \in Seq(Modules) /\ (\A i, j \in DOMAIN rows : rows[i] = rows[j] => i = j)
      /\ \A x \in Modules : Listed(x) => \E i \in DOMAIN rows : rows[i] = x
  BY DEF Listed, QueryInv, Past, Table, LifecycleInv
<1>2. PICK i \in DOMAIN rows : rows[i] = m
  BY <1>1
<1>3. PICK j \in DOMAIN rows : rows[j] \in S /\ i <= j /\ \A k \in DOMAIN rows : rows[k] \in S => k <= j
  BY <1>1, <1>2, LastListed
<1>4. \A k \in DOMAIN rows : rows[k] \in Modules /\ k \in Nat
  BY <1>1
<1>5. Newest(rows[j])
  <2>1. ASSUME NEW k \in DOMAIN rows, NEW l \in DOMAIN rows, rows[k] = rows[j], Listed(rows[l])
        PROVE  l <= k
    <3>1. k = j /\ rows[l] \in S
      BY <1>1, <1>4, <2>1
    <3>2. QED
      BY <1>3, <3>1
  <2>2. QED
    BY <1>3, <2>1 DEF Newest
<1>6. \E x \in Modules : Newest(x)
  BY <1>4, <1>5
<1> DEFINE p == CHOOSE x \in Modules : Newest(x)
<1>7. p \in Modules /\ Newest(p)
  BY <1>6
<1>8. Panel.module = p
  BY <1>6 DEF Panel, NoFocus
<1> HIDE DEF p
<1>9. Listed(p) /\ \A k, l \in DOMAIN rows : rows[k] = p /\ Listed(rows[l]) => l <= k
  BY <1>7 DEF Newest
<1>10. PICK k \in DOMAIN rows : rows[k] = p
  BY <1>1, <1>7, <1>9
<1>11. i <= k
  BY <1>2, <1>9, <1>10
<1>12. QED
  BY <1>2, <1>8, <1>10, <1>11

\* The step that closes the dialog shows the upload, or a newer one.
LEMMA ShownStep ==
    ASSUME TenantInv, TenantInv', [TenantNext]_vars, NEW m \in Modules,
           dialog.step = "refetching", dialog.file = m, dialog' # dialog, Mounted', Table # Unloaded,
           ~(query["modules"].failed)'
    PROVE  /\ Listed(m)'
           /\ \E i, j \in DOMAIN rows : rows[i] = m /\ rows[j] = (Panel.module)' /\ i <= j
<1>1. Loaded("modules")
  BY WaitEnds
<1>2. rows' = rows /\ focus' = NoFocus /\ query["modules"].answer # Unloaded
  BY <1>1 DEF Loaded, AfterFetch, moduleVars
<1>3. Table' = query["modules"].answer
  <2> DEFINE new == [Idle EXCEPT !.data = query["modules"].answer]
             q2 == [query EXCEPT !["modules"] = new]
  <2>1. PICK stale \in BOOLEAN : Show(q2, stale)
    BY <1>1 DEF Loaded
  <2>2. query \in [Queries -> QueryType] /\ "modules" \in Queries
    BY DEF TenantInv, QueryInv, Queries
  <2>3. new \in QueryType /\ new.data = query["modules"].answer
    BY <2>2 DEF Idle, QueryType, Held
  <2>4. q2 \in [Queries -> QueryType] /\ q2["modules"] = new
    BY <2>2, <2>3
  <2> HIDE DEF new, q2
  <2>5. QED
    BY <2>1, <2>3, <2>4, ShowQueries DEF Table
<1>4. Table'[m] # "absent" /\ Table' # Unloaded
  BY <1>2, <1>3 DEF TenantInv, DialogInv, Fresh, Table
<1>5. Listed(m)'
  BY <1>4 DEF Listed
<1>6. (LifecycleInv /\ QueryInv /\ focus = NoFocus => PanelAtNewest)'
  BY PanelIsNewest, PTL
<1>7. PanelAtNewest'
  BY <1>2, <1>6 DEF TenantInv, NoFocus
<1>8. QED
  BY <1>2, <1>5, <1>7 DEF PanelAtNewest

\* Whatever list was on its way when an upload was accepted, and wherever the user
\* looked meanwhile: when the dialog closes, list and panel have the upload.
THEOREM UploadsAreShown == TenantSafety => UploadedIsShown
<1>1. TenantInv /\ TenantInv' /\ [TenantNext]_vars =>
        [\A m \in Modules :
            dialog.step = "refetching" /\ dialog.file = m /\ dialog' # dialog
            /\ Mounted' /\ Table # Unloaded /\ ~(query["modules"].failed)'
            => /\ Listed(m)'
               /\ \E i, j \in DOMAIN rows : rows[i] = m /\ rows[j] = (Panel.module)' /\ i <= j]_vars
  BY ShownStep
<1>2. QED
  BY <1>1, TenantInvariant, PTL DEF TenantSafety, UploadedIsShown

-----------------------------------------------------------------------------
(* The page and the control plane behind it, one system: what the page takes  *)
(* for the lifecycle's own steps is done by handlers, queue and worker.       *)

systemVars == <<vars, workerVars>>

SystemInit == Init /\ queue = <<>> /\ worker = Worker("recovering", None, None)

SystemNext ==
    \/ PageNext /\ UNCHANGED workerVars
    \/ ServerNext /\ UNCHANGED <<active, pageVars>>

SystemSpec == SystemInit /\ [][SystemNext]_systemVars

\* A step of the system is one of the page over the lifecycle, or none, and keeps both
\* invariants.
LEMMA SystemStep ==
    TenantInv /\ ServerInv /\ [SystemNext]_systemVars => TenantInv' /\ ServerInv' /\ [TenantNext]_vars
<1> SUFFICES ASSUME TenantInv, ServerInv, [SystemNext]_systemVars
             PROVE  TenantInv' /\ ServerInv' /\ [TenantNext]_vars
  OBVIOUS
<1>1. CASE PageNext /\ UNCHANGED workerVars
  <2>1. TenantInv'
    BY <1>1, TenantStep DEF TenantNext
  <2>2. WorkerInv' /\ NoModuleForgotten'
    <3>1. CASE Request
      BY <1>1, <3>1, HandlerStep DEF Request
    <3>2. CASE UNCHANGED moduleVars
      BY <1>1, <3>2 DEF moduleVars, workerVars, ServerInv, WorkerInv, NoModuleForgotten
    <3>3. QED
      BY <1>1, <3>1, <3>2, PageModules
  <2>3. QED
    BY <1>1, <2>1, <2>2 DEF TenantInv, ServerInv, TenantNext
<1>2. CASE ServerNext /\ UNCHANGED <<active, pageVars>>
  <2>1. WorkerInv' /\ (LifecycleNext \/ UNCHANGED moduleVars) /\ NoModuleForgotten'
    <3>1. ASSUME NEW u \in Uploads, Store(u) \/ StoreFails(u) \/ Enqueue(u)
          PROVE  WorkerInv' /\ LifecycleNext /\ NoModuleForgotten'
      <4>1. WorkerInv' /\ NoModuleForgotten'
        BY <3>1, HandlerStep DEF Store, StoreFails
      <4>2. LifecycleNext
        BY <3>1 DEF Store, StoreFails, Enqueue, LifecycleNext, Handle
      <4>3. QED
        BY <4>1, <4>2
    <3>2. QED
      BY <1>2, <3>1, WorkerStep DEF ServerNext, Handlers
  <2>2. TenantInv'
    BY <1>2, <2>1, TableStep
  <2>3. QED
    BY <1>2, <2>1, <2>2 DEF TenantInv, ServerInv, TenantNext, vars
<1>3. CASE UNCHANGED systemVars
  <2>1. UNCHANGED vars /\ UNCHANGED moduleVars /\ UNCHANGED workerVars
    BY <1>3 DEF systemVars, vars
  <2>2. ServerInv' /\ TenantInv'
    BY <2>1, TenantStep DEF ServerInv, LifecycleInv, WorkerInv, NoModuleForgotten, moduleVars, workerVars
  <2>3. QED
    BY <2>1, <2>2
<1>4. QED
  BY <1>1, <1>2, <1>3 DEF SystemNext

\* The real handlers, queue and worker, with their restarts, give the page no more to
\* see than ModuleLifecycle does, so that all that is shown of the page over the
\* promise holds over the code; and they forget no module while the page is at work.
THEOREM PageOverServer == SystemSpec => TenantSafety /\ []NoModuleForgotten
<1>1. SystemInit => Init /\ TenantInv /\ ServerInv
  <2> SUFFICES ASSUME SystemInit PROVE TenantInv /\ ServerInv
    BY DEF SystemInit
  <2>1. TenantInv
    BY TenantStart DEF SystemInit
  <2>2. worker.at = "recovering" /\ worker.module = None /\ queue = <<>>
    BY WorkerFields DEF SystemInit
  <2>3. QED
    BY <2>1, <2>2 DEF TenantInv, ServerInv, WorkerInv, NoModuleForgotten, InHands
<1>2. TenantInv /\ ServerInv /\ [SystemNext]_systemVars => TenantInv' /\ ServerInv' /\ [TenantNext]_vars
  BY SystemStep
<1>3. ServerInv => NoModuleForgotten
  BY DEF ServerInv
<1>4. QED
  BY <1>1, <1>2, <1>3, PTL DEF SystemSpec, TenantSafety
===============================================================================
