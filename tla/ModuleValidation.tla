--------------------------- MODULE ModuleValidation ---------------------------
(* The control plane's life of the modules of one tenant and hook: uploads     *)
(* that are handled concurrently, and the single worker that has the data      *)
(* plane validate one module at a time.  The queue is in memory only; a        *)
(* restart loses it, and the worker rebuilds it from the table.                *)
(* The table, the handlers, and the promise to keep are ModuleLifecycle's.      *)
EXTENDS ModuleLifecycle

VARIABLES
    queue,    \* ModuleValidator._queue
    worker    \* ModuleValidator._task

workerVars == <<queue, worker>>
serverVars == <<moduleVars, workerVars>>

Worker(at, m, verdict) == [at |-> at, module |-> m, verdict |-> verdict]
Ready == Worker("idle", None, None)

ServerInit ==
    /\ LifecycleInit
    /\ queue = <<>> /\ worker = Worker("recovering", None, None)

-----------------------------------------------------------------------------
(* Uploads.                                                                  *)

PostUpload(u, m) == Post(u, m) /\ UNCHANGED workerVars

ForgetUpload(u) == Forget(u) /\ UNCHANGED workerVars

Store(u) == Insert(u) /\ UNCHANGED workerVars

StoreFails(u) == Fail(u) /\ UNCHANGED workerVars

\* The commit has returned: the module is queued and the answer sent.
Enqueue(u) ==
    /\ Confirm(u)
    /\ queue' = Append(queue, upload[u].module)
    /\ UNCHANGED worker

-----------------------------------------------------------------------------
(* The worker.  Whatever goes wrong in a validation puts the module back at   *)
(* the end of the queue; a data plane that does not answer, or not with a     *)
(* report, is asked again, while the other modules wait.                      *)

\* The stored modules of a set, oldest first.
OldestFirst(S) ==
    LET upTo[n \in 0..Len(rows)] ==
            IF n = 0 THEN <<>>
            ELSE IF rows[n] \in S THEN Append(upTo[n - 1], rows[n]) ELSE upTo[n - 1]
    IN  upTo[Len(rows)]

RecoverUploaded ==
    /\ worker.at = "recovering"
    /\ queue' = queue \o OldestFirst({m \in Modules : status[m] = "uploaded"})
    /\ worker' = Ready
    /\ UNCHANGED moduleVars

\* _recover_pending; a failing read is tried again.
Recover ==
    /\ worker.at = "recovering"
    /\ queue' = queue \o OldestFirst({m \in Modules : status[m] \in Pending})
    /\ worker' = Ready
    /\ UNCHANGED moduleVars

Take ==
    /\ worker = Ready /\ queue # <<>>
    /\ worker' = Worker("taken", Head(queue), None)
    /\ queue' = Tail(queue)
    /\ UNCHANGED moduleVars

ClaimAgain ==
    /\ worker.at = "taken"
    /\ status' = [status EXCEPT ![worker.module] = "validating"]
    /\ worker' = Worker("asking", worker.module, None)
    /\ UNCHANGED <<rows, upload, queue>>

\* A module that has its verdict by now was queued twice, and is passed over.
Claim ==
    LET m == worker.module
    IN  /\ worker.at = "taken"
        /\ IF status[m] \in Pending
           THEN /\ status' = [status EXCEPT ![m] = "validating"]
                /\ worker' = Worker("asking", m, None)
           ELSE worker' = Ready /\ UNCHANGED status
        /\ UNCHANGED <<rows, upload, queue>>

\* The data plane's report on the module, with the hook and config of now.
Report(verdict) ==
    /\ worker.at = "asking"
    /\ worker' = Worker("judged", worker.module, verdict)
    /\ UNCHANGED <<moduleVars, queue>>

Finish ==
    LET m == worker.module
    IN  /\ worker.at = "judged"
        /\ status' = IF status[m] = "validating"
                     THEN [status EXCEPT ![m] = worker.verdict] ELSE status
        /\ worker' = Ready
        /\ UNCHANGED <<rows, upload, queue>>

\* The database fails a transaction of _validate_until_answer.
Trouble ==
    /\ worker.at \in {"taken", "asking", "judged"}
    /\ queue' = Append(queue, worker.module)
    /\ worker' = Ready
    /\ UNCHANGED moduleVars

-----------------------------------------------------------------------------

\* The process stops, at any point, and starts: requests and queue are gone.
Restart ==
    /\ Lose
    /\ queue' = <<>> /\ worker' = Worker("recovering", None, None)

Handlers == \E u \in Uploads : Store(u) \/ StoreFails(u) \/ Enqueue(u)
Validate == Recover \/ Take \/ Claim \/ (\E v \in Verdicts : Report(v)) \/ Finish

ServerNext == Handlers \/ Validate \/ Trouble \/ Restart

\* Handlers and worker run; restarts, failing transactions and an unreachable
\* data plane may recur forever, but not so that one of the steps, possible again
\* and again, never succeeds.
ServerFairness ==
    /\ \A u \in Uploads : WF_serverVars(Store(u) \/ StoreFails(u) \/ Enqueue(u))
    /\ SF_serverVars(Recover) /\ SF_serverVars(Take) /\ SF_serverVars(Claim) /\ SF_serverVars(Finish)
    /\ SF_serverVars(\E w \in Verdicts : Report(w))

ValidationNext ==
    ServerNext \/ \E u \in Uploads : ForgetUpload(u) \/ \E m \in Modules : PostUpload(u, m)

ValidationSpec == ServerInit /\ [][ValidationNext]_serverVars /\ ServerFairness

-----------------------------------------------------------------------------

\* No module that waits for its verdict is forgotten: it is in the worker's
\* hands or queue, or its upload is about to queue it, or a recovery will.
NoModuleForgotten ==
    \A m \in Modules : status[m] \in Pending =>
        \/ worker.at = "recovering" \/ worker.module = m
        \/ \E i \in DOMAIN queue : queue[i] = m
        \/ \E u \in Uploads : upload[u] = [at |-> "inserted", module |-> m]

\* The queue and its worker keep the promise of ModuleLifecycle: whatever is
\* queued twice or validated again after a restart, a verdict is final, and every
\* stored module gets one, through restarts between its row, its place in the
\* queue, its report and the commit of that.
KeepsPromise == Lifecycle
===============================================================================
