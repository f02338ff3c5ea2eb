---------------------------- MODULE ModuleLifecycle ----------------------------
(* What the control plane promises about the modules of one tenant and hook,   *)
(* whatever its queue, its worker and its restarts do (ModuleValidation shows  *)
(* that they keep the promise): a content is stored once, an upload is         *)
(* answered by what became of it or not at all, and a stored module gets one   *)
(* verdict.                                                                    *)
EXTENDS Naturals, Sequences

CONSTANTS
    Modules,   \* contents that may be uploaded, by their hash
    Uploads,   \* bound: the upload requests there may be at a time
    None

ASSUME NoneAssumption == None \notin Modules \cup Uploads

Verdicts == {"validated", "rejected"}
Pending == {"uploaded", "validating"}

VARIABLES
    rows,     \* the modules of the table, oldest first
    status,   \* their status, "absent" for the others
    upload    \* the handlers of POST .../modules

moduleVars == <<rows, status, upload>>

Answer(outcome) == [at |-> outcome, module |-> None]
Unused == Answer("unused")

LifecycleInit ==
    /\ rows = <<>> /\ status = [m \in Modules |-> "absent"]
    /\ upload = [u \in Uploads |-> Unused]

Post(u, m) ==
    /\ upload[u] = Unused
    /\ upload' = [upload EXCEPT ![u] = [at |-> "sent", module |-> m]]
    /\ UNCHANGED <<rows, status>>

\* The client has its answer, or waits for none.
Forget(u) ==
    /\ upload[u].at \in {"created", "exists", "lost"}
    /\ upload' = [upload EXCEPT ![u] = Unused]
    /\ UNCHANGED <<rows, status>>

\* The object is stored, then the row inserted and committed; a content the
\* tenant has uploaded for the hook before is refused.
Insert(u) ==
    LET m == upload[u].module
    IN  /\ upload[u].at = "sent"
        /\ IF status[m] = "absent"
           THEN /\ status' = [status EXCEPT ![m] = "uploaded"]
                /\ rows' = Append(rows, m)
                /\ upload' = [upload EXCEPT ![u].at = "inserted"]
           ELSE /\ upload' = [upload EXCEPT ![u] = Answer("exists")]
                /\ UNCHANGED <<rows, status>>

\* The object storage or the transaction fails: the object, if it is there, has no
\* row, and nothing else is changed.
Fail(u) ==
    /\ upload[u].at = "sent"
    /\ upload' = [upload EXCEPT ![u] = Answer("lost")]
    /\ UNCHANGED <<rows, status>>

\* The commit has returned: the answer is sent.
Confirm(u) ==
    /\ upload[u].at = "inserted"
    /\ upload' = [upload EXCEPT ![u] = Answer("created")]
    /\ UNCHANGED <<rows, status>>

\* The process stopped with these requests in it.
Lose ==
    /\ upload' = [u \in Uploads |->
                    IF upload[u].at \in {"sent", "inserted"}
                    THEN Answer("lost") ELSE upload[u]]
    /\ UNCHANGED <<rows, status>>

Begin(m) ==
    /\ status[m] = "uploaded"
    /\ status' = [status EXCEPT ![m] = "validating"]
    /\ UNCHANGED <<rows, upload>>

Judge(m) ==
    /\ status[m] = "validating"
    /\ \E v \in Verdicts : status' = [status EXCEPT ![m] = v]
    /\ UNCHANGED <<rows, upload>>

Handle == \E u \in Uploads : Insert(u) \/ Fail(u) \/ Confirm(u)

LifecycleNext == Handle \/ Lose \/ \E m \in Modules : Begin(m) \/ Judge(m)

LifecycleFairness ==
    \A m \in Modules : WF_moduleVars(Begin(m)) /\ WF_moduleVars(Judge(m))

\* What may happen, without the promise that every module gets its verdict.
LifecycleSafety ==
    /\ LifecycleInit
    /\ [][LifecycleNext \/ \E u \in Uploads : Forget(u) \/ \E m \in Modules : Post(u, m)]_moduleVars

Lifecycle == LifecycleSafety /\ LifecycleFairness
================================================================================
