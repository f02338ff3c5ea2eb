-------------------------- MODULE InvocationProofs --------------------------
(***************************************************************************)
(* Proofs about Invocation: a script runs what the gateway resolved, and   *)
(* the outcome blames the one who was first, for every timeout, deadline,  *)
(* number of versions and length of time.                                  *)
(*                                                                         *)
(* The second rests on two clocks that are read in an order: the watch is  *)
(* set before the context of the call is derived, so that its limit is the *)
(* earlier one (Watched).                                                  *)
(***************************************************************************)
EXTENDS Invocation, TLAPS

-----------------------------------------------------------------------------
(* The inductive invariant.                                                *)

\* Nothing is answered before the end.
Unanswered == at # "out" => store \in Snapshots /\ outcome = "none" /\ reason = ""

\* A lease is held from Acquire to the end of the call, and the script starts
\* when Instance.Call is entered.
Stages ==
    /\ at \in {"resolved", "compiled", "leased", "watched", "running", "ended"} =>
          run = pin
    /\ started => run = pin
    /\ at \in {"running", "ended"} => started
    /\ at \in {"pinned", "resolved", "compiled", "leased", "watched"} =>
          ~started /\ result = "none"
    /\ at = "running" => result = "none"
    /\ at = "ended" => result # "none"
    /\ lease = "held" <=> at \in {"leased", "watched", "running", "ended"}

\* The limit of the watch passes first, and an end of the caller's context that
\* came after the limit was noted after it.
Watched ==
    /\ endedAt # None => ctxErr # "none"
    /\ at = "running" => (cause # "none" \/ ctxErr = "none")
    /\ at \in {"running", "ended"} => hookDeadline <= callDeadline
    /\ at = "watched" => hookDeadline <= now + Timeout
    /\ at \in {"running", "ended"} /\ cause = "hook" =>
          /\ callDeadline <= deadline
          /\ callDeadline <= now
          /\ endedAt # None => callDeadline <= endedAt
    /\ at = "ended" /\ result = "timeout" => cause # "none"

InvocationInv == TypeOK /\ Unanswered /\ Stages /\ Watched /\ BlameIsTrue

\* The types are inductive.
LEMMA InvocationTypes == TypeOK /\ Unanswered /\ [Next]_vars => TypeOK'
<1> SUFFICES ASSUME TypeOK, Unanswered, [Next]_vars PROVE TypeOK'
  OBVIOUS
<1> USE ParametersAssumption DEF TypeOK, vars, config, time, watch, said
<1>1. ASSUME Update PROVE TypeOK'
  BY <1>1 DEF Update
<1>2. ASSUME OtherCall PROVE TypeOK'
  BY <1>2 DEF OtherCall, Snapshots
<1>3. ASSUME Tick PROVE TypeOK'
  BY <1>3 DEF Tick, Times
<1>4. ASSUME DeadlinePasses PROVE TypeOK'
  BY <1>4 DEF DeadlinePasses, ContextEnds
<1>5. ASSUME CallerGoes PROVE TypeOK'
  BY <1>5 DEF CallerGoes, ContextEnds
<1>6. ASSUME Note PROVE TypeOK'
  BY <1>6 DEF Note, Times
<1>7. ASSUME NEW d \in Deadlines, Invoke(d) PROVE TypeOK'
  <2>1. store \in Snapshots
    BY <1>7 DEF Invoke
  <2>2. Idle \in Resolved /\ [def |-> store.def, hash |-> store.hash, cv |-> store.cv] \in Resolved
    BY <2>1 DEF Snapshots, Resolved, Idle
  <2>3. pin' \in Resolved /\ run' \in Resolved
    BY <1>7, <2>2 DEF Invoke
  <2>4. outcome' \in Outcomes /\ reason' \in Reasons /\ at' \in {"pinned", "out"}
    BY <1>7 DEF Invoke, Answer, Outcomes, Reasons
  <2>5. deadline' \in Nat
    <3>1. d \in Nat /\ 0 \in Nat
      OBVIOUS
    <3>2. deadline' \in {d, 0}
      BY <1>7 DEF Invoke
    <3>3. QED
      BY <3>1, <3>2
  <2>6. 0 \in Times
    BY DEF Times
  <2>7. QED
    BY <1>7, <2>3, <2>4, <2>5, <2>6 DEF Invoke
<1>8. ASSUME Resolve PROVE TypeOK'
  <2>1. CASE pin.def \in seen \cup {store.def} /\ store.bound /\ store.cv = pin.cv
    <3>1. /\ at = "pinned" /\ at' = "resolved" /\ seen' = seen \cup {store.def}
          /\ run' = [def |-> pin.def, hash |-> pin.hash, cv |-> store.cv]
          /\ UNCHANGED <<store, said, pin, time, watch, result, started, lease>>
      BY <1>8, <2>1 DEF Resolve
    <3>2. run' \in Resolved
      BY <2>1, <3>1 DEF Resolved
    <3>3. seen' \subseteq Versions
      BY <3>1 DEF Unanswered, Snapshots
    <3>4. QED
      BY <3>1, <3>2, <3>3
  <2>2. CASE ~(pin.def \in seen \cup {store.def} /\ store.bound /\ store.cv = pin.cv)
    <3>1. /\ at = "pinned" /\ at' = "out" /\ seen' = seen \cup {store.def}
          /\ outcome' = "unavailable" /\ reason' = "stale_config" /\ run' = run
          /\ UNCHANGED <<store, pin, time, watch, result, started, lease>>
      BY <1>8, <2>2 DEF Resolve, Answer
    <3>2. seen' \subseteq Versions
      BY <3>1 DEF Unanswered, Snapshots
    <3>3. outcome' \in Outcomes /\ reason' \in Reasons
      BY <3>1 DEF Outcomes, Reasons
    <3>4. QED
      BY <3>1, <3>2, <3>3
  <2>3. QED
    BY <2>1, <2>2
<1>9. ASSUME GetModule PROVE TypeOK'
  <2>1. outcome' \in Outcomes /\ reason' \in Reasons
    <3>1. CASE NotStarted
      BY <1>9, <3>1 DEF NotStarted, Answer, Outcomes, Reasons
    <3>2. CASE ~NotStarted
      BY <1>9, <3>2 DEF GetModule, Answer, Outcomes, Reasons
    <3>3. QED
      BY <3>1, <3>2
  <2>2. at' \in {"out", "compiled", "leased", "watched"}
    BY <1>9 DEF GetModule, NotStarted, Answer
  <2>3. QED
    BY <1>9, <2>1, <2>2 DEF GetModule
<1>10. ASSUME Acquire PROVE TypeOK'
  <2>1. outcome' \in Outcomes /\ reason' \in Reasons
    <3>1. CASE NotStarted
      BY <1>10, <3>1 DEF NotStarted, Answer, Outcomes, Reasons
    <3>2. CASE ~NotStarted
      BY <1>10, <3>2 DEF Acquire, Answer, Outcomes, Reasons
    <3>3. QED
      BY <3>1, <3>2
  <2>2. at' \in {"out", "compiled", "leased", "watched"}
    BY <1>10 DEF Acquire, NotStarted, Answer
  <2>3. QED
    BY <1>10, <2>1, <2>2 DEF Acquire
<1>11. ASSUME Watch PROVE TypeOK'
  <2>1. outcome' \in Outcomes /\ reason' \in Reasons
    <3>1. CASE NotStarted
      BY <1>11, <3>1 DEF NotStarted, Answer, Outcomes, Reasons
    <3>2. CASE ~NotStarted
      BY <1>11, <3>2 DEF Watch, Answer, Outcomes, Reasons
    <3>3. QED
      BY <3>1, <3>2
  <2>2. at' \in {"out", "compiled", "leased", "watched"}
    BY <1>11 DEF Watch, NotStarted, Answer
  <2>3. QED
    BY <1>11, <2>1, <2>2 DEF Watch, Times
<1>12. ASSUME Start PROVE TypeOK'
  BY <1>12 DEF Start, Times
<1>13. ASSUME LimitPasses PROVE TypeOK'
  BY <1>13 DEF LimitPasses
<1>14. ASSUME ScriptEnds PROVE TypeOK'
  BY <1>14 DEF ScriptEnds
<1>15. ASSUME ReportFailure PROVE TypeOK'
  BY <1>15 DEF ReportFailure, CallerFirst, Answer, Outcomes, Reasons
<1>16. ASSUME ReportOutput PROVE TypeOK'
  BY <1>16 DEF ReportOutput, Answer, Outcomes, Reasons
<1>17. ASSUME Panic PROVE TypeOK'
  BY <1>17 DEF Panic
<1>18. CASE UNCHANGED vars
  BY <1>18
<1>19. QED
  BY <1>1, <1>2, <1>3, <1>4, <1>5, <1>6, <1>7, <1>8, <1>9, <1>10, <1>11, <1>12,
     <1>13, <1>14, <1>15, <1>16, <1>17, <1>18 DEF Next

\* A call reads a snapshot and is answered once.
LEMMA UnansweredStep == TypeOK /\ Unanswered /\ [Next]_vars => Unanswered'
<1> SUFFICES ASSUME TypeOK, Unanswered, [Next]_vars PROVE Unanswered'
  OBVIOUS
<1> USE ParametersAssumption DEF TypeOK, Unanswered, vars, config, time, watch, said
<1>1. ASSUME Update PROVE Unanswered'
  BY <1>1 DEF Update
<1>2. ASSUME OtherCall PROVE Unanswered'
  BY <1>2 DEF OtherCall
<1>3. ASSUME Tick PROVE Unanswered'
  BY <1>3 DEF Tick
<1>4. ASSUME DeadlinePasses PROVE Unanswered'
  BY <1>4 DEF DeadlinePasses, ContextEnds
<1>5. ASSUME CallerGoes PROVE Unanswered'
  BY <1>5 DEF CallerGoes, ContextEnds
<1>6. ASSUME Note PROVE Unanswered'
  BY <1>6 DEF Note
<1>7. ASSUME NEW d \in Deadlines, Invoke(d) PROVE Unanswered'
  BY <1>7 DEF Invoke, Answer
<1>8. ASSUME Resolve PROVE Unanswered'
  BY <1>8 DEF Resolve, Answer
<1>9. ASSUME GetModule PROVE Unanswered'
  BY <1>9 DEF GetModule, NotStarted, Answer
<1>10. ASSUME Acquire PROVE Unanswered'
  BY <1>10 DEF Acquire, NotStarted, Answer
<1>11. ASSUME Watch PROVE Unanswered'
  BY <1>11 DEF Watch, NotStarted, Answer
<1>12. ASSUME Start PROVE Unanswered'
  BY <1>12 DEF Start
<1>13. ASSUME LimitPasses PROVE Unanswered'
  BY <1>13 DEF LimitPasses
<1>14. ASSUME ScriptEnds PROVE Unanswered'
  BY <1>14 DEF ScriptEnds
<1>15. ASSUME ReportFailure PROVE Unanswered'
  BY <1>15 DEF ReportFailure, CallerFirst, Answer
<1>16. ASSUME ReportOutput PROVE Unanswered'
  BY <1>16 DEF ReportOutput, Answer
<1>17. ASSUME Panic PROVE Unanswered'
  BY <1>17 DEF Panic
<1>18. CASE UNCHANGED vars
  BY <1>18
<1>19. QED
  BY <1>1, <1>2, <1>3, <1>4, <1>5, <1>6, <1>7, <1>8, <1>9, <1>10, <1>11, <1>12,
     <1>13, <1>14, <1>15, <1>16, <1>17, <1>18 DEF Next

\* What the gateway pinned is what the executor goes on with.
LEMMA StagesStep == TypeOK /\ Stages /\ [Next]_vars => Stages'
<1> SUFFICES ASSUME TypeOK, Stages, [Next]_vars PROVE Stages'
  OBVIOUS
<1> USE ParametersAssumption DEF TypeOK, Stages, vars, config, time, watch, said
<1>1. ASSUME Update PROVE Stages'
  BY <1>1 DEF Update
<1>2. ASSUME OtherCall PROVE Stages'
  BY <1>2 DEF OtherCall
<1>3. ASSUME Tick PROVE Stages'
  BY <1>3 DEF Tick
<1>4. ASSUME DeadlinePasses PROVE Stages'
  BY <1>4 DEF DeadlinePasses, ContextEnds
<1>5. ASSUME CallerGoes PROVE Stages'
  BY <1>5 DEF CallerGoes, ContextEnds
<1>6. ASSUME Note PROVE Stages'
  BY <1>6 DEF Note
<1>7. ASSUME NEW d \in Deadlines, Invoke(d) PROVE Stages'
  BY <1>7 DEF Invoke, Answer
<1>8. ASSUME Resolve PROVE Stages'
  <2>1. CASE pin.def \in seen \cup {store.def} /\ store.bound /\ store.cv = pin.cv
    <3>1. run' = [def |-> pin.def, hash |-> pin.hash, cv |-> pin.cv]
      BY <1>8, <2>1 DEF Resolve
    <3>2. run' = pin
      BY <3>1 DEF Resolved
    <3>3. QED
      BY <1>8, <2>1, <3>2 DEF Resolve
  <2>2. CASE ~(pin.def \in seen \cup {store.def} /\ store.bound /\ store.cv = pin.cv)
    BY <1>8, <2>2 DEF Resolve, Answer
  <2>3. QED
    BY <2>1, <2>2
<1>9. ASSUME GetModule PROVE Stages'
  BY <1>9 DEF GetModule, NotStarted, Answer
<1>10. ASSUME Acquire PROVE Stages'
  BY <1>10 DEF Acquire, NotStarted, Answer
<1>11. ASSUME Watch PROVE Stages'
  BY <1>11 DEF Watch, NotStarted, Answer
<1>12. ASSUME Start PROVE Stages'
  BY <1>12 DEF Start
<1>13. ASSUME LimitPasses PROVE Stages'
  BY <1>13 DEF LimitPasses
<1>14. ASSUME ScriptEnds PROVE Stages'
  BY <1>14 DEF ScriptEnds
<1>15. ASSUME ReportFailure PROVE Stages'
  BY <1>15 DEF ReportFailure, CallerFirst, Answer
<1>16. ASSUME ReportOutput PROVE Stages'
  BY <1>16 DEF ReportOutput, Answer
<1>17. ASSUME Panic PROVE Stages'
  BY <1>17 DEF Panic
<1>18. CASE UNCHANGED vars
  BY <1>18
<1>19. QED
  BY <1>1, <1>2, <1>3, <1>4, <1>5, <1>6, <1>7, <1>8, <1>9, <1>10, <1>11, <1>12,
     <1>13, <1>14, <1>15, <1>16, <1>17, <1>18 DEF Next

\* What the comparisons below need of the types.
Clocks ==
    /\ now \in Nat /\ deadline \in Nat /\ hookDeadline \in Nat /\ callDeadline \in Nat
    /\ endedAt \in Nat \cup {None}
    /\ ctxErr \in {"none", "canceled", "deadline"}
    /\ cause \in {"none", "early", "canceled", "deadline", "hook"}

LEMMA ClocksTyped == TypeOK => Clocks
  BY ParametersAssumption DEF TypeOK, Clocks, Times

\* The two limits are set in their order.
LEMMA WatchedStep == Clocks /\ Stages /\ Watched /\ [Next]_vars => Watched'
<1> SUFFICES ASSUME Clocks, Stages, Watched, [Next]_vars PROVE Watched'
  OBVIOUS
<1> USE ParametersAssumption DEF Clocks, Stages, Watched, vars, config, time, watch, said
<1>1. ASSUME Update PROVE Watched'
  BY <1>1 DEF Update
<1>2. ASSUME OtherCall PROVE Watched'
  BY <1>2 DEF OtherCall
<1>3. ASSUME Tick PROVE Watched'
  BY <1>3 DEF Tick
<1>4. ASSUME DeadlinePasses PROVE Watched'
  BY <1>4 DEF DeadlinePasses, ContextEnds
<1>5. ASSUME CallerGoes PROVE Watched'
  BY <1>5 DEF CallerGoes, ContextEnds
<1>6. ASSUME Note PROVE Watched'
  BY <1>6 DEF Note
<1>7. ASSUME NEW d \in Deadlines, Invoke(d) PROVE Watched'
  BY <1>7 DEF Invoke, Answer
<1>8. ASSUME Resolve PROVE Watched'
  BY <1>8 DEF Resolve, Answer
<1>9. ASSUME GetModule PROVE Watched'
  BY <1>9 DEF GetModule, NotStarted, Answer
<1>10. ASSUME Acquire PROVE Watched'
  BY <1>10 DEF Acquire, NotStarted, Answer
<1>11. ASSUME Watch PROVE Watched'
  BY <1>11 DEF Watch, NotStarted, Answer
<1>12. ASSUME Start PROVE Watched'
  BY <1>12 DEF Start
<1>13. ASSUME LimitPasses PROVE Watched'
  BY <1>13 DEF LimitPasses
<1>14. ASSUME ScriptEnds PROVE Watched'
  BY <1>14 DEF ScriptEnds
<1>15. ASSUME ReportFailure PROVE Watched'
  BY <1>15 DEF ReportFailure, CallerFirst, Answer
<1>16. ASSUME ReportOutput PROVE Watched'
  BY <1>16 DEF ReportOutput, Answer
<1>17. ASSUME Panic PROVE Watched'
  BY <1>17 DEF Panic
<1>18. CASE UNCHANGED vars
  BY <1>18
<1>19. QED
  BY <1>1, <1>2, <1>3, <1>4, <1>5, <1>6, <1>7, <1>8, <1>9, <1>10, <1>11, <1>12,
     <1>13, <1>14, <1>15, <1>16, <1>17, <1>18 DEF Next

\* The end of the context that the hook ended came after the limit of the watch.
LEMMA HookWasLast ==
    ASSUME Clocks, Watched, at = "ended", result = "timeout", cause = "hook"
    PROVE  hookDeadline <= deadline /\ (endedAt # None => hookDeadline <= endedAt)
<1>1. hookDeadline <= callDeadline /\ callDeadline <= deadline
  BY DEF Watched
<1>2. endedAt # None => callDeadline <= endedAt
  BY DEF Watched
<1>3. /\ hookDeadline \in Nat /\ callDeadline \in Nat /\ deadline \in Nat
      /\ endedAt # None => endedAt \in Nat
  BY DEF Clocks
<1>4. QED
  BY <1>1, <1>2, <1>3

\* callerFirst finds the caller to have been first only if it was.
LEMMA CallerWasFirst ==
    ASSUME Clocks, Watched, at = "ended", result = "timeout",
           CallerFirst \in {"canceled", "deadline"}
    PROVE  cause \in {"early", "canceled", "deadline"}
<1>1. deadline < hookDeadline \/ (endedAt # None /\ endedAt < hookDeadline)
  BY DEF CallerFirst
<1>2. /\ hookDeadline \in Nat /\ deadline \in Nat
      /\ endedAt # None => endedAt \in Nat
  BY DEF Clocks
<1>3. ASSUME cause = "hook" PROVE FALSE
  <2>1. hookDeadline <= deadline /\ (endedAt # None => hookDeadline <= endedAt)
    BY <1>3, HookWasLast
  <2>2. QED
    BY <1>1, <1>2, <2>1
<1>4. cause # "none" /\ cause \in {"none", "early", "canceled", "deadline", "hook"}
  BY DEF Watched, Clocks
<1>5. QED
  BY <1>3, <1>4

\* An outcome is decided where the call ends, from what ended first.
LEMMA BlameStep ==
    Clocks /\ Unanswered /\ Stages /\ Watched /\ BlameIsTrue /\ [Next]_vars => BlameIsTrue'
<1> SUFFICES ASSUME Clocks, Unanswered, Stages, Watched, BlameIsTrue, [Next]_vars
             PROVE  BlameIsTrue'
  OBVIOUS
<1> USE ParametersAssumption DEF Clocks, Unanswered, Stages, Watched, BlameIsTrue,
        vars, config, time, watch, said
<1>1. ASSUME Update PROVE BlameIsTrue'
  BY <1>1 DEF Update
<1>2. ASSUME OtherCall PROVE BlameIsTrue'
  BY <1>2 DEF OtherCall
<1>3. ASSUME Tick PROVE BlameIsTrue'
  BY <1>3 DEF Tick
<1>4. ASSUME DeadlinePasses PROVE BlameIsTrue'
  BY <1>4 DEF DeadlinePasses, ContextEnds
<1>5. ASSUME CallerGoes PROVE BlameIsTrue'
  BY <1>5 DEF CallerGoes, ContextEnds
<1>6. ASSUME Note PROVE BlameIsTrue'
  BY <1>6 DEF Note
<1>7. ASSUME NEW d \in Deadlines, Invoke(d) PROVE BlameIsTrue'
  <2>1. CASE at' = "pinned"
    BY <2>1
  <2>2. CASE outcome' = "no_handler" /\ reason' = ""
    BY <1>7, <2>2 DEF Invoke
  <2>3. QED
    BY <1>7, <2>1, <2>2 DEF Invoke, Answer
<1>8. ASSUME Resolve PROVE BlameIsTrue'
  BY <1>8 DEF Resolve, Answer
<1>9. ASSUME GetModule PROVE BlameIsTrue'
  BY <1>9 DEF GetModule, NotStarted, Answer
<1>10. ASSUME Acquire PROVE BlameIsTrue'
  BY <1>10 DEF Acquire, NotStarted, Answer
<1>11. ASSUME Watch PROVE BlameIsTrue'
  BY <1>11 DEF Watch, NotStarted, Answer
<1>12. ASSUME Start PROVE BlameIsTrue'
  BY <1>12 DEF Start
<1>13. ASSUME LimitPasses PROVE BlameIsTrue'
  BY <1>13 DEF LimitPasses
<1>14. ASSUME ScriptEnds PROVE BlameIsTrue'
  BY <1>14 DEF ScriptEnds
<1>15. ASSUME ReportFailure PROVE BlameIsTrue'
  <2>1. /\ at = "ended" /\ result # "ok" /\ lease' = "retired" /\ started
        /\ UNCHANGED <<cause, result, started>>
    BY <1>15 DEF ReportFailure
  <2>2. CASE result = "timeout" /\ CallerFirst = "canceled"
            /\ outcome' = "unavailable" /\ reason' = "caller_canceled"
    <3>1. cause \in {"early", "canceled", "deadline"}
      BY <2>1, <2>2, CallerWasFirst
    <3>2. QED
      BY <2>1, <2>2, <3>1
  <2>3. CASE result = "timeout" /\ CallerFirst = "deadline"
            /\ outcome' = "timeout" /\ reason' = "caller_deadline"
    <3>1. cause \in {"early", "canceled", "deadline"}
      BY <2>1, <2>3, CallerWasFirst
    <3>2. QED
      BY <2>1, <2>3, <3>1
  <2>4. CASE /\ outcome' \in {"timeout", "handler_error"}
             /\ reason' \in {"", "trap", "guest_error", "internal"}
    BY <2>1, <2>4
  <2>5. QED
    BY <1>15, <2>2, <2>3, <2>4 DEF ReportFailure, Answer
<1>16. ASSUME ReportOutput PROVE BlameIsTrue'
  <2>1. /\ at = "ended" /\ result = "ok" /\ lease' = "healthy" /\ started
        /\ UNCHANGED <<cause, result, started>>
    BY <1>16 DEF ReportOutput
  <2>2. /\ outcome' \in {"ok", "handler_error", "unavailable"}
        /\ reason' \in {"", "invalid_output", "invalid_effect", "internal"}
    BY <1>16 DEF ReportOutput, Answer
  <2>3. QED
    BY <2>1, <2>2
<1>17. ASSUME Panic PROVE BlameIsTrue'
  BY <1>17 DEF Panic
<1>18. CASE UNCHANGED vars
  BY <1>18
<1>19. QED
  BY <1>1, <1>2, <1>3, <1>4, <1>5, <1>6, <1>7, <1>8, <1>9, <1>10, <1>11, <1>12,
     <1>13, <1>14, <1>15, <1>16, <1>17, <1>18 DEF Next

LEMMA InvocationInvHolds == Spec => []InvocationInv
<1>1. ASSUME Init PROVE InvocationInv
  <2>1. TypeOK
    <3>1. Idle \in Resolved /\ 0 \in Times /\ 0 \in Nat
      BY ParametersAssumption DEF Idle, Resolved, Times
    <3>2. /\ store \in {None} /\ seen = {} /\ at = "out" /\ pin \in Resolved /\ run \in Resolved
          /\ now \in Times /\ deadline \in Nat /\ hookDeadline \in Nat /\ callDeadline \in Nat
      BY <1>1, <3>1 DEF Init
    <3>3. QED
      BY <1>1, <3>2 DEF Init, TypeOK, Outcomes, Reasons
  <2>2. Unanswered /\ Stages /\ Watched /\ BlameIsTrue
    BY <1>1 DEF Init, Unanswered, Stages, Watched, BlameIsTrue
  <2>3. QED
    BY <2>1, <2>2 DEF InvocationInv
<1>2. InvocationInv /\ [Next]_vars => InvocationInv'
  BY InvocationTypes, ClocksTyped, UnansweredStep, StagesStep, WatchedStep,
     BlameStep
     DEF InvocationInv
<1>3. QED
  BY <1>1, <1>2, PTL DEF Spec

-----------------------------------------------------------------------------
(* The theorems.                                                           *)

\* Every state of the call is well typed, from Gateway.Invoke to its outcome.
THEOREM InvocationTypeCorrect == Spec => []TypeOK
  BY InvocationInvHolds, PTL DEF InvocationInv

\* The script Executor.run starts is the one the gateway answered for, however
\* far the executor's own snapshot has moved.
THEOREM ScriptsRunWhatWasPinned == Spec => []RunsWhatWasPinned
<1>1. InvocationInv => RunsWhatWasPinned
  BY DEF InvocationInv, Stages, RunsWhatWasPinned
<1>2. QED
  BY <1>1, InvocationInvHolds, PTL

\* callFailure blames the caller only when the caller's context was first, and
\* what may be retried has not run.
THEOREM OutcomesBlameTruly == Spec => []BlameIsTrue
  BY InvocationInvHolds, PTL DEF InvocationInv

=============================================================================
