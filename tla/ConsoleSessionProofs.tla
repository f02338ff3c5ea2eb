------------------------- MODULE ConsoleSessionProofs -------------------------
(* Theorems about the session of a console, for any keys and tokens, any      *)
(* lifetimes and any bounds on time, lost answers and page loads.             *)
EXTENDS ConsoleSession, TLAPS

\* The credentials of the tab's console.
Own == IF page = "operator" THEN Keys ELSE Tokens

\* Requests that carry credentials of this console and name the key they revoke; the
\* server has said yes to no key it never issued.
Sound(S) ==
    /\ S \subseteq Call
    /\ \A c \in S :
        /\ c.token \in Own
        /\ c.what = "revoke" => c.target \in Keys
        /\ page = "operator" /\ c.what = "verify" /\ c.answer = "ok" => c.token \notin Bogus

\* Queries are in flight only while somebody is signed in.
QueriesHaveSession == Queries # {} => stored # None

\* A timer that runs is the stored token's, and ends with it or earlier; once the
\* gate's mount effect has run, a stored token has one.
TimerInv ==
    /\ ready => page = "tenant"
    /\ timer.of = None => timer = Idle
    /\ timer.of # None =>
        /\ page = "tenant" /\ stored = timer.of
        /\ timer.due <= Exp[timer.of] /\ timer.due <= clock + MaxDelay
    /\ page = "tenant" /\ ready /\ stored # None => timer.of = stored

SessionInv ==
    /\ TypeOK
    /\ value \in Own \cup {None}
    /\ Sound(calls)
    /\ QueriesHaveSession
    /\ TimerInv
    /\ KeptKeyWasAccepted

-----------------------------------------------------------------------------

\* A request as it is sent.
LEMMA RequestTyped ==
    ASSUME NEW what \in Requests, NEW t \in Keys \cup Tokens,
           NEW k \in Keys \cup {None}, NEW n \in {0, 1}
    PROVE  /\ Request(what, t, k, n) \in Call
           /\ Request(what, t, k, n).what = what /\ Request(what, t, k, n).token = t
           /\ Request(what, t, k, n).target = k /\ Request(what, t, k, n).answer = "none"
  BY DEF Request, Requests, Call

\* Sound requests stay so, also with a new one of the console among them.
LEMMA SentIsSound ==
    ASSUME Sound(calls), page' = page, page \in Kinds,
           NEW what \in Requests, NEW t \in Own,
           NEW k \in Keys \cup {None}, what = "revoke" => k \in Keys, NEW n \in {0, 1},
           \/ calls' \subseteq calls
           \/ calls' \subseteq calls \cup {Request(what, t, k, n)}
    PROVE  Sound(calls)'
<1>1. Own' = Own /\ t \in Keys \cup Tokens
  BY DEF Own
<1>2. QED
  BY <1>1, RequestTyped DEF Sound

\* The timer armed for a token that lives ends in time.
LEMMA ArmedInTime ==
    ASSUME NEW t \in Tokens, clock \in Nat, ~Expired(t)
    PROVE  /\ Armed(t) \in [of : Tokens \cup {None}, due : Nat] /\ Armed(t).of = t
           /\ Armed(t).due <= Exp[t] /\ Armed(t).due <= clock + MaxDelay
  BY CredentialsAssumption DEF Armed, Expired, Least

\* What the session is made of, after a step that leaves page and clock be.
Settled(left) ==
    /\ stored' \in {None} \cup Own' /\ timer' \in [of : Tokens \cup {None}, due : Nat]
    /\ Sound(calls)' /\ QueriesHaveSession' /\ TimerInv' /\ KeptKeyWasAccepted'
    /\ calls' \subseteq left \cup {c \in Call : c.what = "query"}

\* Ending the session leaves no timer and no query of it behind.
LEMMA ClearSettles ==
    ASSUME SessionInv, NEW left, left \subseteq calls, Clear(left),
           page' = page, clock' = clock, ready' \in BOOLEAN, ready' => page = "tenant"
    PROVE  Settled(left) /\ stored' = None
<1>1. /\ stored' = None /\ timer' = Idle /\ calls' = left \ Queries /\ calls' \in SUBSET calls
  BY DEF Clear
<1>2. Own' = Own /\ Sound(calls)'
  BY <1>1 DEF SessionInv, Sound, Own
<1>3. QueriesHaveSession'
  BY <1>1 DEF QueriesHaveSession, Queries
<1>4. Idle \in [of : Tokens \cup {None}, due : Nat] /\ Idle.of = None
  BY DEF Idle
<1>5. TimerInv'
  BY <1>1, <1>4 DEF TimerInv
<1>6. KeptKeyWasAccepted'
  BY <1>1, CredentialsAssumption DEF KeptKeyWasAccepted
<1>7. QED
  BY <1>1, <1>2, <1>3, <1>4, <1>5, <1>6 DEF Settled

\* Entering with a credential watches its expiry, or drops it for being expired.
LEMMA KeepSettles ==
    ASSUME SessionInv, NEW left, left \subseteq calls, NEW t \in Own,
           page = "operator" => t \notin Bogus, Keep(t, left),
           page' = page, clock' = clock, ready' \in BOOLEAN, ready' => page = "tenant"
    PROVE  Settled(left) /\ stored' = IF page = "tenant" /\ Expired(t) THEN None ELSE t
<1>0. /\ page \in Kinds /\ clock \in Nat /\ timer \in [of : Tokens \cup {None}, due : Nat]
      /\ TimerInv /\ Sound(calls) /\ Own' = Own /\ t # None /\ t \in Keys \cup Tokens
  BY CredentialsAssumption DEF SessionInv, TypeOK, Own
<1>1. CASE page = "tenant" /\ Expired(t)
  BY <1>1, ClearSettles DEF Keep
<1>2. CASE ~(page = "tenant" /\ Expired(t))
  <2>1. /\ stored' = t
        /\ timer' = IF page = "tenant" /\ timer.of # t THEN Armed(t) ELSE timer
        /\ calls' = left \/ calls' = left \cup {Request("query", t, None, 0)}
    BY <1>2 DEF Keep
  <2>2. /\ calls' \subseteq calls \cup {Request("query", t, None, 0)}
        /\ calls' \subseteq left \cup {c \in Call : c.what = "query"}
    BY <1>0, <2>1, RequestTyped DEF Sound, Requests
  <2>s. Sound(calls)'
    BY <1>0, <2>2, SentIsSound DEF Requests
  <2>3. timer' \in [of : Tokens \cup {None}, due : Nat] /\ TimerInv'
    <3>1. CASE page = "operator"
      BY <1>0, <2>1, <3>1 DEF TimerInv
    <3>2. CASE page = "tenant" /\ timer.of = t
      BY <1>0, <2>1, <3>2 DEF TimerInv
    <3>3. CASE page = "tenant" /\ timer.of # t
      <4>1. t \in Tokens /\ timer' = Armed(t)
        BY <2>1, <3>3 DEF Own
      <4>2. QED
        BY <1>0, <1>2, <2>1, <3>3, <4>1, ArmedInTime DEF TimerInv
    <3>4. QED
      BY <1>0, <3>1, <3>2, <3>3 DEF Kinds
  <2>4. KeptKeyWasAccepted'
    BY <2>1, <1>0, CredentialsAssumption DEF KeptKeyWasAccepted, Own, Kinds
  <2>5. QED
    BY <1>0, <1>2, <2>1, <2>2, <2>s, <2>3, <2>4 DEF Settled, QueriesHaveSession
<1>3. QED
  BY <1>1, <1>2

\* A step that leaves storage and timer be, and adds only sound requests.
LEMMA Unsettled ==
    ASSUME SessionInv, UNCHANGED <<page, ready, stored, timer, clock>>,
           Sound(calls)', QueriesHaveSession'
    PROVE  /\ Sound(calls)' /\ TimerInv' /\ KeptKeyWasAccepted' /\ Own' = Own
           /\ stored' \in {None} \cup Own' /\ timer' \in [of : Tokens \cup {None}, due : Nat]
  BY DEF SessionInv, TimerInv, KeptKeyWasAccepted, TypeOK, Own

-----------------------------------------------------------------------------

\* The fields no request or session touches.
Frame ==
    /\ page' = page /\ page \in Kinds /\ ready' \in BOOLEAN /\ checking' \in BOOLEAN
    /\ failed' \in BOOLEAN /\ value' \in Own \cup {None}
    /\ cached' \in Keys \cup Tokens \cup {None} /\ revoked' \subseteq Keys
    /\ tab' \in {"none", "opening", "console", "closed", "orphaned"}
    /\ clock' \in 0..MaxTime /\ upsets' \in 0..MaxUpsets

\* A settled session in a sound frame is the invariant again.
LEMMA Reassembled ==
    ASSUME Frame, stored' \in {None} \cup Own', timer' \in [of : Tokens \cup {None}, due : Nat],
           Sound(calls)', QueriesHaveSession', TimerInv', KeptKeyWasAccepted'
    PROVE  SessionInv'
<1>1. Own' = Own /\ Own \subseteq Keys \cup Tokens
  BY DEF Frame, Own
<1>2. TypeOK'
  BY <1>1 DEF Frame, TypeOK, Own, Sound
<1>3. QED
  BY <1>1, <1>2 DEF SessionInv, Frame, Sound

-----------------------------------------------------------------------------

\* Every step keeps the invariant.
LEMMA SessionStep == SessionInv /\ [Next]_vars => SessionInv'
<1> SUFFICES ASSUME SessionInv, [Next]_vars PROVE SessionInv'
  OBVIOUS
<1>0. /\ TypeOK /\ Sound(calls) /\ QueriesHaveSession /\ TimerInv /\ KeptKeyWasAccepted
      /\ value \in Own \cup {None} /\ page \in Kinds /\ clock \in Nat /\ calls \subseteq Call
      /\ stored \in {None} \cup Own
      /\ timer \in [of : Tokens \cup {None}, due : Nat]
  BY DEF SessionInv, TypeOK, Own
<1>s. ASSUME NEW left, Settled(left), Frame PROVE SessionInv'
  BY <1>s, Reassembled DEF Settled
<1>u. ASSUME UNCHANGED <<ready, stored, timer>>, clock' = clock, Frame,
             Sound(calls)', QueriesHaveSession'
      PROVE  SessionInv'
  BY <1>u, Unsettled, Reassembled DEF Frame
<1>1. ASSUME NEW t \in Tokens \cup {None}, Mount(t) PROVE SessionInv'
  <2> DEFINE u == IF t # None THEN t ELSE stored
  <2>1. /\ Frame /\ page = "tenant" /\ ready' = TRUE /\ clock' = clock
    BY <1>0, <1>1, CredentialsAssumption DEF Mount, Frame, TypeOK, gateVars, cacheVars
  <2>2. CASE u = None
    <3>1. UNCHANGED <<stored, timer, calls>> /\ stored = None
      BY <1>1, <2>2 DEF Mount
    <3>2. Own' = Own /\ Sound(calls)' /\ QueriesHaveSession'
      BY <1>0, <2>1, <3>1 DEF Frame, Own, Sound, QueriesHaveSession, Queries
    <3>3. TimerInv' /\ KeptKeyWasAccepted' /\ timer' \in [of : Tokens \cup {None}, due : Nat]
      BY <1>0, <2>1, <3>1 DEF Frame, TimerInv, KeptKeyWasAccepted
    <3>4. QED
      BY <2>1, <3>1, <3>2, <3>3, Reassembled
  <2>3. CASE u # None
    <3>1. Keep(u, calls) /\ u \in Own
      BY <1>0, <1>1, <2>1, <2>3 DEF Mount, Own
    <3>2. QED
      BY <2>1, <3>1, <1>s, KeepSettles DEF Frame
  <2>4. QED
    BY <2>2, <2>3
<1>2. ASSUME NEW t \in Tokens, Adopt(t) PROVE SessionInv'
  <2>1. Frame /\ ready' = ready /\ clock' = clock /\ page = "tenant" /\ t \in Own /\ Keep(t, calls)
    BY <1>0, <1>2 DEF Adopt, Frame, TypeOK, TimerInv, gateVars, cacheVars, Own
  <2>2. Settled(calls)
    BY <2>1, KeepSettles DEF Frame
  <2>3. QED
    BY <2>1, <2>2, <1>s
<1>3. CASE Fire
  <2>1. Frame /\ UNCHANGED <<page, ready, clock>> /\ timer.of \in Tokens /\ page = "tenant" /\ stored = timer.of
    BY <1>0, <1>3 DEF Fire, Frame, TypeOK, TimerInv, gateVars, cacheVars
  <2>2. CASE Expired(timer.of)
    <3>1. Clear(calls)
      BY <1>3, <2>2 DEF Fire
    <3>2. Settled(calls)
      BY <1>0, <2>1, <3>1, ClearSettles DEF Frame, TimerInv
    <3>3. QED
      BY <2>1, <3>2, <1>s
  <2>3. CASE ~Expired(timer.of)
    <3>1. timer' = Armed(timer.of) /\ UNCHANGED <<stored, calls>>
      BY <1>3, <2>3 DEF Fire
    <3>2. TimerInv' /\ timer' \in [of : Tokens \cup {None}, due : Nat]
      BY <1>0, <2>1, <2>3, <3>1, ArmedInTime, CredentialsAssumption DEF TimerInv
    <3>3. Own' = Own /\ Sound(calls)' /\ QueriesHaveSession' /\ KeptKeyWasAccepted'
      BY <1>0, <2>1, <3>1 DEF Own, Sound, QueriesHaveSession, Queries, KeptKeyWasAccepted
    <3>4. QED
      BY <1>0, <2>1, <3>1, <3>2, <3>3, Reassembled
  <2>4. QED
    BY <2>2, <2>3
<1>4. CASE SignOut
  <2>1. Frame /\ UNCHANGED <<page, ready, clock>> /\ Clear(calls)
    BY <1>0, <1>4 DEF SignOut, Frame, TypeOK, gateVars, cacheVars
  <2>2. Settled(calls)
    BY <1>0, <2>1, ClearSettles DEF Frame, TimerInv
  <2>3. QED
    BY <2>1, <2>2, <1>s
<1>5. ASSUME NEW v \in IF page = "operator" THEN Keys ELSE Tokens, Type(v) PROVE SessionInv'
  <2>1. Frame /\ UNCHANGED <<page, ready, stored, timer, calls, clock>>
    BY <1>0, <1>5 DEF Type, Frame, TypeOK, gateVars, cacheVars, Own
  <2>2. Sound(calls)' /\ QueriesHaveSession'
    BY <1>0, <2>1 DEF Sound, Own, QueriesHaveSession, Queries
  <2>3. QED
    BY <2>1, <2>2, <1>u
<1>6. ASSUME NEW what \in Requests, NEW t \in Own,
             NEW k \in Keys \cup {None}, NEW n \in {0, 1},
             what = "query" => stored # None, what = "revoke" => k \in Keys,
             calls' \subseteq calls \cup {Request(what, t, k, n)},
             UNCHANGED <<ready, stored, timer, clock>>, Frame
      PROVE  SessionInv'
  <2>1. Sound(calls)'
    BY <1>0, <1>6, SentIsSound DEF Frame
  <2>2. t \in Keys \cup Tokens
    BY <1>6 DEF Own
  <2>3. Request(what, t, k, n).what = what
    BY <2>2, <1>6, RequestTyped
  <2>4. QueriesHaveSession'
    BY <1>0, <1>6, <2>3 DEF QueriesHaveSession, Queries
  <2>5. QED
    BY <1>6, <2>1, <2>4, <1>u
<1>7. CASE Submit
  BY <1>0, <1>6, <1>7 DEF Submit, Frame, TypeOK, Own, Requests, cacheVars
<1>8. CASE Fetch \/ Save \/ Open \/ \E k \in Keys : Revoke(k)
  <2>1. Frame /\ UNCHANGED <<ready, stored, timer, clock>> /\ stored \in Own /\ stored # None
    BY <1>0, <1>8 DEF Fetch, Save, Open, Revoke, Showing, Frame, TypeOK, gateVars, cacheVars
  <2>2. \E what \in Requests \ {"verify"}, k \in Keys \cup {None} :
            /\ what = "revoke" => k \in Keys
            /\ calls' = calls \cup {Request(what, stored, k, 0)}
    BY <1>8 DEF Fetch, Save, Open, Revoke, Requests
  <2>3. QED
    BY <2>1, <2>2, <1>6
<1>9. ASSUME NEW c \in calls, Answer(c) \/ Fault(c) PROVE SessionInv'
  <2>1. Frame /\ UNCHANGED <<ready, stored, timer, clock>>
    <3>1. c.what = "revoke" => c.target \in Keys
      BY <1>0 DEF Sound
    <3>2. revoked' \subseteq Keys
      BY <1>0, <1>9, <3>1 DEF Answer, Fault, TypeOK
    <3>3. upsets' \in 0..MaxUpsets
      BY <1>0, <1>9, CredentialsAssumption DEF Answer, Fault, TypeOK
    <3>4. QED
      BY <1>0, <1>9, <3>2, <3>3 DEF Answer, Fault, Frame, TypeOK, gateVars, cacheVars
  <2>2. PICK a \in {"ok", "401", "error"} : /\ Answered(c, a)
                                            /\ a = "ok" => Accepts(c)
    BY <1>9 DEF Answer, Fault
  <2>3. [c EXCEPT !.answer = a] \in Call
    BY <1>0 DEF Call
  <2>4. /\ [c EXCEPT !.answer = a].token = c.token /\ [c EXCEPT !.answer = a].target = c.target
        /\ [c EXCEPT !.answer = a].what = c.what
        /\ [c EXCEPT !.answer = a].answer = a
    BY <1>0 DEF Call
  <2> DEFINE n == [c EXCEPT !.answer = a]
  <2>5. calls' = (calls \ {c}) \cup {n}
    BY <2>2 DEF Answered
  <2> HIDE DEF n
  <2>6. Sound(calls)'
    BY <1>0, <2>1, <2>2, <2>3, <2>4, <2>5 DEF Sound, Own, Frame, Accepts, n
  <2>7. QueriesHaveSession'
    BY <1>0, <2>1, <2>4, <2>5 DEF QueriesHaveSession, Queries, n
  <2>8. QED
    BY <2>1, <2>6, <2>7, <1>u
<1>10. ASSUME NEW c \in calls, Verdict(c) PROVE SessionInv'
  <2>1. Frame /\ UNCHANGED <<page, ready, clock>>
    BY <1>0, <1>10 DEF Verdict, Frame, TypeOK, gateVars, cacheVars
  <2>2. CASE Keep(c.token, calls \ {c}) /\ (c.answer = "ok" \/ (c.answer = "error" /\ page = "tenant"))
    <3>1. c.token \in Own /\ (page = "operator" => c.token \notin Bogus)
      BY <1>0, <1>10, <2>2 DEF Sound, Verdict
    <3>2. Settled(calls \ {c})
      BY <1>0, <2>1, <2>2, <3>1, KeepSettles DEF Frame, TimerInv
    <3>3. QED
      BY <2>1, <3>2, <1>s
  <2>3. CASE calls' = calls \ {c} /\ UNCHANGED <<stored, timer>>
    <3>1. Sound(calls)' /\ QueriesHaveSession'
      BY <1>0, <2>1, <2>3 DEF Sound, Own, QueriesHaveSession, Queries
    <3>2. QED
      BY <2>1, <2>3, <3>1, <1>u
  <2>4. QED
    BY <1>10, <2>2, <2>3 DEF Verdict
<1>11. ASSUME NEW c \in calls, Refused(c) PROVE SessionInv'
  <2>1. Frame /\ UNCHANGED <<page, ready, clock>> /\ Clear(calls \ {c})
    BY <1>0, <1>11 DEF Refused, Frame, TypeOK, gateVars, cacheVars
  <2>2. Settled(calls \ {c})
    BY <1>0, <2>1, ClearSettles DEF Frame, TimerInv
  <2>3. QED
    BY <2>1, <2>2, <1>s
<1>12. ASSUME NEW c \in calls, Loaded(c) \/ Opened(c) PROVE SessionInv'
  <2>1. Frame /\ UNCHANGED <<page, ready, stored, timer, clock>> /\ calls' = calls \ {c}
    BY <1>0, <1>12 DEF Loaded, Opened, Frame, TypeOK, Call, gateVars, cacheVars
  <2>2. Sound(calls)' /\ QueriesHaveSession'
    BY <1>0, <2>1 DEF Sound, Own, QueriesHaveSession, Queries
  <2>3. QED
    BY <2>1, <2>2, <1>u
<1>13. ASSUME NEW c \in calls, LoadFails(c) \/ Saved(c) \/ Revoked(c) PROVE SessionInv'
  <2>1. Frame /\ UNCHANGED <<ready, stored, timer, clock>> /\ page' = page
    <3>1. c.token \in Keys \cup Tokens
      BY <1>0 DEF Sound, Own
    <3>2. cached' \in Keys \cup Tokens \cup {None} /\ failed' \in BOOLEAN
      BY <1>0, <1>13, <3>1 DEF LoadFails, Saved, Revoked, Invalidated, TypeOK, cacheVars
    <3>3. QED
      BY <1>0, <1>13, <3>2 DEF LoadFails, Saved, Revoked, Frame, TypeOK, gateVars
  <2>2. CASE calls' \subseteq calls
    <3>1. Sound(calls)' /\ QueriesHaveSession'
      BY <1>0, <2>1, <2>2 DEF Sound, Own, QueriesHaveSession, Queries
    <3>2. QED
      BY <2>1, <3>1, <1>u
  <2>3. CASE stored # None /\ \E n \in {0, 1} :
                calls' \subseteq calls \cup {Request("query", stored, None, n)}
    BY <1>0, <2>1, <2>3, <1>6 DEF Requests
  <2>4. c.what = "query" => stored # None
    BY <1>0 DEF QueriesHaveSession, Queries
  <2>5. QED
    BY <1>13, <2>2, <2>3, <2>4 DEF LoadFails, Saved, Revoked, Invalidated, Showing
<1>14. CASE Load
  <2>1. Frame /\ ready' = FALSE /\ timer' = Idle /\ stored' = stored /\ Own' = Own
    <3>1. upsets' \in 0..MaxUpsets
      BY <1>0, <1>14, CredentialsAssumption DEF Load, TypeOK
    <3>2. tab' \in {"none", "opening", "console", "closed", "orphaned"}
      BY <1>0, <1>14 DEF Load, TypeOK
    <3>3. /\ page' = page /\ ready' = FALSE /\ checking' = FALSE /\ failed' = FALSE /\ value' = None
          /\ cached' = None /\ timer' = Idle /\ UNCHANGED <<stored, clock, revoked>>
      BY <1>14 DEF Load
    <3>4. QED
      BY <1>0, <3>1, <3>2, <3>3 DEF Frame, TypeOK, Own
  <2>2. calls' \subseteq {Request("query", stored, None, 0)} /\ (calls' # {} => stored # None)
    BY <1>14 DEF Load
  <2>3. Sound(calls)' /\ QueriesHaveSession'
    <3>1. CASE stored = None
      BY <2>1, <2>2, <3>1 DEF Sound, QueriesHaveSession, Queries
    <3>2. CASE stored # None
      <4>1. stored \in Own
        BY <1>0, <3>2
      <4>2. Sound(calls)'
        BY <1>0, <2>1, <2>2, <4>1, SentIsSound DEF Frame, Requests
      <4>3. QED
        BY <2>1, <3>2, <4>2 DEF QueriesHaveSession
    <3>3. QED
      BY <3>1, <3>2
  <2>4. TimerInv' /\ KeptKeyWasAccepted' /\ timer' \in [of : Tokens \cup {None}, due : Nat]
    BY <1>0, <2>1 DEF TimerInv, KeptKeyWasAccepted, Idle
  <2>5. QED
    BY <1>0, <2>1, <2>3, <2>4, Reassembled
<1>15. CASE (\E k \in Keys : RevokeElsewhere(k)) \/ UNCHANGED vars
  <2>1. Frame /\ UNCHANGED <<page, ready, stored, timer, clock, calls>>
    BY <1>0, <1>15 DEF RevokeElsewhere, vars, Frame, TypeOK, gateVars, cacheVars
  <2>2. Sound(calls)' /\ QueriesHaveSession'
    BY <1>0, <2>1 DEF Sound, Own, QueriesHaveSession, Queries
  <2>3. QED
    BY <2>1, <2>2, <1>u
<1>16. CASE Tick
  <2>1. Frame /\ UNCHANGED <<page, ready, stored, timer, calls>> /\ clock' = clock + 1
    BY <1>0, <1>16, CredentialsAssumption DEF Tick, Frame, TypeOK, gateVars, cacheVars
  <2>2. Own' = Own /\ Sound(calls)' /\ QueriesHaveSession' /\ KeptKeyWasAccepted'
    BY <1>0, <2>1 DEF Sound, Own, QueriesHaveSession, Queries, KeptKeyWasAccepted
  <2>3. TimerInv' /\ timer' \in [of : Tokens \cup {None}, due : Nat]
    BY <1>0, <2>1, CredentialsAssumption DEF TimerInv, TypeOK
  <2>4. QED
    BY <1>0, <2>1, <2>2, <2>3, Reassembled
<1>17. QED
  BY <1>1, <1>2, <1>3, <1>4, <1>5, <1>7, <1>8, <1>9, <1>10, <1>11, <1>12, <1>13, <1>14, <1>15, <1>16
     DEF Next, User, Deliver

\* A fresh tab satisfies it.
LEMMA SessionBegins == Init => SessionInv
<1> SUFFICES ASSUME Init PROVE SessionInv
  OBVIOUS
<1>1. TypeOK
  <2>1. 0 \in 0..MaxTime /\ 0 \in 0..MaxUpsets
    BY CredentialsAssumption
  <2>2. timer \in [of : Tokens \cup {None}, due : Nat]
    BY DEF Init, Idle
  <2>3. QED
    BY <2>1, <2>2 DEF Init, TypeOK
<1>2. QED
  BY <1>1, CredentialsAssumption DEF Init, SessionInv, Sound, QueriesHaveSession, Queries, TimerInv, Idle,
     KeptKeyWasAccepted

\* The invariant holds throughout.
LEMMA SessionInvariant == Spec => []SessionInv
  BY SessionBegins, SessionStep, PTL DEF Spec

\* Every state of the session is well typed: in particular, a console only ever
\* stores a credential of its own kind.
THEOREM SessionTypeCorrect == Spec => []TypeOK
<1>1. SessionInv => TypeOK
  BY DEF SessionInv
<1>2. QED
  BY <1>1, SessionInvariant, PTL

\* The operator's console never keeps a key the server has not said yes to.
THEOREM KeptKeysWereAccepted == Spec => []KeptKeyWasAccepted
<1>1. SessionInv => KeptKeyWasAccepted
  BY DEF SessionInv
<1>2. QED
  BY <1>1, SessionInvariant, PTL

\* No tenant token outlives its exp unwatched, however long it lives and however
\* often it is replaced while a timer runs.
THEOREM ExpiryAlwaysWatched == Spec => []ExpiryIsWatched
<1>1. SessionInv => ExpiryIsWatched
  BY CredentialsAssumption DEF SessionInv, TimerInv, ExpiryIsWatched
<1>2. QED
  BY <1>1, SessionInvariant, PTL

\* A session ends or changes by an act of its user, its own expiry, a 401 of its
\* console or a candidate that was let in, and by nothing else.
THEOREM SessionsEndForAReason == Spec => SessionEndsForAReason
<1> DEFINE A == stored # None /\ stored' # stored =>
        \/ SignOut
        \/ \E t \in Tokens : Adopt(t) \/ Mount(t)
        \/ stored' = None /\ page = "tenant" /\ Expired(stored)
        \/ \E c \in calls : c.what # "verify" /\ c.answer = "401" /\ c \notin calls'
        \/ \E c \in calls : c.what = "verify" /\ c.answer # "401" /\ c \notin calls'
<1>1. ASSUME SessionInv, [Next]_vars, stored # None, stored' # stored PROVE A
  <2>1. CASE \E t \in Tokens \cup {None} : Mount(t)
    BY <1>1, <2>1 DEF Mount, Keep, Clear
  <2>2. CASE Fire
    BY <1>1, <2>2 DEF Fire, Clear, SessionInv, TimerInv
  <2>3. ASSUME NEW c \in calls, Verdict(c) PROVE A
    <3>1. c \notin calls'
      <4>1. calls \subseteq Call /\ Sound(calls) /\ (page = "operator" => c.token \notin Bogus \/ c.answer # "ok")
        BY <2>3, <1>1 DEF SessionInv, Sound, Verdict
      <4>2. CASE Keep(c.token, calls \ {c})
        BY <2>3, <4>1, <4>2 DEF Keep, Clear, Verdict, Request
      <4>3. QED
        BY <2>3, <4>2 DEF Verdict
    <3>2. c.what = "verify" /\ c.answer # "401"
      BY <1>1, <2>3 DEF Verdict
    <3>3. QED
      BY <3>1, <3>2
  <2>4. ASSUME NEW c \in calls, Refused(c) PROVE A
    BY <2>4 DEF Refused, Clear
  <2>5. CASE SignOut \/ \E t \in Tokens : Adopt(t)
    BY <2>5
  <2>6. QED
    BY <1>1, <2>1, <2>2, <2>3, <2>4, <2>5 DEF Next, User, Deliver, Type, Submit, Fetch, Save, Revoke, Open,
       Load, Answer, Fault, Loaded, LoadFails, Saved, Revoked, Opened, RevokeElsewhere, Tick, vars
<1>2. SessionInv /\ [Next]_vars => [A]_vars
  BY <1>1
<1>3. QED
  BY <1>2, SessionInvariant, PTL DEF Spec, SessionEndsForAReason

\* While nobody is signed in, no query's answer enters the cache: each was aborted
\* with its session.  Only an operator's save that was on its way still writes there.
THEOREM NothingLoadsWhenSignedOut == Spec => NothingLoadsSignedOut
<1> DEFINE A == stored' = None /\ cached' # cached /\ cached' # None =>
        \E c \in calls : /\ c.what = "save" /\ c.answer = "ok" /\ c \notin calls'
                         /\ page = "operator" /\ cached' = c.token
<1>1. ASSUME SessionInv, [Next]_vars, stored' = None, cached' # cached, cached' # None PROVE A
  <2>1. CASE \E c \in calls : Loaded(c)
    <3>1. Queries # {} /\ stored = None
      BY <1>1, <2>1 DEF Loaded, Queries
    <3>2. QED
      BY <1>1, <3>1 DEF SessionInv, QueriesHaveSession
  <2>2. CASE \E c \in calls : Saved(c)
    BY <1>1, <2>2 DEF Saved, Invalidated, cacheVars
  <2>3. QED
    BY <1>1, <2>1, <2>2 DEF Next, User, Deliver, Type, Submit, Fetch, Save, Revoke, Open, Load, SignOut,
       Mount, Adopt, Fire, Verdict, Refused, Answer, Fault, LoadFails, Revoked, Invalidated, Opened,
       RevokeElsewhere, Tick, vars, cacheVars
<1>2. SessionInv /\ [Next]_vars => [A]_vars
  BY <1>1
<1>3. QED
  BY <1>2, SessionInvariant, PTL DEF Spec, NothingLoadsSignedOut

===============================================================================
