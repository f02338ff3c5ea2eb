------------------------ MODULE ConsoleEditorsProofs ------------------------
(* What an editing screen never does to what was typed, told or saved, for   *)
(* any definitions, rows, names and parameters, and any number of changes    *)
(* made elsewhere, saves and faults.                                         *)
EXTENDS ConsoleEditors, TLAPS

\* What the server keeps for a screen, what its form holds and what it sends.
Values(s) ==
    CASE s \in {"new", "hook"} -> Specs
      [] s = "tenant" -> Rows
      [] s \in Lists -> SUBSET Names
      [] s = "config" -> Configs

Objects(s) == [version : Nat, value : Values(s)]

Forms(s) == IF s \in Lists THEN Names ELSE Values(s)

Bases(s) == IF s = "hook" THEN Objects(s) ELSE Forms(s)

Bodies(s) == IF s = "tenant" THEN UNION {[D -> Vals] : D \in SUBSET Fields} ELSE Forms(s)

Fetches(s) ==
    [at : {"idle", "sent", "answered"}, answer : Objects(s) \cup {None}, tries : {0, 1}]

Requests(s) ==
    [at : {"idle", "sent", "done", "awaiting", "refused"}, body : Bodies(s) \cup {None},
     seen : Nat, mine : BOOLEAN, saved : Objects(s) \cup {None}, wrote : BOOLEAN]

TypeOK ==
    /\ screen \in Screens
    /\ db \in Objects(screen) \/ (screen = "new" /\ db = None)
    /\ data \in Objects(screen) \cup {None}
    /\ failed \in BOOLEAN
    /\ fetch \in Fetches(screen) /\ change \in Requests(screen)
    /\ form \in Forms(screen) \cup {None} /\ base \in Bases(screen) \cup {None}
    /\ dialog \in {"closed", "open", "sending", "refetching", "shown"}
    /\ notice \in {"none", "unchanged", "saved", "refused"}
    /\ others \in Nat /\ saves \in Nat /\ faults \in Nat

\* A form is there exactly as long as the content it belongs to; a new hook has no
\* query, and its form is never unmounted.
FormInv ==
    /\ screen = "new" => /\ form \in Specs /\ data = None /\ fetch = NoFetch
                         /\ (change.at # "idle" => change.mine)
    /\ screen \in {"hook", "config"} => IF Showing THEN form \in Forms(screen) ELSE form = None
    /\ screen = "tenant" => /\ dialog # "closed" => form \in Rows
                            /\ failed => form = None /\ dialog = "closed"

\* How old an object is: nothing is older than every version.
Age(o) == IF o = None THEN 0 ELSE o.version

\* Nothing in the tab is newer than the server's object.
AgeInv ==
    /\ Age(data) <= Age(db) /\ Age(fetch.answer) <= Age(db)
    /\ change.seen <= Age(db) /\ Age(change.saved) <= Age(db)

\* What a change stands for at each stage: a save that wrote made a version later
\* than the one shown, and what it waits for cannot be older than what it saved.
ChangeInv ==
    /\ change.at = "idle" => change = NoChange
    /\ change.at = "sent" => change.body \in Bodies(screen) /\ ~change.wrote
    /\ change.at \in {"done", "awaiting"} =>
          /\ db \in Objects(screen) /\ change.saved \in Objects(screen)
          /\ change.wrote => change.saved.version > change.seen
    /\ change.at = "awaiting" =>
          /\ screen \in {"tenant", "config"} \cup Lists
          /\ change.seen # 0 /\ fetch.answer # None => fetch.answer.version >= change.saved.version
    /\ change.seen # 0 => data # None

\* Dialogs belong to the screens of rows; one that waits for the list waits for the
\* change that awaits it.
DialogInv ==
    /\ dialog # "closed" => screen \in {"tenant"} \cup Lists
    /\ dialog = "refetching" => change.at = "awaiting"

\* The key dialog is there, and pending, while its key is on the way.
TokenInv ==
    screen = "keys" =>
        /\ change.at \in {"sent", "done"} => dialog = "sending" /\ change.mine
        /\ change.at = "awaiting" => dialog = "refetching"

IInv == TypeOK /\ FormInv /\ AgeInv /\ ChangeInv /\ DialogInv /\ TokenInv

\* The hooks the server and the tab hold; a later version allows at least as much.
Hooks == {db, data, fetch.answer, change.saved, base} \ {None}
Grown(o, p) == o.version <= p.version => o.value.caps \subseteq p.value.caps
GrowthInv ==
    screen \in {"new", "hook"} =>
        /\ \A o, p \in Hooks : Grown(o, p)
        /\ db = None => Hooks = {}

\* The form of a hook's page keeps what every hook shown since it was filled allowed,
\* and none of these hooks is later than the one shown.
KnownInv ==
    /\ screen = "new" => base = None
    /\ screen = "hook" /\ Showing =>
        /\ base # None /\ base.version <= data.version
        /\ base.value.caps \subseteq form.caps
    /\ screen = "hook" /\ ~Showing => base = None /\ (change.at # "idle" => ~change.mine)
    /\ KnownCapsAreKept

CapsInv == GrowthInv /\ KnownInv

-----------------------------------------------------------------------------
(* The server's operations.                                                 *)

\* No object is None.
LEMMA ObjectsOf ==
    /\ \A s \in {"new", "hook"} : Objects(s) = [version : Nat, value : Specs]
    /\ Objects("tenant") = [version : Nat, value : Rows]
    /\ \A s \in Lists : Objects(s) = [version : Nat, value : SUBSET Names]
    /\ Objects("config") = [version : Nat, value : Configs]
    /\ \A s \in Screens : None \notin Objects(s)
<1>1. \A s \in {"new", "hook"} : Values(s) = Specs
  BY DEF Values, Lists
<1>2. Values("tenant") = Rows
  BY DEF Values, Lists
<1>3. \A s \in Lists : Values(s) = SUBSET Names
  BY DEF Values, Lists
<1>4. Values("config") = Configs
  BY DEF Values, Lists
<1>5. ASSUME NEW s \in Screens PROVE Values(s) \subseteq Specs \cup Rows \cup (SUBSET Names) \cup Configs
  <2>1. \/ s \in {"new", "hook"} /\ Values(s) = Specs
        \/ s = "tenant" /\ Values(s) = Rows
        \/ s \in Lists /\ Values(s) = SUBSET Names
        \/ s = "config" /\ Values(s) = Configs
    BY <1>1, <1>2, <1>3, <1>4 DEF Screens, Lists
  <2> QED
    BY <2>1
<1>6. ASSUME NEW s \in Screens PROVE None \notin Objects(s)
  BY <1>5, SetsAssumption DEF Objects
<1> QED
  BY <1>1, <1>2, <1>3, <1>4, <1>6 DEF Objects

\* `p` comes after the object `o` of the screen `s`, or is the same.
Follows(s, o, p) == p = o \/ (p \in Objects(s) /\ Age(p) = Age(o) + 1)

\* An operation on a hook's definition keeps it or makes the next, which allows at
\* least what the one before did.
LEMMA PutFollows ==
    ASSUME NEW s \in {"new", "hook"}, NEW o, NEW create \in BOOLEAN, NEW spec \in Specs,
           o \in Objects(s) \/ (o = None /\ create)
    PROVE  /\ Put(o, create, spec).ok \in BOOLEAN
           /\ Put(o, create, spec).ok => Put(o, create, spec).object \in Objects(s)
           /\ Follows(s, o, Put(o, create, spec).object)
           /\ o # None => o.value.caps \subseteq Put(o, create, spec).object.value.caps
<1>1. s \in Screens /\ None \notin Objects(s) /\ Objects(s) = [version : Nat, value : Specs]
  BY ObjectsOf DEF Screens, Lists
<1> DEFINE refused == spec.content \in BadContents \/ (create /\ o # None)
                      \/ (~create /\ ~(o.value.caps \subseteq spec.caps))
<1>2. CASE refused
  <2>1. Put(o, create, spec) = [ok |-> FALSE, object |-> o]
    BY <1>2 DEF Put
  <2> QED
    BY <2>1 DEF Follows
<1>3. CASE ~refused
  <2>1. CASE o = None
    BY <1>1, <1>3, <2>1 DEF Put, Follows, Age
  <2>2. CASE o # None
    <3>1. o \in [version : Nat, value : Specs] /\ ~create /\ o.value.caps \subseteq spec.caps
      BY <1>1, <1>3, <2>2
    <3>2. Put(o, create, spec) =
            [ok |-> TRUE, object |-> IF o.value = spec THEN o ELSE Next1(o, spec)]
      BY <1>3, <2>2 DEF Put
    <3>3. /\ Next1(o, spec) \in [version : Nat, value : Specs]
          /\ Next1(o, spec).version = o.version + 1 /\ Next1(o, spec).value = spec
      BY <3>1 DEF Next1
    <3>4. CASE o.value = spec
      BY <1>1, <3>1, <3>2, <3>4 DEF Follows
    <3>5. CASE o.value # spec
      <4>1. Put(o, create, spec).ok = TRUE /\ Put(o, create, spec).object = Next1(o, spec)
        BY <3>2, <3>5
      <4>2. Age(Next1(o, spec)) = Age(o) + 1
        BY <1>1, <3>3, <2>2 DEF Age
      <4> QED
        BY <1>1, <3>1, <3>3, <4>1, <4>2 DEF Follows
    <3> QED
      BY <3>4, <3>5
  <2> QED
    BY <2>1, <2>2
<1> QED
  BY <1>2, <1>3

\* The next version of an object is an object.
LEMMA NextFollows ==
    ASSUME NEW S, NEW o \in [version : Nat, value : S], NEW v \in S
    PROVE  Next1(o, v) \in [version : Nat, value : S] /\ Next1(o, v).version = o.version + 1
<1>1. o.version + 1 \in Nat
  OBVIOUS
<1> QED
  BY <1>1 DEF Next1

\* A patch keeps a tenant's row or makes the next.
LEMMA PatchFollows ==
    ASSUME NEW o \in Objects("tenant"), NEW body \in Bodies("tenant")
    PROVE  /\ Patch(o, body).ok = TRUE /\ Patch(o, body).object \in Objects("tenant")
           /\ Follows("tenant", o, Patch(o, body).object)
<1>1. None \notin Objects("tenant") /\ Objects("tenant") = [version : Nat, value : Rows]
  BY ObjectsOf DEF Screens, Lists
<1>2. PICK D \in SUBSET Fields : body \in [D -> Vals]
  BY DEF Bodies
<1> DEFINE row == [f \in Fields |-> IF f \in DOMAIN body THEN body[f] ELSE o.value[f]]
<1>3. row \in Rows
  <2>1. o.value \in [Fields -> Vals]
    BY <1>1 DEF Rows
  <2>2. ASSUME NEW f \in Fields
        PROVE  (IF f \in DOMAIN body THEN body[f] ELSE o.value[f]) \in Vals
    BY <1>2, <2>1
  <2> QED
    BY <2>2 DEF Rows
<1>4. Patch(o, body) = [ok |-> TRUE, object |-> IF row = o.value THEN o ELSE Next1(o, row)]
  BY DEF Patch
<1> HIDE DEF row
<1>5. Next1(o, row) \in Objects("tenant") /\ Next1(o, row).version = o.version + 1
  BY <1>1, <1>3, NextFollows
<1> QED
  BY <1>1, <1>4, <1>5 DEF Follows, Age

\* A creation adds a name or is refused.
LEMMA AddFollows ==
    ASSUME NEW s \in Lists, NEW o \in Objects(s), NEW name \in Names
    PROVE  /\ Add(o, name).ok \in BOOLEAN /\ Add(o, name).object \in Objects(s)
           /\ Follows(s, o, Add(o, name).object)
<1>1. None \notin Objects(s) /\ Objects(s) = [version : Nat, value : SUBSET Names]
  BY ObjectsOf DEF Screens, Lists
<1> QED
  BY <1>1 DEF Add, Next1, Follows, Age

\* Parameters are replaced, unless they are there already.
LEMMA SetFollows ==
    ASSUME NEW o \in Objects("config"), NEW config \in Configs
    PROVE  /\ Set(o, config).ok = TRUE /\ Set(o, config).object \in Objects("config")
           /\ Follows("config", o, Set(o, config).object)
<1>1. None \notin Objects("config") /\ Objects("config") = [version : Nat, value : Configs]
  BY ObjectsOf DEF Screens, Lists
<1>2. Next1(o, config) \in Objects("config") /\ Next1(o, config).version = o.version + 1
  BY <1>1, NextFollows
<1>3. Set(o, config).ok = TRUE /\ Set(o, config).object \in {o, Next1(o, config)}
  BY DEF Set
<1> QED
  BY <1>1, <1>2, <1>3 DEF Follows, Age

\* What a request of a screen makes of the server's object.
LEMMA OutcomeFollows ==
    ASSUME TypeOK, NEW body \in Bodies(screen)
    PROVE  /\ Outcome(body).ok \in BOOLEAN
           /\ Outcome(body).ok => Outcome(body).object \in Objects(screen)
           /\ Follows(screen, db, Outcome(body).object)
           /\ db # None /\ screen \in {"new", "hook"} =>
                db.value.caps \subseteq Outcome(body).object.value.caps
<1>1. CASE screen \in {"new", "hook"}
  <2>1. body \in Specs /\ (db \in Objects(screen) \/ (db = None /\ screen = "new"))
    BY <1>1 DEF TypeOK, Bodies, Forms, Values, Lists
  <2> DEFINE create == screen = "new"
  <2>2. Outcome(body) = Put(db, create, body)
    BY <1>1 DEF Outcome, Lists
  <2>3. create \in BOOLEAN /\ (db \in Objects(screen) \/ (db = None /\ create))
    BY <2>1
  <2> HIDE DEF create
  <2>4. /\ Put(db, create, body).ok \in BOOLEAN
        /\ Put(db, create, body).ok => Put(db, create, body).object \in Objects(screen)
        /\ Follows(screen, db, Put(db, create, body).object)
        /\ db # None => db.value.caps \subseteq Put(db, create, body).object.value.caps
    BY <1>1, <2>1, <2>3, PutFollows
  <2> QED
    BY <2>2, <2>4
<1>2. CASE screen = "tenant"
  BY <1>2, PatchFollows DEF TypeOK, Outcome, Lists
<1>3. CASE screen \in Lists
  <2>1. body \in Names /\ db \in Objects(screen)
    BY <1>3 DEF TypeOK, Bodies, Forms, Lists
  <2> QED
    BY <1>3, <2>1, AddFollows DEF Outcome, Lists
<1>4. CASE screen = "config"
  <2>1. body \in Configs /\ db \in Objects(screen)
    BY <1>4 DEF TypeOK, Bodies, Forms, Lists, Values
  <2> QED
    BY <1>4, <2>1, SetFollows DEF Outcome, Lists
<1> QED
  BY <1>1, <1>2, <1>3, <1>4 DEF TypeOK, Screens

\* What someone else's change makes of it.
LEMMA ElsewhereFollows ==
    ASSUME TypeOK, Elsewhere
    PROVE  /\ db' \in Objects(screen) /\ Age(db') = Age(db) + 1
           /\ db # None /\ screen \in {"new", "hook"} =>
                db.value.caps \subseteq (db.value.caps)'
<1>1. CASE screen = "new" /\ db = None /\ \E s \in Specs : s.content \notin BadContents /\ db' = [version |-> 1, value |-> s]
  <2>1. db' \in Objects(screen) /\ db'.version = 1
    <3>1. PICK s \in Specs : db' = [version |-> 1, value |-> s]
      BY <1>1
    <3>2. Objects(screen) = [version : Nat, value : Specs]
      BY <1>1, ObjectsOf
    <3> QED
      BY <3>1, <3>2
  <2>2. db' # None
    BY <1>1, <2>1, ObjectsOf DEF TypeOK
  <2> QED
    BY <1>1, <2>1, <2>2 DEF Age
<1>2. CASE screen \in {"new", "hook"} /\ db # None /\ \E s \in Specs : db' = Put(db, FALSE, s).object
  <2>1. PICK s \in Specs : db' = Put(db, FALSE, s).object
    BY <1>2
  <2>2. db' # db /\ db \in Objects(screen)
    BY <1>2 DEF TypeOK, Elsewhere
  <2> QED
    BY <1>2, <2>1, <2>2, PutFollows DEF Follows
<1>3. CASE screen = "tenant" /\ \E r \in Rows : db' = Patch(db, r).object
  <2>1. PICK r \in Rows : db' = Patch(db, r).object
    BY <1>3
  <2>2. r \in Bodies("tenant")
    BY DEF Bodies, Rows
  <2> QED
    BY <1>3, <2>1, <2>2, PatchFollows DEF Follows, TypeOK, Elsewhere
<1>4. CASE screen \in Lists /\ \E n \in Names : db' = Add(db, n).object
  <2>1. PICK n \in Names : db' = Add(db, n).object
    BY <1>4
  <2> QED
    BY <1>4, <2>1, AddFollows DEF Follows, TypeOK, Elsewhere, Lists
<1>5. CASE screen = "config" /\ \E c \in Configs : db' = Set(db, c).object
  <2>1. PICK c \in Configs : db' = Set(db, c).object
    BY <1>5
  <2> QED
    BY <1>5, <2>1, SetFollows DEF Follows, TypeOK, Elsewhere
<1> QED
  BY <1>1, <1>2, <1>3, <1>4, <1>5 DEF Elsewhere

-----------------------------------------------------------------------------
(* The invariant.                                                            *)

\* What a form of a screen holds and what a request of it carries.
LEMMA FormsOf ==
    /\ \A s \in {"new", "hook"} : Forms(s) = Specs /\ Bodies(s) = Specs
    /\ Forms("tenant") = Rows
    /\ \A s \in Lists : Forms(s) = Names /\ Bodies(s) = Names
    /\ Forms("config") = Configs /\ Bodies("config") = Configs
    /\ \A s \in Screens \ Lists : \A o \in Objects(s) : o.value \in Forms(s)
<1>1. \A s \in {"new", "hook"} : Forms(s) = Specs /\ Bodies(s) = Specs
  BY DEF Forms, Bodies, Values, Lists
<1>2. Forms("tenant") = Rows
  BY DEF Forms, Values, Lists
<1>3. \A s \in Lists : Forms(s) = Names /\ Bodies(s) = Names
  BY DEF Forms, Bodies, Lists
<1>4. Forms("config") = Configs /\ Bodies("config") = Configs
  BY DEF Forms, Bodies, Values, Lists
<1>5. ASSUME NEW s \in Screens \ Lists, NEW o \in Objects(s) PROVE o.value \in Forms(s)
  BY DEF Forms, Objects
<1> QED
  BY <1>1, <1>2, <1>3, <1>4, <1>5

\* The age of an object is its version.
LEMMA AgeOf ==
    /\ Age(None) = 0
    /\ \A s \in Screens : \A o \in Objects(s) : o # None /\ Age(o) = o.version /\ Age(o) \in Nat
<1>1. ASSUME NEW s \in Screens, NEW o \in Objects(s) PROVE o # None /\ o.version \in Nat
  BY ObjectsOf DEF Objects
<1> QED
  BY <1>1 DEF Age

\* The requests at rest.
LEMMA Blank ==
    ASSUME NEW s \in Screens
    PROVE  /\ NoFetch \in Fetches(s) /\ Sent(0) \in Fetches(s) /\ Sent(1) \in Fetches(s)
           /\ NoChange \in Requests(s)
           /\ \A t \in {0, 1} : Sent(t).at = "sent" /\ Sent(t).answer = None
           /\ NoFetch.at = "idle" /\ NoFetch.answer = None
           /\ NoChange.at = "idle" /\ NoChange.seen = 0 /\ NoChange.saved = None
           /\ NoChange.wrote = FALSE /\ NoChange.mine = FALSE
  BY DEF Fetches, Requests, NoFetch, NoChange, Sent

\* The ages of what the tab holds are numbers.
LEMMA AgesTyped ==
    ASSUME TypeOK
    PROVE  /\ Age(db) \in Nat /\ Age(data) \in Nat /\ change.seen \in Nat
           /\ fetch.answer \in Objects(screen) \cup {None} /\ Age(fetch.answer) \in Nat
           /\ change.saved \in Objects(screen) \cup {None} /\ Age(change.saved) \in Nat
<1>1. /\ fetch.answer \in Objects(screen) \cup {None}
      /\ change.saved \in Objects(screen) \cup {None} /\ change.seen \in Nat
  BY DEF TypeOK, Fetches, Requests
<1>2. screen \in Screens /\ data \in Objects(screen) \cup {None} /\ db \in Objects(screen) \cup {None}
  BY DEF TypeOK
<1> QED
  BY <1>1, <1>2, AgeOf

\* Every screen starts in the invariant.
LEMMA InitInv == ASSUME Init PROVE IInv
<1>1. Start(screen) \in Objects(screen) \/ (screen = "new" /\ Start(screen) = None)
  <2>1. CASE screen = "new"
    BY <2>1 DEF Start, Lists
  <2>2. CASE screen = "hook"
    <3>1. (CHOOSE c \in Contents \ BadContents : TRUE) \in Contents
      BY SetsAssumption
    <3>2. Start(screen) = [version |-> 1, value |-> [content |-> CHOOSE c \in Contents \ BadContents : TRUE,
                                                     caps |-> {}]]
      BY <2>2 DEF Start, Lists
    <3> QED
      BY <2>2, <3>1, <3>2, ObjectsOf DEF Specs
  <2>3. CASE screen = "tenant"
    <3>1. (CHOOSE v \in Vals : TRUE) \in Vals
      BY SetsAssumption
    <3>2. Start(screen) = [version |-> 1, value |-> [f \in Fields |-> CHOOSE v \in Vals : TRUE]]
      BY <2>3 DEF Start, Lists
    <3>3. [f \in Fields |-> CHOOSE v \in Vals : TRUE] \in Rows
      BY <3>1 DEF Rows
    <3> QED
      BY <2>3, <3>2, <3>3, ObjectsOf
  <2>4. CASE screen \in Lists
    <3>1. Start(screen) = [version |-> 1, value |-> {}]
      BY <2>4 DEF Start, Lists
    <3> QED
      BY <2>4, <3>1, ObjectsOf
  <2>5. CASE screen = "config"
    <3>1. Start(screen) = [version |-> 0, value |-> NoParams]
      BY <2>5 DEF Start, Lists, NoBinding
    <3> QED
      BY <2>5, <3>1, ObjectsOf, SetsAssumption
  <2> QED
    BY <2>1, <2>2, <2>3, <2>4, <2>5 DEF Init, Screens
<1>2. form \in IF screen = "new" THEN Specs ELSE {None}
  BY DEF Init, Specs
<1>3. screen \in Screens /\ (screen = "new" => Forms(screen) = Specs)
  BY FormsOf DEF Init
<1>4. TypeOK
  BY <1>1, <1>2, <1>3, Blank DEF Init, TypeOK
<1>5. Age(None) = 0 /\ 0 <= Age(db)
  BY <1>4, AgesTyped, AgeOf
<1> QED
  BY <1>2, <1>3, <1>4, <1>5, Blank DEF Init, IInv, FormInv, Showing, AgeInv, ChangeInv, DialogInv, TokenInv

\* A refetch asks again.
LEMMA RefetchKeeps == ASSUME IInv, Refetch PROVE IInv'
<1>1. /\ screen # "new" /\ fetch' = Sent(0)
      /\ UNCHANGED <<screen, db, data, failed, form, base, dialog, change, notice, others, saves, faults>>
  BY DEF Refetch, formVars, bounds
<1>2. TypeOK' /\ FormInv'
  BY <1>1, Blank DEF IInv, TypeOK, FormInv, Showing
<1>3. fetch'.answer = None /\ Age(None) = 0 /\ Age(db) \in Nat
  BY <1>1, Blank, AgesTyped, AgeOf DEF IInv, TypeOK
<1>4. AgeInv' /\ ChangeInv' /\ DialogInv' /\ TokenInv'
  BY <1>1, <1>3 DEF IInv, AgeInv, ChangeInv, DialogInv, TokenInv
<1> QED
  BY <1>2, <1>4 DEF IInv

\* What is read is not older than what was saved.
LEMMA ReadKeeps == ASSUME IInv, Read PROVE IInv'
<1>1. /\ fetch.at = "sent" /\ fetch' = [fetch EXCEPT !.at = "answered", !.answer = db]
      /\ UNCHANGED <<screen, db, data, failed, form, base, dialog, change, notice, others, saves, faults>>
  BY DEF Read, formVars, bounds
<1>2. screen # "new"
  BY <1>1, Blank DEF IInv, TypeOK, FormInv
<1>3. db \in Objects(screen) /\ fetch' \in Fetches(screen) /\ fetch'.answer = db
  BY <1>1, <1>2 DEF IInv, TypeOK, Fetches
<1>4. TypeOK'
  BY <1>1, <1>3 DEF IInv, TypeOK
<1>5. FormInv' /\ DialogInv' /\ TokenInv'
  BY <1>1, <1>2 DEF IInv, FormInv, Showing, DialogInv, TokenInv
<1>6. AgeInv'
  BY <1>1, <1>3, AgesTyped DEF IInv, AgeInv
<1>7. ChangeInv'
  <2>1. change.at = "awaiting" => db.version >= change.saved.version
    BY <1>3, AgeOf DEF IInv, TypeOK, AgeInv, ChangeInv
  <2> QED
    BY <1>1, <1>3, <2>1 DEF IInv, ChangeInv
<1> QED
  BY <1>4, <1>5, <1>6, <1>7 DEF IInv

\* A fetch may fail.
LEMMA ReadFaultKeeps == ASSUME IInv, ReadFault PROVE IInv'
<1>1. /\ fetch.at = "sent" /\ fetch' = [fetch EXCEPT !.at = "answered"] /\ faults' = faults + 1
      /\ UNCHANGED <<screen, db, data, failed, form, base, dialog, change, notice, others, saves>>
  BY DEF ReadFault, formVars
<1>2. screen # "new" /\ fetch' \in Fetches(screen) /\ fetch'.answer = fetch.answer
  BY <1>1, Blank DEF IInv, TypeOK, FormInv, Fetches
<1>3. TypeOK'
  BY <1>1, <1>2 DEF IInv, TypeOK
<1>4. FormInv' /\ AgeInv' /\ ChangeInv' /\ DialogInv' /\ TokenInv'
  BY <1>1, <1>2 DEF IInv, FormInv, Showing, AgeInv, ChangeInv, DialogInv, TokenInv
<1> QED
  BY <1>3, <1>4 DEF IInv

\* A failed fetch is tried once more.
LEMMA RetryKeeps == ASSUME IInv, Retry PROVE IInv'
<1>1. /\ fetch.at = "answered" /\ fetch' = Sent(1)
      /\ UNCHANGED <<screen, db, data, failed, form, base, dialog, change, notice, others, saves, faults>>
  BY DEF Retry, formVars, bounds
<1>2. TypeOK' /\ FormInv'
  BY <1>1, Blank DEF IInv, TypeOK, FormInv, Showing
<1>3. fetch'.answer = None /\ Age(None) = 0 /\ Age(db) \in Nat
  BY <1>1, Blank, AgesTyped, AgeOf DEF IInv, TypeOK
<1>4. AgeInv' /\ ChangeInv' /\ DialogInv' /\ TokenInv'
  BY <1>1, <1>3 DEF IInv, AgeInv, ChangeInv, DialogInv, TokenInv
<1> QED
  BY <1>2, <1>4 DEF IInv

\* A fetch is only answered where there is a query, and a form shows what it brings.
LEMMA LoadedKeeps == ASSUME IInv, Loaded PROVE IInv'
<1>1. /\ fetch.at = "answered" /\ fetch.answer # None
      /\ data' = fetch.answer /\ failed' = FALSE /\ fetch' = NoFetch
      /\ dialog' = Settled /\ change' = IF Awaiting THEN NoChange ELSE change
      /\ screen' = screen /\ db' = db
      /\ base' = IF screen = "hook" THEN Oldest(fetch.answer, ~Showing) ELSE base
      /\ others' = others /\ saves' = saves /\ faults' = faults
  BY DEF Loaded, bounds
<1>2. \/ screen \in {"hook", "config"} /\ ~Showing /\ form' = fetch.answer.value /\ notice' = "none"
      \/ /\ screen = "config" /\ Showing /\ Awaiting /\ form' = change.saved.value
         /\ notice' \in {"unchanged", "saved"}
      \/ (screen \in {"hook", "config"} => Showing) /\ form' = form /\ notice' = notice
  BY DEF Loaded, Restart
<1>3. fetch.answer \in Objects(screen) /\ screen \in Screens /\ screen # "new"
  BY <1>1, Blank DEF IInv, TypeOK, FormInv, Fetches
<1>4. Awaiting => change.saved \in Objects(screen)
  BY DEF IInv, ChangeInv, Awaiting
<1>5. screen \in {"hook", "config"} => form' \in Forms(screen)
  BY <1>2, <1>3, <1>4, FormsOf DEF IInv, FormInv, Lists
<1>6. form' \in Forms(screen) \cup {None} /\ notice' \in {"none", "unchanged", "saved", "refused"}
  BY <1>2, <1>5 DEF IInv, TypeOK
<1>7. dialog' \in {"closed", "open", "sending", "refetching", "shown"}
  BY <1>1 DEF Settled, IInv, TypeOK
<1>8. change' \in Requests(screen)
  BY <1>1, <1>3, Blank DEF IInv, TypeOK
<1>b. base' \in Bases(screen) \cup {None}
  BY <1>1, <1>3 DEF Oldest, Bases, IInv, TypeOK
<1>9. TypeOK'
  BY <1>1, <1>3, <1>6, <1>7, <1>8, <1>b, Blank DEF IInv, TypeOK
<1>10. FormInv'
  <2>1. Showing'
    BY <1>1 DEF Showing
  <2>2. screen = "tenant" => form' = form /\ (dialog' # "closed" => dialog # "closed")
    BY <1>1, <1>2 DEF Settled
  <2> QED
    BY <1>1, <1>3, <1>5, <2>1, <2>2 DEF IInv, FormInv
<1>11. AgeInv'
  <2>1. fetch'.answer = None /\ Age(None) = 0 /\ Age(db) \in Nat
    BY <1>1, <1>3, Blank, AgesTyped, AgeOf DEF IInv
  <2>2. change'.seen \in {0, change.seen} /\ change'.saved \in {None, change.saved}
    BY <1>1, <1>3, Blank
  <2> QED
    BY <1>1, <2>1, <2>2 DEF IInv, AgeInv
<1>12. ChangeInv'
  BY <1>1, <1>3, Blank DEF IInv, ChangeInv, Awaiting
<1>13. DialogInv' /\ TokenInv'
  <2>1. dialog = "refetching" => Awaiting
    BY DEF IInv, DialogInv, Awaiting
  <2>2. dialog' # "refetching" /\ (dialog = "sending" => dialog' = "sending")
    BY <1>1 DEF Settled
  <2>3. Awaiting => change'.at = "idle"
    BY <1>1, <1>3, Blank
  <2>4. dialog' # "closed" => dialog # "closed"
    BY <1>1 DEF Settled
  <2>5. DialogInv'
    BY <1>1, <2>2, <2>4 DEF IInv, DialogInv
  <2> QED
    BY <1>1, <2>1, <2>2, <2>3, <2>5 DEF IInv, TokenInv, Awaiting
<1> QED
  BY <1>9, <1>10, <1>11, <1>12, <1>13 DEF IInv

\* An error unmounts the form, but not the lists' dialogs.
LEMMA LoadFailsKeeps == ASSUME IInv, LoadFails PROVE IInv'
<1>1. /\ fetch.at = "answered" /\ fetch' = NoFetch /\ failed' = TRUE /\ notice' = "none"
      /\ screen' = screen /\ db' = db /\ data' = data
      /\ others' = others /\ saves' = saves /\ faults' = faults
  BY DEF LoadFails, bounds
<1>2. \/ /\ screen \in Lists /\ dialog' = Settled /\ form' = form /\ base' = base
         /\ change' = IF Awaiting THEN NoChange ELSE change
      \/ /\ screen \notin Lists /\ form' = None /\ base' = None /\ dialog' = "closed"
         /\ change' = IF Awaiting THEN NoChange ELSE [change EXCEPT !.mine = FALSE]
  BY DEF LoadFails
<1>3. screen \in Screens /\ screen # "new"
  BY <1>1, Blank DEF IInv, TypeOK, FormInv
<1>4. /\ change' \in Requests(screen)
      /\ \/ change' = NoChange /\ Awaiting
         \/ /\ ~Awaiting /\ change'.at = change.at /\ change'.body = change.body
            /\ change'.seen = change.seen /\ change'.saved = change.saved
            /\ change'.wrote = change.wrote /\ (screen \in Lists => change' = change)
            /\ (change = NoChange => change' = NoChange)
  <2>1. change \in Requests(screen) /\ NoChange \in Requests(screen)
    BY <1>3, Blank DEF IInv, TypeOK
  <2>2. CASE Awaiting
    BY <1>2, <2>1, <2>2
  <2>3. CASE ~Awaiting
    <3>1. change' \in {change, [change EXCEPT !.mine = FALSE]} /\ (screen \in Lists => change' = change)
      BY <1>2, <2>3
    <3>2. /\ [change EXCEPT !.mine = FALSE] \in Requests(screen)
          /\ change = NoChange => [change EXCEPT !.mine = FALSE] = NoChange
      BY <2>1 DEF Requests, NoChange
    <3>3. /\ change'.at = change.at /\ change'.body = change.body
          /\ change'.seen = change.seen /\ change'.saved = change.saved
          /\ change'.wrote = change.wrote
      BY <2>1, <3>1 DEF Requests
    <3> QED
      BY <2>1, <2>3, <3>1, <3>2, <3>3
  <2> QED
    BY <2>2, <2>3
<1>5. dialog' \in {"closed", "open", "sending", "refetching", "shown"}
  BY <1>2 DEF Settled, IInv, TypeOK
<1>6. TypeOK'
  BY <1>1, <1>2, <1>3, <1>4, <1>5, Blank DEF IInv, TypeOK
<1>7. FormInv'
  BY <1>1, <1>2, <1>3 DEF IInv, FormInv, Showing, Lists
<1>8. AgeInv'
  <2>1. fetch'.answer = None /\ Age(None) = 0 /\ Age(db) \in Nat
    BY <1>1, <1>3, Blank, AgesTyped, AgeOf DEF IInv
  <2>2. change'.seen \in {0, change.seen} /\ change'.saved \in {None, change.saved}
    BY <1>3, <1>4, Blank
  <2> QED
    BY <1>1, <2>1, <2>2 DEF IInv, AgeInv
<1>9. ChangeInv'
  BY <1>1, <1>3, <1>4, Blank DEF IInv, ChangeInv, Awaiting
<1>10. DialogInv'
  <2>1. dialog' # "refetching" /\ (dialog' # "closed" => dialog # "closed")
    BY <1>2 DEF Settled
  <2> QED
    BY <1>1, <2>1 DEF IInv, DialogInv
<1>11. TokenInv'
  <2> SUFFICES ASSUME screen = "keys" PROVE TokenInv'
    BY <1>1 DEF TokenInv
  <2>1. dialog = "sending" => dialog' = "sending"
    BY <1>2 DEF Settled, Lists
  <2>2. Awaiting => change'.at = "idle"
    BY <1>3, <1>4, Blank
  <2>3. ~Awaiting => change' = change
    BY <1>4 DEF Lists
  <2> QED
    BY <1>1, <2>1, <2>2, <2>3 DEF IInv, TokenInv, Awaiting
<1> QED
  BY <1>6, <1>7, <1>8, <1>9, <1>10, <1>11 DEF IInv

\* Typing disturbs nothing else.
LEMMA TypingKeeps ==
    ASSUME IInv, form' \in Forms(screen), screen \in {"hook", "config"} => Showing,
           screen = "tenant" => dialog # "closed",
           UNCHANGED <<screen, db, data, failed, fetch, base, dialog, change, notice, others, saves, faults>>
    PROVE  IInv'
<1>1. TypeOK'
  BY DEF IInv, TypeOK
<1>2. FormInv'
  BY FormsOf DEF IInv, FormInv, Showing
<1> QED
  BY <1>1, <1>2 DEF IInv, AgeInv, ChangeInv, DialogInv, TokenInv

\* The forms' inputs.
LEMMA EditKeeps == ASSUME IInv, Edit PROVE IInv'
<1>1. HookForm => form \in Specs /\ screen \in {"new", "hook"}
  BY FormsOf DEF HookForm, IInv, FormInv
<1>2. ASSUME NEW c \in Contents, EditContent(c) PROVE IInv'
  <2>1. form' \in Forms(screen)
    BY <1>1, <1>2, FormsOf DEF EditContent, Specs
  <2> QED
    BY <1>1, <1>2, <2>1, TypingKeeps DEF EditContent, HookForm, queryVars, bounds
<1>3. ASSUME NEW x \in Caps, AddCap(x) \/ RemoveCap(x) PROVE IInv'
  <2>1. form' \in Forms(screen)
    BY <1>1, <1>3, FormsOf DEF AddCap, RemoveCap, Specs
  <2> QED
    BY <1>1, <1>3, <2>1, TypingKeeps DEF AddCap, RemoveCap, HookForm, queryVars, bounds
<1>4. ASSUME NEW f \in Fields, NEW v \in Vals, EditField(f, v) PROVE IInv'
  <2>1. form \in Rows
    BY <1>4 DEF EditField, IInv, FormInv
  <2>2. form' \in Forms(screen)
    BY <1>4, <2>1, FormsOf DEF EditField, Rows
  <2> QED
    BY <1>4, <2>2, TypingKeeps DEF EditField, queryVars, bounds
<1>5. ASSUME NEW n \in Names, TypeName(n) PROVE IInv'
  <2>1. form' \in Forms(screen) /\ screen \notin {"hook", "config", "tenant"}
    BY <1>5, FormsOf DEF TypeName, Lists
  <2> QED
    BY <1>5, <2>1, TypingKeeps DEF TypeName, queryVars, bounds
<1>6. ASSUME NEW c \in Configs, EditParams(c) PROVE IInv'
  BY <1>6, FormsOf, TypingKeeps DEF EditParams, queryVars, bounds
<1> QED
  BY <1>2, <1>3, <1>4, <1>5, <1>6 DEF Edit

\* A dialog whose request is not pending opens and closes as it likes.
LEMMA DialogKeeps ==
    ASSUME IInv, screen \in {"tenant"} \cup Lists,
           dialog \in {"closed", "open", "shown"}, dialog' \in {"closed", "open"},
           form' \in Forms(screen) \cup {None}, base' \in Forms(screen) \cup {None},
           screen = "tenant" => /\ (dialog' # "closed" => form' \in Rows)
                                /\ (failed => form' = None /\ dialog' = "closed"),
           UNCHANGED <<screen, db, data, failed, fetch, change, notice, others, saves, faults>>
    PROVE  IInv'
<1>1. TypeOK'
  BY DEF IInv, TypeOK, Bases, Lists
<1>2. FormInv'
  BY DEF IInv, FormInv, Lists
<1>3. TokenInv' /\ DialogInv'
  BY DEF IInv, TokenInv, DialogInv
<1> QED
  BY <1>1, <1>2, <1>3 DEF IInv, AgeInv, ChangeInv

\* A dialog opens.
LEMMA OpenDialogKeeps == ASSUME IInv, OpenDialog PROVE IInv'
<1>1. /\ dialog = "closed" /\ screen \in {"tenant"} \cup Lists /\ dialog' = "open"
      /\ form' = (IF screen = "tenant" THEN data.value ELSE None) /\ base' = form'
      /\ (screen = "tenant" => data # None /\ ~failed)
      /\ UNCHANGED <<screen, db, data, failed, fetch, change, notice, others, saves, faults>>
  BY DEF OpenDialog, Showing, queryVars, bounds
<1>2. screen = "tenant" => form' \in Rows
  <2>1. screen = "tenant" => data \in Objects("tenant")
    BY <1>1 DEF IInv, TypeOK
  <2>2. Objects("tenant") = [version : Nat, value : Rows]
    BY ObjectsOf
  <2> QED
    BY <1>1, <2>1, <2>2
<1> QED
  BY <1>1, <1>2, FormsOf, DialogKeeps

\* A dialog closes.
LEMMA CloseDialogKeeps == ASSUME IInv, CloseDialog PROVE IInv'
<1>1. /\ dialog \in {"open", "shown"} /\ dialog' = "closed" /\ form' = None /\ base' = None
      /\ UNCHANGED <<screen, db, data, failed, fetch, change, notice, others, saves, faults>>
  BY DEF CloseDialog, Closable, queryVars, bounds
<1>2. screen \in {"tenant"} \cup Lists
  BY <1>1 DEF IInv, DialogInv
<1> QED
  BY <1>1, <1>2, DialogKeeps

\* A change sent: what it carries, and the version shown when it was.
LEMMA SendMakes ==
    ASSUME TypeOK, NEW body \in Bodies(screen), Send(body)
    PROVE  /\ change' \in Requests(screen) /\ saves' \in Nat
           /\ change'.at = "sent" /\ change'.body = body /\ change'.seen = Age(data)
           /\ change'.mine = TRUE /\ change'.saved = None /\ change'.wrote = FALSE
<1>1. change' = [at |-> "sent", body |-> body, seen |-> Age(data), mine |-> TRUE,
                 saved |-> None, wrote |-> FALSE]
  BY DEF Send, NoChange, Age
<1>2. Age(data) \in Nat
  BY AgesTyped
<1>3. saves' \in Nat
  BY DEF Send, TypeOK
<1> QED
  BY <1>1, <1>2, <1>3 DEF Requests

\* A change is sent from an idle tab; a dialog then waits.
LEMMA SendKeeps ==
    ASSUME IInv, NEW body \in Bodies(screen), Send(body), change.at = "idle",
           notice' \in {"none", "unchanged", "saved", "refused"},
           \/ screen \in {"tenant"} \cup Lists /\ dialog = "open" /\ dialog' = "sending"
           \/ screen \notin {"tenant"} \cup Lists /\ dialog' = dialog,
           UNCHANGED <<screen, db, data, failed, fetch, form, base, others, faults>>
    PROVE  IInv'
<1>1. /\ change' \in Requests(screen) /\ saves' \in Nat
      /\ change'.at = "sent" /\ change'.body = body /\ change'.seen = Age(data)
      /\ change'.mine = TRUE /\ change'.saved = None /\ change'.wrote = FALSE
  BY SendMakes DEF IInv
<1>2. TypeOK'
  BY <1>1 DEF IInv, TypeOK
<1>3. FormInv'
  BY <1>1 DEF IInv, FormInv, Showing
<1>4. AgeInv'
  BY <1>1, AgesTyped, AgeOf DEF IInv, AgeInv
<1>5. ChangeInv'
  BY <1>1, AgeOf DEF IInv, ChangeInv
<1>6. DialogInv' /\ TokenInv'
  BY <1>1 DEF IInv, DialogInv, TokenInv, Lists
<1> QED
  BY <1>2, <1>3, <1>4, <1>5, <1>6 DEF IInv

\* The hook form is sent.
LEMMA SaveHookKeeps == ASSUME IInv, SaveHook PROVE IInv'
<1>1. screen \in {"new", "hook"} /\ form \in Specs
  BY FormsOf DEF SaveHook, HookForm, IInv, FormInv
<1>2. form \in Bodies(screen) /\ screen \notin {"tenant"} \cup Lists
  BY <1>1, FormsOf DEF Lists
<1> QED
  BY <1>2, SendKeeps DEF SaveHook, queryVars, formVars

\* A tenant's difference is sent, or there is none.
LEMMA SaveTenantKeeps == ASSUME IInv, SaveTenant PROVE IInv'
<1>1. /\ screen = "tenant" /\ dialog = "open" /\ change.at = "idle"
      /\ UNCHANGED <<screen, db, data, failed, fetch, notice, others, faults>>
      /\ \/ dialog' = "closed" /\ form' = None /\ base' = None /\ UNCHANGED <<change, saves>>
         \/ Send([f \in Changes |-> form[f]]) /\ dialog' = "sending" /\ UNCHANGED <<form, base>>
  BY DEF SaveTenant, queryVars
<1>2. CASE dialog' = "closed" /\ form' = None /\ base' = None /\ UNCHANGED <<change, saves>>
  BY <1>1, <1>2, DialogKeeps
<1>3. CASE Send([f \in Changes |-> form[f]]) /\ dialog' = "sending" /\ UNCHANGED <<form, base>>
  <2>1. form \in Rows
    BY <1>1 DEF IInv, FormInv
  <2>2. Changes \in SUBSET Fields /\ [f \in Changes |-> form[f]] \in [Changes -> Vals]
    BY <2>1 DEF Changes, Rows
  <2>3. [f \in Changes |-> form[f]] \in Bodies(screen)
    BY <1>1, <2>2 DEF Bodies
  <2>4. notice \in {"none", "unchanged", "saved", "refused"}
    BY DEF IInv, TypeOK
  <2> QED
    BY <1>1, <1>3, <2>3, <2>4, SendKeeps
<1> QED
  BY <1>1, <1>2, <1>3

\* Parameters are sent, or are as shown.
LEMMA SaveParamsKeeps == ASSUME IInv, SaveParams PROVE IInv'
<1>1. /\ screen = "config" /\ Showing /\ change.at = "idle"
      /\ UNCHANGED <<screen, db, data, failed, fetch, form, base, dialog, others, faults>>
      /\ \/ notice' = "unchanged" /\ UNCHANGED <<change, saves>>
         \/ Send(form) /\ notice' = "none"
  BY DEF SaveParams, queryVars, formVars
<1>2. CASE notice' = "unchanged" /\ UNCHANGED <<change, saves>>
  BY <1>1, <1>2 DEF IInv, TypeOK, FormInv, Showing, AgeInv, ChangeInv, DialogInv, TokenInv
<1>3. CASE Send(form) /\ notice' = "none"
  <2>1. form \in Bodies(screen) /\ screen \notin {"tenant"} \cup Lists
    BY <1>1, FormsOf DEF IInv, FormInv, Lists
  <2> QED
    BY <1>1, <1>3, <2>1, SendKeeps
<1> QED
  BY <1>1, <1>2, <1>3

\* A name is sent.
LEMMA SaveNameKeeps == ASSUME IInv, SaveName PROVE IInv'
<1>1. /\ screen \in Lists /\ dialog = "open" /\ form # None /\ change.at = "idle"
      /\ Send(form) /\ dialog' = "sending"
      /\ UNCHANGED <<screen, db, data, failed, fetch, form, base, notice, others, faults>>
  BY DEF SaveName, queryVars
<1>2. form \in Bodies(screen)
  BY <1>1, FormsOf DEF IInv, TypeOK
<1>3. notice \in {"none", "unchanged", "saved", "refused"}
  BY DEF IInv, TypeOK
<1> QED
  BY <1>1, <1>2, <1>3, SendKeeps

\* The server's object only gets older by whole versions.
LEMMA LaterAge ==
    ASSUME TypeOK, NEW p, Follows(screen, db, p)
    PROVE  /\ Age(p) \in Nat /\ Age(db) <= Age(p)
           /\ p \in Objects(screen) \/ (p = db /\ screen = "new" /\ p = None)
           /\ db \in Objects(screen) => p \in Objects(screen)
           /\ p # db => p \in Objects(screen) /\ Age(p) = Age(db) + 1
<1>1. Age(db) \in Nat
  BY AgesTyped
<1> QED
  BY <1>1 DEF Follows, TypeOK

\* A step of the server's object alone disturbs no form.
LEMMA ServerKeeps ==
    ASSUME IInv, Follows(screen, db, db'), change' \in Requests(screen),
           change' = change \/ (change.at # "idle" /\ change'.mine = change.mine),
           Age(change'.saved) <= Age(db'), change'.seen = change.seen,
           others' \in Nat, faults' \in Nat,
           UNCHANGED <<screen, data, failed, fetch, form, base, dialog, notice, saves>>
    PROVE  TypeOK' /\ FormInv' /\ AgeInv'
<1>1. /\ Age(db') \in Nat /\ Age(db) <= Age(db')
      /\ db' \in Objects(screen) \/ (screen = "new" /\ db' = None)
  BY LaterAge DEF IInv
<1>2. TypeOK'
  BY <1>1 DEF IInv, TypeOK
<1>3. FormInv'
  BY DEF IInv, FormInv, Showing
<1>4. Age(db) \in Nat /\ Age(data) \in Nat /\ Age(fetch.answer) \in Nat /\ change.seen \in Nat
  BY AgesTyped DEF IInv
<1>5. AgeInv'
  BY <1>1, <1>4 DEF IInv, AgeInv
<1> QED
  BY <1>2, <1>3, <1>5

\* A save that wrote made a version after the one shown.
LEMMA ServeKeeps == ASSUME IInv, Serve PROVE IInv'
<1> DEFINE r == Outcome(change.body)
<1>1. /\ change.at = "sent" /\ db' = r.object
      /\ change' = [change EXCEPT !.at = IF r.ok THEN "done" ELSE "refused",
                                  !.saved = r.object, !.wrote = r.object # db]
      /\ UNCHANGED <<screen, data, failed, fetch, form, base, dialog, notice, others, saves, faults>>
  BY DEF Serve, queryVars, formVars, bounds
<1>2. change.body \in Bodies(screen) /\ ~change.wrote
  BY <1>1 DEF IInv, ChangeInv
<1>3. r.ok \in BOOLEAN /\ (r.ok => r.object \in Objects(screen)) /\ Follows(screen, db, r.object)
  BY <1>2, OutcomeFollows DEF IInv
<1> HIDE DEF r
<1>4. /\ Age(db') \in Nat /\ Age(db) <= Age(db')
      /\ db' \in Objects(screen) \cup {None}
      /\ db' # db => db' \in Objects(screen) /\ Age(db') = Age(db) + 1
  BY <1>1, <1>3, LaterAge DEF IInv
<1>5. /\ change' \in Requests(screen)
      /\ change'.at = (IF r.ok THEN "done" ELSE "refused") /\ change'.saved = db'
      /\ change'.seen = change.seen /\ change'.mine = change.mine
      /\ change'.wrote = (db' # db)
  BY <1>1, <1>3, <1>4 DEF IInv, TypeOK, Requests
<1>6. TypeOK' /\ FormInv' /\ AgeInv'
  BY <1>1, <1>3, <1>4, <1>5, ServerKeeps DEF IInv, TypeOK
<1>7. ChangeInv'
  <2>1. r.ok => db' \in Objects(screen) /\ Age(db') = db'.version
    BY <1>1, <1>3, AgeOf DEF IInv, TypeOK
  <2>2. Age(db) \in Nat /\ change.seen \in Nat /\ change.seen <= Age(db)
    BY AgesTyped DEF IInv, AgeInv
  <2>3. change'.at \in {"done", "refused"} /\ (change'.at = "done" => r.ok)
    BY <1>3, <1>5
  <2>4. r.ok /\ change'.wrote => change'.saved.version > change'.seen
    <3> SUFFICES ASSUME r.ok, change'.wrote PROVE db'.version > change.seen
      BY <1>5
    <3>1. db' # db
      BY <1>5
    <3>2. Age(db') = Age(db) + 1 /\ Age(db') = db'.version
      BY <1>4, <2>1, <3>1
    <3> QED
      BY <2>2, <3>2
  <2>5. change.seen # 0 => data # None
    BY DEF IInv, ChangeInv
  <2> QED
    BY <1>1, <1>5, <2>1, <2>3, <2>4, <2>5 DEF ChangeInv
<1>8. DialogInv' /\ TokenInv'
  BY <1>1, <1>3, <1>5 DEF IInv, DialogInv, TokenInv
<1> QED
  BY <1>6, <1>7, <1>8 DEF IInv

\* So does one whose answer is lost.
LEMMA ServeFaultKeeps == ASSUME IInv, ServeFault PROVE IInv'
<1>1. /\ change.at = "sent" /\ faults' = faults + 1
      /\ db' \in {db, Outcome(change.body).object}
      /\ change' = [change EXCEPT !.at = "refused", !.wrote = db' # db]
      /\ UNCHANGED <<screen, data, failed, fetch, form, base, dialog, notice, others, saves>>
  BY DEF ServeFault, queryVars, formVars
<1>2. Follows(screen, db, db')
  BY <1>1, OutcomeFollows DEF IInv, ChangeInv, Follows
<1>3. /\ change' \in Requests(screen) /\ change'.at = "refused" /\ change'.saved = change.saved
      /\ change'.seen = change.seen /\ change'.mine = change.mine
  BY <1>1 DEF IInv, TypeOK, Requests
<1>4. Age(change'.saved) <= Age(db') /\ faults' \in Nat /\ others' \in Nat
  BY <1>1, <1>2, <1>3, LaterAge, AgesTyped DEF IInv, AgeInv, TypeOK
<1>5. TypeOK' /\ FormInv' /\ AgeInv'
  BY <1>1, <1>2, <1>3, <1>4, ServerKeeps
<1>6. ChangeInv' /\ DialogInv' /\ TokenInv'
  BY <1>1, <1>3 DEF IInv, ChangeInv, DialogInv, TokenInv
<1> QED
  BY <1>5, <1>6 DEF IInv

\* Others' changes only make later versions.
LEMMA ElsewhereKeeps == ASSUME IInv, Elsewhere PROVE IInv'
<1>1. /\ others' = others + 1
      /\ UNCHANGED <<screen, data, failed, fetch, form, base, dialog, change, notice, saves, faults>>
  BY DEF Elsewhere, queryVars, formVars
<1>2. db' \in Objects(screen) /\ Age(db') = Age(db) + 1
  BY ElsewhereFollows DEF IInv
<1>3. Follows(screen, db, db')
  BY <1>2 DEF Follows
<1>4. /\ Age(change'.saved) <= Age(db') /\ others' \in Nat /\ faults' \in Nat
      /\ change' \in Requests(screen)
  BY <1>1, <1>2, AgesTyped DEF IInv, AgeInv, TypeOK
<1>5. TypeOK' /\ FormInv' /\ AgeInv'
  BY <1>1, <1>3, <1>4, ServerKeeps
<1>6. ChangeInv' /\ DialogInv' /\ TokenInv'
  BY <1>1, <1>2 DEF IInv, ChangeInv, DialogInv, TokenInv
<1> QED
  BY <1>5, <1>6 DEF IInv

\* The answer to a definition's save is what the page shows next.
LEMMA HookSavedKeeps == ASSUME IInv, HookSaved PROVE IInv'
<1>1. /\ screen \in {"new", "hook"} /\ change.at = "done"
      /\ data' = change.saved /\ failed' = FALSE /\ screen' = "hook"
      /\ form' = (IF change.mine \/ ~Showing THEN change.saved.value ELSE form)
      /\ base' = Oldest(change.saved, change.mine \/ ~Showing)
      /\ change' = NoChange
      /\ UNCHANGED <<db, fetch, dialog, others, saves, faults>>
  BY DEF HookSaved, bounds
<1>2. notice' \in {"none", "unchanged", "saved", "refused"}
  BY DEF HookSaved, IInv, TypeOK
<1>3. /\ Objects(screen) = Objects("hook") /\ Forms(screen) = Forms("hook")
      /\ Forms(screen) = Specs /\ Fetches(screen) = Fetches("hook")
  BY <1>1, ObjectsOf, FormsOf DEF Fetches
<1>4. /\ change.saved \in Objects("hook") /\ change.saved # None
      /\ change.saved.value \in Specs /\ db \in Objects("hook")
  <2>1. change.saved \in Objects("hook") /\ db \in Objects("hook")
    BY <1>1, <1>3 DEF IInv, ChangeInv
  <2> QED
    BY <2>1, <1>3, ObjectsOf, FormsOf DEF Screens, Lists
<1>5. form' \in Specs
  BY <1>1, <1>3, <1>4 DEF IInv, FormInv, Showing
<1>b. base' \in Bases("hook") \cup {None}
  <2>1. screen = "new" => change.mine
    BY <1>1 DEF IInv, FormInv
  <2>2. screen = "hook" => base \in Objects("hook") \cup {None}
    BY DEF IInv, TypeOK, Bases
  <2> QED
    BY <1>1, <1>4, <2>1, <2>2 DEF Oldest, Bases
<1>6. TypeOK'
  BY <1>1, <1>2, <1>3, <1>4, <1>5, <1>b, Blank DEF IInv, TypeOK, Screens
<1>7. FormInv'
  BY <1>1, <1>3, <1>4, <1>5 DEF FormInv, Showing
<1>8. AgeInv'
  <2>1. Age(None) = 0 /\ Age(db) \in Nat
    BY AgeOf, AgesTyped DEF IInv
  <2>2. NoChange.seen = 0 /\ NoChange.saved = None
    BY Blank DEF Screens
  <2> QED
    BY <1>1, <2>1, <2>2 DEF IInv, AgeInv
<1>9. ChangeInv'
  BY <1>1, Blank DEF ChangeInv, Screens
<1>10. DialogInv' /\ TokenInv'
  BY <1>1 DEF IInv, DialogInv, TokenInv, Lists
<1> QED
  BY <1>6, <1>7, <1>8, <1>9, <1>10 DEF IInv

\* A list fetched again starts after the save.
LEMMA ListSavedKeeps == ASSUME IInv, ListSaved PROVE IInv'
<1>1. /\ screen \in {"tenant", "config"} \cup Lists /\ change.at = "done"
      /\ fetch' = (IF data = None /\ fetch # NoFetch THEN fetch ELSE Sent(0))
      /\ UNCHANGED <<screen, db, data, failed, form, base, notice, others, saves, faults>>
  BY DEF ListSaved, bounds
<1>2. \/ /\ change.mine /\ dialog' = IF dialog = "sending" THEN "refetching" ELSE dialog
         /\ change' = [change EXCEPT !.at = "awaiting"]
      \/ ~change.mine /\ dialog' = dialog /\ change' = NoChange
  BY DEF ListSaved
<1>3. screen \in Screens /\ NoChange \in Requests(screen) /\ NoChange.at = "idle"
  BY Blank DEF IInv, TypeOK
<1>4. /\ change' \in Requests(screen)
      /\ \/ change' = NoChange
         \/ /\ change.mine /\ change'.at = "awaiting" /\ change'.seen = change.seen
            /\ change'.saved = change.saved /\ change'.wrote = change.wrote
  BY <1>2, <1>3 DEF IInv, TypeOK, Requests
<1>5. TypeOK'
  BY <1>1, <1>2, <1>3, <1>4, Blank DEF IInv, TypeOK
<1>6. FormInv'
  BY <1>1, <1>2 DEF IInv, FormInv, Showing, Lists
<1>7. fetch'.answer \in {None, fetch.answer} /\ (data # None => fetch'.answer = None)
  BY <1>1, <1>3, Blank
<1>8. AgeInv'
  <2>1. Age(None) = 0 /\ Age(db) \in Nat
    BY AgeOf, AgesTyped DEF IInv
  <2>2. change'.seen \in {0, change.seen} /\ change'.saved \in {None, change.saved}
    BY <1>3, <1>4, Blank
  <2> QED
    BY <1>1, <1>7, <2>1, <2>2 DEF IInv, AgeInv
<1>9. ChangeInv'
  BY <1>1, <1>3, <1>4, <1>7, Blank DEF IInv, ChangeInv
<1>10. DialogInv'
  <2>1. dialog' # "closed" => dialog # "closed"
    BY <1>2
  <2>2. dialog' = "refetching" => change'.at = "awaiting"
    BY <1>1, <1>2 DEF IInv, DialogInv, TypeOK, Requests
  <2> QED
    BY <1>1, <2>1, <2>2 DEF IInv, DialogInv
<1>11. TokenInv'
  BY <1>1, <1>2, <1>3, <1>4 DEF IInv, TokenInv
<1> QED
  BY <1>5, <1>6, <1>8, <1>9, <1>10, <1>11 DEF IInv

\* A refused save leaves the dialog open.
LEMMA RefusedKeeps == ASSUME IInv, Refused PROVE IInv'
<1>1. /\ change.at = "refused" /\ change' = NoChange
      /\ dialog' \in {dialog, "open"} /\ (dialog' # dialog => dialog = "sending")
      /\ UNCHANGED <<screen, db, data, failed, fetch, form, base, others, saves, faults>>
  BY DEF Refused, queryVars, bounds
<1>2. notice' \in {"none", "unchanged", "saved", "refused"}
  BY DEF Refused, IInv, TypeOK
<1>3. screen \in Screens /\ NoChange \in Requests(screen) /\ NoChange.at = "idle"
  BY Blank DEF IInv, TypeOK
<1>4. TypeOK'
  BY <1>1, <1>2, <1>3 DEF IInv, TypeOK
<1>5. FormInv'
  BY <1>1, <1>3 DEF IInv, FormInv, Showing
<1>6. AgeInv'
  <2>1. Age(None) = 0 /\ Age(db) \in Nat
    BY AgeOf, AgesTyped DEF IInv
  <2>2. NoChange.seen = 0 /\ NoChange.saved = None
    BY <1>3, Blank
  <2> QED
    BY <1>1, <2>1, <2>2 DEF IInv, AgeInv
<1>7. ChangeInv'
  BY <1>1, <1>3, Blank DEF ChangeInv
<1>8. DialogInv' /\ TokenInv'
  BY <1>1, <1>3 DEF IInv, DialogInv, TokenInv
<1> QED
  BY <1>4, <1>5, <1>6, <1>7, <1>8 DEF IInv

\* Every step keeps the invariant.
LEMMA StepInv == IInv /\ [Next]_vars => IInv'
<1> SUFFICES ASSUME IInv, [Next]_vars PROVE IInv'
  OBVIOUS
<1>1. CASE User
  BY <1>1, EditKeeps, OpenDialogKeeps, CloseDialogKeeps, SaveHookKeeps, SaveTenantKeeps,
     SaveNameKeeps, SaveParamsKeeps DEF User
<1>2. CASE Client
  BY <1>2, LoadedKeeps, RetryKeeps, LoadFailsKeeps, HookSavedKeeps, ListSavedKeeps, RefusedKeeps
     DEF Client
<1>3. CASE Refetch \/ Read \/ ReadFault
  BY <1>3, RefetchKeeps, ReadKeeps, ReadFaultKeeps
<1>4. CASE Serve \/ ServeFault \/ Elsewhere
  BY <1>4, ServeKeeps, ServeFaultKeeps, ElsewhereKeeps
<1>5. CASE UNCHANGED vars
  BY <1>5 DEF vars, IInv, TypeOK, FormInv, Showing, AgeInv, ChangeInv, DialogInv, TokenInv
<1> QED
  BY <1>1, <1>2, <1>3, <1>4, <1>5 DEF Next

\* The inductive invariant holds of every behaviour of an editing screen.
THEOREM Invariant == Spec => []IInv
  BY InitInv, StepInv, PTL DEF Spec

-----------------------------------------------------------------------------
(* What a hook's form knows to be allowed.                                   *)

\* A step that brings no new hook lets none shrink.
LEMMA NoNewHook ==
    ASSUME GrowthInv, Hooks' \subseteq Hooks, db' = db,
           screen' \in {"new", "hook"} => screen \in {"new", "hook"}
    PROVE  GrowthInv'
  BY DEF GrowthInv

\* The hooks of the tab are the server's, now or before.
LEMMA HooksAreKnown ==
    ASSUME IInv, CapsInv, screen \in {"new", "hook"}, NEW o \in Hooks
    PROVE  /\ db # None /\ db.version \in Nat /\ o.version \in Nat /\ o.version <= db.version
           /\ o.value.caps \subseteq db.value.caps
<1>1. db # None /\ db \in Objects(screen) /\ db \in Hooks
  BY DEF CapsInv, GrowthInv, Hooks, IInv, TypeOK
<1>2. /\ \A x \in {db, data, fetch.answer, change.saved} \ {None} :
            x \in Objects(screen) /\ Age(x) <= Age(db)
      /\ screen \in Screens
  BY <1>1, AgesTyped DEF IInv, TypeOK, AgeInv
<1>3. base # None => /\ base \in Objects(screen) /\ data # None
                     /\ base.version <= data.version
  BY DEF IInv, TypeOK, Bases, CapsInv, KnownInv, Showing
<1>4. \A x \in Objects(screen) : Age(x) = x.version /\ x.version \in Nat
  BY <1>2, AgeOf
<1>5. o \in Objects(screen) /\ o.version <= db.version
  BY <1>1, <1>2, <1>3, <1>4 DEF Hooks
<1>6. Grown(o, db)
  BY <1>1 DEF CapsInv, GrowthInv
<1> QED
  BY <1>1, <1>4, <1>5, <1>6 DEF Grown

\* The server's next hook allows what every one before it did.
LEMMA ServerGrows ==
    ASSUME IInv, CapsInv, Serve \/ ServeFault \/ Elsewhere
    PROVE  GrowthInv'
<1> SUFFICES ASSUME screen \in {"new", "hook"} PROVE GrowthInv'
  BY DEF GrowthInv, Serve, ServeFault, Elsewhere
<1>1. /\ screen' = screen /\ Hooks' \subseteq Hooks \cup ({db'} \ {None})
      /\ Follows(screen, db, db')
      /\ db # None => db.value.caps \subseteq (db.value.caps)'
  <2>1. CASE Serve \/ ServeFault
    <3>1. /\ change.at = "sent" /\ (db' = db \/ db' = Outcome(change.body).object)
          /\ change'.saved \in {change.saved, db'}
          /\ UNCHANGED <<screen, data, fetch, base>>
      BY <2>1 DEF Serve, ServeFault, queryVars, formVars, IInv, TypeOK, Requests
    <3>2. change.body \in Bodies(screen)
      BY <3>1 DEF IInv, ChangeInv
    <3>3. Hooks' \subseteq Hooks \cup ({db'} \ {None})
      BY <3>1 DEF Hooks
    <3> QED
      BY <3>1, <3>2, <3>3, OutcomeFollows DEF IInv, Follows
  <2>2. CASE Elsewhere
    <3>1. UNCHANGED <<screen, data, fetch, change, base>>
      BY <2>2 DEF Elsewhere, queryVars, formVars
    <3>2. Hooks' \subseteq Hooks \cup ({db'} \ {None})
      BY <3>1 DEF Hooks
    <3> QED
      BY <2>2, <3>1, <3>2, ElsewhereFollows DEF IInv, Follows
  <2> QED
    BY <2>1, <2>2
<1>2. CASE db' = db
  <2>1. Hooks' \subseteq Hooks
    BY <1>1, <1>2 DEF Hooks
  <2> QED
    BY <1>1, <1>2, <2>1, NoNewHook DEF CapsInv
<1>3. CASE db' # db
  <2>1. db' \in Objects(screen) /\ Age(db') = Age(db) + 1 /\ screen \in Screens
    BY <1>1, <1>3 DEF Follows, IInv, TypeOK
  <2>2. db' # None /\ db'.version \in Nat /\ db'.version = Age(db) + 1
    BY <2>1, AgeOf
  <2>3. ASSUME NEW o \in Hooks PROVE Grown(o, db') /\ Grown(db', o)
    <3>1. /\ db # None /\ db.version \in Nat /\ o.version \in Nat /\ o.version <= db.version
          /\ o.value.caps \subseteq db.value.caps
      BY <2>3, HooksAreKnown
    <3>2. ~(db'.version <= o.version)
      BY <2>2, <3>1 DEF Age
    <3> QED
      BY <1>1, <3>1, <3>2 DEF Grown
  <2>4. Grown(db', db')
    BY DEF Grown
  <2>5. \A o, p \in Hooks \cup {db'} : Grown(o, p)
    BY <2>3, <2>4 DEF CapsInv, GrowthInv
  <2> QED
    BY <1>1, <2>2, <2>5 DEF GrowthInv
<1> QED
  BY <1>2, <1>3

\* Typing takes nothing away that a hook shown allowed: the lock is that of a hook at
\* least as late as each of them.
LEMMA EditKnows == ASSUME IInv, CapsInv, Edit PROVE CapsInv'
<1>1. UNCHANGED <<screen, db, data, failed, fetch, base, dialog, change>>
  BY DEF Edit, EditContent, AddCap, RemoveCap, EditField, TypeName, EditParams, queryVars
<1>2. GrowthInv'
  BY <1>1, NoNewHook DEF CapsInv, Hooks
<1>3. ASSUME screen = "hook", Showing PROVE base.value.caps \subseteq form'.caps
  <2>1. /\ form \in Specs /\ base.value.caps \subseteq form.caps
        /\ base # None /\ base.version <= data.version /\ data # None
    BY <1>3, FormsOf DEF CapsInv, KnownInv, IInv, FormInv, Showing
  <2>2. base.value.caps \subseteq data.value.caps
    <3>1. base \in Hooks /\ data \in Hooks
      BY <2>1 DEF Hooks
    <3> QED
      BY <1>3, <2>1, <3>1 DEF CapsInv, GrowthInv, Grown
  <2>3. CASE \E c \in Contents : EditContent(c)
    BY <2>1, <2>3 DEF EditContent, Specs
  <2>4. CASE \E x \in Caps : AddCap(x)
    BY <2>1, <2>4 DEF AddCap, Specs
  <2>5. CASE \E x \in Caps : RemoveCap(x)
    BY <1>3, <2>1, <2>2, <2>5 DEF RemoveCap, Locked, Specs
  <2>6. ~\E f \in Fields, v \in Vals : EditField(f, v)
    BY <1>3 DEF EditField
  <2>7. ~\E n \in Names : TypeName(n)
    BY <1>3 DEF TypeName, Lists
  <2>8. ~\E c \in Configs : EditParams(c)
    BY <1>3 DEF EditParams
  <2> QED
    BY <2>3, <2>4, <2>5, <2>6, <2>7, <2>8 DEF Edit
<1>4. KnownInv'
  BY <1>1, <1>3 DEF CapsInv, KnownInv, Showing, KnownCapsAreKept
<1> QED
  BY <1>2, <1>4 DEF CapsInv

\* Data that arrives can only lower what the form is held to.
LEMMA LoadedKnows == ASSUME IInv, CapsInv, Loaded PROVE CapsInv'
<1>1. /\ fetch.at = "answered" /\ fetch.answer # None
      /\ data' = fetch.answer /\ failed' = FALSE /\ fetch' = NoFetch
      /\ change' = IF Awaiting THEN NoChange ELSE change
      /\ screen' = screen /\ db' = db
      /\ base' = IF screen = "hook" THEN Oldest(fetch.answer, ~Showing) ELSE base
  BY DEF Loaded
<1>2. screen # "new" /\ screen \in Screens /\ fetch.answer \in Objects(screen)
  BY <1>1, Blank, AgesTyped DEF IInv, TypeOK, FormInv
<1>3. GrowthInv'
  <2>1. fetch'.answer = None /\ change'.saved \in {change.saved, None}
    BY <1>1, <1>2, Blank
  <2>2. Hooks' \subseteq Hooks
    BY <1>1, <2>1 DEF Hooks, Oldest
  <2> QED
    BY <1>1, <2>2, NoNewHook DEF CapsInv
<1>4. KnownInv'
  <2> SUFFICES ASSUME screen = "hook" PROVE KnownInv'
    BY <1>1, <1>2 DEF KnownInv, KnownCapsAreKept
  <2>1. change' = change /\ Showing'
    BY <1>1 DEF IInv, ChangeInv, Awaiting, Lists, Showing
  <2>2. fetch.answer.version \in Nat
    BY <1>2 DEF Objects
  <2>3. CASE ~Showing
    <3>1. form' = fetch.answer.value /\ base' = fetch.answer
      BY <1>1, <2>3 DEF Loaded, Oldest
    <3>2. change.at # "idle" => ~change.mine
      BY <2>3 DEF CapsInv, KnownInv
    <3> QED
      BY <1>1, <2>1, <2>2, <3>1, <3>2 DEF KnownInv, KnownCapsAreKept
  <2>4. CASE Showing
    <3>1. /\ form' = form /\ base' = Oldest(fetch.answer, FALSE)
          /\ base # None /\ base \in Objects(screen) /\ base.value.caps \subseteq form.caps
      BY <1>1, <2>4 DEF Loaded, CapsInv, KnownInv, IInv, TypeOK, Bases
    <3>2. base.version \in Nat
      BY <3>1 DEF Objects
    <3>3. fetch.answer.version < base.version => fetch.answer.value.caps \subseteq base.value.caps
      <4>1. fetch.answer \in Hooks /\ base \in Hooks
        BY <1>1, <3>1 DEF Hooks
      <4> QED
        BY <2>2, <3>2, <4>1 DEF CapsInv, GrowthInv, Grown
    <3>4. /\ base' # None /\ base'.version <= data'.version
          /\ base'.value.caps \subseteq base.value.caps
      BY <1>1, <2>2, <3>1, <3>2, <3>3 DEF Oldest
    <3> QED
      BY <1>1, <2>1, <3>1, <3>4 DEF CapsInv, KnownInv, KnownCapsAreKept
  <2> QED
    BY <2>3, <2>4
<1> QED
  BY <1>3, <1>4 DEF CapsInv

\* The answer to a save fills the form of its page, or lowers what another form of the
\* page is held to.
LEMMA HookSavedKnows == ASSUME IInv, CapsInv, HookSaved PROVE CapsInv'
<1>1. /\ screen \in {"new", "hook"} /\ change.at = "done" /\ screen' = "hook" /\ db' = db
      /\ data' = change.saved /\ failed' = FALSE /\ fetch' = fetch
      /\ form' = (IF change.mine \/ ~Showing THEN change.saved.value ELSE form)
      /\ base' = Oldest(change.saved, change.mine \/ ~Showing)
      /\ change' = NoChange
  BY DEF HookSaved
<1>2. change.saved \in Objects(screen) /\ change.saved # None /\ change.saved.version \in Nat
  BY <1>1, AgeOf DEF IInv, ChangeInv, TypeOK, Objects
<1>3. change'.saved = None /\ change'.at = "idle"
  BY <1>1, Blank DEF IInv, TypeOK
<1>4. GrowthInv'
  <2>1. Hooks' \subseteq Hooks
    BY <1>1, <1>2, <1>3 DEF Hooks, Oldest
  <2> QED
    BY <1>1, <2>1, NoNewHook DEF CapsInv
<1>5. KnownInv'
  <2>1. CASE change.mine \/ ~Showing
    BY <1>1, <1>2, <1>3, <2>1 DEF KnownInv, KnownCapsAreKept, Oldest, Showing
  <2>2. CASE ~(change.mine \/ ~Showing)
    <3>1. /\ screen = "hook" /\ base # None /\ base \in Objects(screen)
          /\ base.value.caps \subseteq form.caps
      BY <1>1, <2>2 DEF IInv, FormInv, TypeOK, Bases, CapsInv, KnownInv
    <3>2. base.version \in Nat
      BY <3>1 DEF Objects
    <3>3. change.saved.version < base.version => change.saved.value.caps \subseteq base.value.caps
      <4>1. change.saved \in Hooks /\ base \in Hooks
        BY <1>2, <3>1 DEF Hooks
      <4> QED
        BY <1>1, <1>2, <3>2, <4>1 DEF CapsInv, GrowthInv, Grown
    <3>4. /\ base' # None /\ base'.version <= data'.version
          /\ base'.value.caps \subseteq base.value.caps
      BY <1>1, <1>2, <2>2, <3>1, <3>2, <3>3 DEF Oldest
    <3>5. form' = form /\ data' # None /\ screen' = "hook" /\ change'.at = "idle"
      BY <1>1, <1>2, <1>3, <2>2
    <3>6. base'.value.caps \subseteq form'.caps
      BY <3>1, <3>4, <3>5
    <3>7. Showing'
      BY <1>1, <3>5 DEF Showing
    <3> QED
      BY <3>4, <3>5, <3>6, <3>7 DEF KnownInv, KnownCapsAreKept
  <2> QED
    BY <2>1, <2>2
<1> QED
  BY <1>4, <1>5 DEF CapsInv

\* Every step keeps it.
LEMMA CapsStep == IInv /\ CapsInv /\ [Next]_vars => CapsInv'
<1> SUFFICES ASSUME IInv, CapsInv, [Next]_vars PROVE CapsInv'
  OBVIOUS
<1>0. screen \in Screens /\ change.saved \in Objects(screen) \cup {None}
  BY AgesTyped DEF IInv, TypeOK
<1>1. CASE Refetch \/ Read \/ ReadFault \/ Retry
  <2>1. UNCHANGED <<screen, db, data, failed, form, base, dialog, change>>
    BY <1>1 DEF Refetch, Read, ReadFault, Retry, formVars
  <2>2. fetch'.answer \in {None, fetch.answer, db}
    BY <1>0, <1>1, Blank DEF Refetch, Read, ReadFault, Retry, IInv, TypeOK, Fetches
  <2>3. Hooks' \subseteq Hooks
    BY <2>1, <2>2 DEF Hooks
  <2>4. KnownInv'
    BY <2>1 DEF CapsInv, KnownInv, Showing, KnownCapsAreKept
  <2> QED
    BY <2>1, <2>3, <2>4, NoNewHook DEF CapsInv
<1>2. CASE LoadFails
  <2>1. /\ screen' = screen /\ db' = db /\ data' = data /\ failed' = TRUE /\ fetch' = NoFetch
        /\ fetch.at = "answered"
        /\ screen \notin Lists => base' = None
        /\ screen = "hook" => change' = [change EXCEPT !.mine = FALSE]
    BY <1>2 DEF LoadFails, IInv, ChangeInv, Awaiting, Lists
  <2>2. fetch'.answer = None /\ screen # "new"
    BY <1>0, <2>1, Blank DEF IInv, FormInv
  <2>3. screen = "hook" => change'.saved = change.saved /\ ~change'.mine
    BY <2>1 DEF IInv, TypeOK, Requests
  <2>4. screen = "hook" => Hooks' \subseteq Hooks /\ base' = None
    BY <2>1, <2>2, <2>3 DEF Hooks, Lists
  <2>5. GrowthInv'
    BY <2>1, <2>2, <2>4, NoNewHook DEF CapsInv, GrowthInv
  <2>6. KnownInv'
    BY <2>1, <2>2, <2>3, <2>4 DEF KnownInv, KnownCapsAreKept, Showing
  <2> QED
    BY <2>5, <2>6 DEF CapsInv
<1>3. CASE OpenDialog \/ CloseDialog \/ SaveTenant \/ SaveName \/ SaveParams \/ ListSaved
  <2>1. screen \notin {"new", "hook"} /\ screen' = screen
    BY <1>3 DEF OpenDialog, CloseDialog, Closable, SaveTenant, SaveName, SaveParams, ListSaved, Lists,
       IInv, DialogInv
  <2> QED
    BY <2>1 DEF CapsInv, GrowthInv, KnownInv, KnownCapsAreKept
<1>4. CASE SaveHook
  <2>1. /\ screen \in {"new", "hook"} /\ form \in Bodies(screen) /\ Send(form)
        /\ screen = "hook" => Showing
        /\ UNCHANGED <<screen, db, data, failed, fetch, form, base>>
    BY <1>4, FormsOf DEF SaveHook, HookForm, queryVars, formVars, IInv, FormInv
  <2>2. change'.body = form /\ change'.saved = None
    BY <2>1, SendMakes DEF IInv
  <2>3. Hooks' \subseteq Hooks
    BY <2>1, <2>2 DEF Hooks
  <2>4. KnownInv'
    BY <2>1, <2>2 DEF CapsInv, KnownInv, KnownCapsAreKept, Showing
  <2> QED
    BY <2>1, <2>3, <2>4, NoNewHook DEF CapsInv
<1>5. CASE Serve \/ ServeFault \/ Elsewhere
  <2>1. UNCHANGED <<screen, data, failed, form, base>>
    BY <1>5 DEF Serve, ServeFault, Elsewhere, queryVars, formVars
  <2>2. \/ change' = change
        \/ change.at = "sent" /\ change'.at # "sent" /\ change'.mine = change.mine
    BY <1>5 DEF Serve, ServeFault, Elsewhere, IInv, TypeOK, Requests
  <2>3. KnownInv'
    BY <2>1, <2>2 DEF CapsInv, KnownInv, KnownCapsAreKept, Showing
  <2> QED
    BY <1>5, <2>3, ServerGrows DEF CapsInv
<1>6. CASE Refused
  <2>1. change' = NoChange /\ UNCHANGED <<screen, db, data, failed, fetch, form, base>>
    BY <1>6 DEF Refused, queryVars
  <2>2. change'.saved = None /\ change'.at = "idle"
    BY <1>0, <2>1, Blank
  <2>3. Hooks' \subseteq Hooks
    BY <2>1, <2>2 DEF Hooks
  <2>4. KnownInv'
    BY <2>1, <2>2 DEF CapsInv, KnownInv, KnownCapsAreKept, Showing
  <2> QED
    BY <2>1, <2>3, <2>4, NoNewHook DEF CapsInv
<1>7. CASE UNCHANGED vars
  <2>1. Hooks' = Hooks
    BY <1>7 DEF vars, Hooks
  <2> QED
    BY <1>7, <2>1 DEF vars, CapsInv, GrowthInv, KnownInv, KnownCapsAreKept, Showing
<1> QED
  BY <1>1, <1>2, <1>3, <1>4, <1>5, <1>6, <1>7, EditKnows, LoadedKnows, HookSavedKnows
     DEF Next, User, Client

\* No form is filled yet, and there is one hook at most.
LEMMA CapsBegin == Init => CapsInv
<1> SUFFICES ASSUME Init PROVE CapsInv
  OBVIOUS
<1>1. Hooks = {db} \ {None} /\ NoChange.at = "idle"
  BY Blank DEF Init, Hooks
<1>2. GrowthInv
  BY <1>1 DEF GrowthInv, Grown
<1>3. KnownInv
  BY <1>1 DEF Init, KnownInv, KnownCapsAreKept, Showing
<1> QED
  BY <1>2, <1>3 DEF CapsInv

\* However many operators save, refetches answer and older answers arrive meanwhile, a
\* hook's form never asks to take away what every hook shown since it was filled
\* allowed (hook-form.tsx, string-list-input.tsx).
THEOREM KnownCapsStay == Spec => []KnownCapsAreKept
<1>1. CapsInv => KnownCapsAreKept
  BY DEF CapsInv, KnownInv
<1> QED
  BY <1>1, CapsBegin, CapsStep, Invariant, PTL DEF Spec

-----------------------------------------------------------------------------
(* What follows.                                                             *)

\* "Изменений нет" is only told of a save that wrote nothing, although others write,
\* and refetches answer, between the submit and its answer (hook-form.tsx,
\* binding-config-editor.tsx).
THEOREM UnchangedTold == Spec => UnchangedIsTrue
<1> DEFINE A == notice' = "unchanged" /\ notice # "unchanged" => ~change.wrote
<1>1. IInv /\ [Next]_vars => [A]_vars
  <2> SUFFICES ASSUME IInv, Next, notice' = "unchanged", notice # "unchanged" PROVE ~change.wrote
    BY DEF vars
  <2>1. change = NoChange => ~change.wrote
    BY DEF NoChange
  <2>2. CASE SaveParams
    BY <2>1, <2>2 DEF SaveParams, IInv, ChangeInv
  <2>3. CASE Loaded
    <3>1. Awaiting /\ change.saved.version = change.seen
      BY <2>3 DEF Loaded, Restart
    <3>2. change.seen \in Nat /\ change.saved \in Objects(screen) /\ screen \in Screens
      BY <3>1 DEF IInv, ChangeInv, Awaiting, TypeOK, Requests
    <3> QED
      BY <3>1, <3>2 DEF IInv, ChangeInv, Awaiting
  <2>4. CASE HookSaved
    <3>1. change.at = "done" /\ change.saved.version = change.seen
      BY <2>4 DEF HookSaved
    <3>2. change.seen \in Nat
      BY DEF IInv, TypeOK, Requests
    <3> QED
      BY <3>1, <3>2 DEF IInv, ChangeInv
  <2>5. CASE Edit \/ OpenDialog \/ CloseDialog
    BY <2>5 DEF Edit, EditContent, AddCap, RemoveCap, EditField, TypeName, EditParams, OpenDialog, CloseDialog
  <2>6. CASE SaveHook \/ SaveTenant \/ SaveName
    BY <2>6 DEF SaveHook, SaveTenant, SaveName
  <2>7. CASE Retry \/ LoadFails \/ ListSaved \/ Refused
    BY <2>7 DEF Retry, LoadFails, ListSaved, Refused
  <2>8. CASE Refetch \/ Read \/ ReadFault \/ Serve \/ ServeFault \/ Elsewhere
    BY <2>8 DEF Refetch, Read, ReadFault, Serve, ServeFault, Elsewhere
  <2> QED
    BY <2>2, <2>3, <2>4, <2>5, <2>6, <2>7, <2>8 DEF Next, User, Client
<1> QED
  BY <1>1, Invariant, PTL DEF Spec, UnchangedIsTrue

\* What was typed only changes by the operator's hand, by their own save, or with the
\* page that an error replaces (tenant-hook-page.tsx, hook-form.tsx).
THEOREM TypedSurvives == Spec => EditsSurvive
<1> DEFINE A == form # None /\ form' # form =>
                  \/ Edit \/ OpenDialog \/ CloseDialog \/ SaveTenant
                  \/ change.mine /\ change' = NoChange /\ form' = change.saved.value
                  \/ failed' /\ ~failed
<1>1. IInv /\ [Next]_vars => [A]_vars
  <2> SUFFICES ASSUME IInv, Next, form # None, form' # form,
                      ~(Edit \/ OpenDialog \/ CloseDialog \/ SaveTenant)
               PROVE  \/ change.mine /\ change' = NoChange /\ form' = change.saved.value
                      \/ failed' /\ ~failed
    BY DEF vars
  <2>1. CASE Loaded
    <3>1. ~(screen \in {"hook", "config"} /\ ~Showing)
      BY DEF IInv, FormInv
    <3> QED
      BY <2>1, <3>1 DEF Loaded, Restart
  <2>2. CASE LoadFails
    <3>1. screen \notin Lists /\ failed' = TRUE /\ fetch.at = "answered"
      BY <2>2 DEF LoadFails
    <3>2. screen \in {"hook", "config", "tenant"}
      BY <3>1, Blank DEF IInv, TypeOK, FormInv, Screens
    <3>3. ~failed
      BY <3>2 DEF IInv, FormInv, Showing
    <3> QED
      BY <3>1, <3>3
  <2>3. CASE HookSaved
    <3>1. screen = "new" => change.mine
      BY <2>3 DEF HookSaved, IInv, FormInv
    <3>2. screen = "hook" => Showing
      BY DEF IInv, FormInv
    <3> QED
      BY <2>3, <3>1, <3>2 DEF HookSaved
  <2>4. CASE SaveHook \/ SaveName \/ SaveParams
    BY <2>4 DEF SaveHook, SaveName, SaveParams, formVars
  <2>5. CASE Retry \/ ListSaved \/ Refused
    BY <2>5 DEF Retry, ListSaved, Refused, formVars
  <2>6. CASE Refetch \/ Read \/ ReadFault \/ Serve \/ ServeFault \/ Elsewhere
    BY <2>6 DEF Refetch, Read, ReadFault, Serve, ServeFault, Elsewhere, formVars
  <2> QED
    BY <2>1, <2>2, <2>3, <2>4, <2>5, <2>6 DEF Next, User, Client
<1> QED
  BY <1>1, Invariant, PTL DEF Spec, EditsSurvive

\* A tenant's dialog that closed on success left a list that shows the change
\* (use-save-tenant.ts), whatever fetch was running when it was saved.
THEOREM ClosedIsListed == Spec => ClosedMeansListed
<1> DEFINE A == dialog = "refetching" /\ dialog' = "closed" /\ change.seen # 0 =>
                  failed' \/ (data.version)' >= change.saved.version
<1>1. IInv /\ [Next]_vars => [A]_vars
  <2> SUFFICES ASSUME IInv, Next, dialog = "refetching", dialog' = "closed", change.seen # 0
               PROVE  failed' \/ (data.version)' >= change.saved.version
    BY DEF vars
  <2>1. change.at = "awaiting"
    BY DEF IInv, DialogInv
  <2>2. CASE Loaded
    BY <2>1, <2>2 DEF Loaded, IInv, ChangeInv
  <2>3. CASE LoadFails
    BY <2>3 DEF LoadFails
  <2>4. CASE Edit \/ OpenDialog \/ CloseDialog
    BY <2>4 DEF Edit, EditContent, AddCap, RemoveCap, EditField, TypeName, EditParams, OpenDialog,
       CloseDialog, Closable
  <2>5. CASE SaveHook \/ SaveTenant \/ SaveName \/ SaveParams
    BY <2>1, <2>5 DEF SaveHook, SaveTenant, SaveName, SaveParams
  <2>6. CASE Retry \/ HookSaved \/ ListSaved \/ Refused
    BY <2>1, <2>6 DEF Retry, HookSaved, ListSaved, Refused, formVars
  <2>7. CASE Refetch \/ Read \/ ReadFault \/ Serve \/ ServeFault \/ Elsewhere
    BY <2>7 DEF Refetch, Read, ReadFault, Serve, ServeFault, Elsewhere, formVars
  <2> QED
    BY <2>2, <2>3, <2>4, <2>5, <2>6, <2>7 DEF Next, User, Client
<1> QED
  BY <1>1, Invariant, PTL DEF Spec, ClosedMeansListed

\* The safety half of IssuedTokenIsShown: while a key is asked for or its answer is
\* on the way, the dialog that will show its token is there, waiting
\* (issue-api-key-dialog.tsx refuses to close a pending dialog).
THEOREM TokenHasItsDialog ==
    Spec => []((screen = "keys" /\ change.at \in {"sent", "done"}) => dialog = "sending")
<1>1. IInv => ((screen = "keys" /\ change.at \in {"sent", "done"}) => dialog = "sending")
  BY DEF IInv, TokenInv
<1> QED
  BY <1>1, Invariant, PTL
================================================================================
