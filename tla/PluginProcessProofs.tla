------------------------- MODULE PluginProcessProofs -------------------------
(***************************************************************************)
(* The daemon and a plugin process agree on the instances, for any          *)
(* instances, generations, workers and number of calls.                     *)
(*                                                                          *)
(* That the two sides agree between replacements is not inductive: a        *)
(* request abandoned earlier may still run in the child.  The invariant     *)
(* adds which requests those can be (AgreeInv: while the last outcome is    *)
(* known, no replacement but the one the daemon waits for), what that one   *)
(* carries (ReplaceInv), and which set the effects being applied match      *)
(* while it is decided (EffectsInv).                                        *)
(***************************************************************************)
EXTENDS PluginProcess, TLAPS

Sets == [Ids -> 0 .. MaxGeneration]
Methods == {"none", "initialize", "replace", "call", "shutdown"}
Steps == {"sent", "running", "done", "failed", "dropped"}
CallType == [n : Nat, method : Methods, set : Sets, step : Steps, cancelled : BOOLEAN]
SdkType == [initialized : BOOLEAN, ready : BOOLEAN, wasReady : BOOLEAN, held : Sets,
            running : Nat, stopped : BOOLEAN]
EffectType == [step : {"none", "captured", "sent", "admitted"}, id : Ids, gen : 0 .. MaxGeneration]

TypesInv ==
    /\ instances \in Sets
    /\ calls \in SUBSET CallType
    /\ sdk \in SdkType
    /\ effects \in [Workers -> EffectType]

\* The requests have different ids, and one of them is the last.
CallsInv ==
    /\ \A c, d \in calls : c.n = d.n => c = d
    /\ \E c \in calls : \A d \in calls : d.n <= c.n

\* A set is proposed exactly while a replacement is under way, and none is
\* begun after an unknown outcome.
PendingInv ==
    IF host \in {"drain", "replace"} THEN pending \in Desired /\ outcome # "unknown"
                                     ELSE pending = Nil

\* The daemon waits for the request that carries the proposed set.
ReplaceInv ==
    host = "replace" =>
        /\ Current.method = "replace" /\ Current.set = pending /\ ~Current.cancelled
        /\ Current.step \in {"sent", "running", "failed", "done"}

\* While the last outcome is known, no other replacement can still run, and
\* the plugin holds the committed set, or the proposed one if it has answered.
AgreeInv ==
    outcome # "unknown" =>
        /\ \A c \in calls : c.method = "replace" /\ c.step \in {"sent", "running"} =>
                host = "replace" /\ c = Current
        /\ sdk.held = IF host = "replace" /\ Current.step = "done" THEN pending ELSE instances

\* An effect being applied belongs to the committed set, and to the proposed
\* one once the request is out.
EffectsInv ==
    \A w \in Workers : InFlight(effects[w]) =>
        /\ InstanceMatches(instances, effects[w])
        /\ host = "replace" => InstanceMatches(pending, effects[w])

IInv == TypesInv /\ CallsInv /\ PendingInv /\ ReplaceInv /\ AgreeInv /\ EffectsInv

----------------------------------------------------------------------------
(* The requests                                                             *)

\* A proposed set is never taken for the absence of one.
LEMMA ProposedIsNotNil ==
    ASSUME ProcessAssumption, NEW set \in Desired
    PROVE  set # Nil
<1>1. PICK i \in Ids : TRUE
  BY DEF ProcessAssumption
<1>2. set[i] \in 0 .. MaxGeneration
  BY <1>1 DEF ProcessAssumption
<1> QED
  BY <1>1, <1>2 DEF Nil, ProcessAssumption

\* The last of a set of requests is the one whose id is the largest.
LEMMA LastIs ==
    ASSUME NEW S, \A d \in S : d.n \in Nat, \A d, e \in S : d.n = e.n => d = e,
           NEW c \in S, \A d \in S : d.n <= c.n
    PROVE  (CHOOSE x \in S : \A d \in S : d.n <= x.n) = c
<1> DEFINE last == CHOOSE x \in S : \A d \in S : d.n <= x.n
<1>1. last \in S /\ \A d \in S : d.n <= last.n
  OBVIOUS
<1> HIDE DEF last
<1>2. last.n <= c.n /\ c.n <= last.n /\ last.n \in Nat /\ c.n \in Nat
  BY <1>1
<1>3. last.n = c.n
  BY <1>2
<1>4. last = c
  BY <1>1, <1>3
<1> QED
  BY <1>4 DEF last

\* The current request is the one with the largest id.
LEMMA CurrentIsLast ==
    ASSUME TypesInv, CallsInv
    PROVE  /\ Current \in calls /\ Current \in CallType
           /\ \A d \in calls : d.n <= Current.n
<1>1. Current \in calls /\ \A d \in calls : d.n <= Current.n
  BY DEF Current, CallsInv
<1> QED
  BY <1>1 DEF TypesInv

\* What becomes of a request leaves its id and the others as they are.
LEMMA PutCall ==
    ASSUME TypesInv, CallsInv, NEW c \in calls, NEW e \in CallType, e.n = c.n, Put(e)
    PROVE  /\ CallsInv' /\ calls' \in SUBSET CallType
           /\ Current' = IF c = Current THEN e ELSE Current
           /\ \A d \in calls' : d = e \/ (d \in calls /\ d # c)
<1>1. calls' = {d \in calls : d.n # e.n} \cup {e}
  BY DEF Put
<1>2. \A d \in calls' : d = e \/ (d \in calls /\ d # c /\ d.n # e.n)
  BY <1>1
<1>3. calls' \in SUBSET CallType /\ \A d \in calls' : d.n \in Nat
  BY <1>1 DEF TypesInv, CallType
<1>4. \A d, f \in calls' : d.n = f.n => d = f
  BY <1>2 DEF CallsInv
<1> DEFINE last == IF c = Current THEN e ELSE Current
<1>5. last \in calls' /\ \A d \in calls' : d.n <= last.n
  <2>1. CASE c = Current
    BY <2>1, <1>1, <1>2, CurrentIsLast DEF CallType
  <2>2. CASE c # Current
    <3>1. Current.n # e.n
      BY <2>2, CurrentIsLast DEF CallsInv
    <3>2. Current \in calls'
      BY <1>1, <3>1, CurrentIsLast
    <3>3. \A d \in calls' : d.n <= Current.n
      BY <1>2, CurrentIsLast
    <3> QED
      BY <2>2, <3>2, <3>3
  <2> QED
    BY <2>1, <2>2
<1>6. Current' = (CHOOSE x \in calls' : \A d \in calls' : d.n <= x.n)
  BY DEF Current
<1> HIDE DEF last
<1>7. Current' = last
  BY <1>3, <1>4, <1>5, <1>6, LastIs
<1>8. CallsInv'
  BY <1>4, <1>5 DEF CallsInv
<1> QED
  BY <1>2, <1>3, <1>7, <1>8 DEF last

\* A new request is the last; of the others only those that are not over stay.
LEMMA NewCall ==
    ASSUME TypesInv, CallsInv, NEW method \in Methods, NEW set \in Sets, Call(method, set)
    PROVE  /\ CallsInv' /\ calls' \in SUBSET CallType
           /\ Current' = [n |-> NextId, method |-> method, set |-> set, step |-> "sent",
                          cancelled |-> FALSE]
           /\ \A d \in calls' : d = Current' \/ d \in calls
<1> DEFINE new == [n |-> NextId, method |-> method, set |-> set, step |-> "sent",
                   cancelled |-> FALSE]
<1>0. Current.n \in Nat /\ NextId = Current.n + 1
  BY CurrentIsLast DEF NextId, CallType
<1>1. new \in CallType /\ new.n = NextId
  BY <1>0 DEF CallType, Steps
<1>2. calls' = {c \in calls : c.step \in {"sent", "running"}} \cup {new}
  BY DEF Call
<1> HIDE DEF new
<1>3. \A d \in calls' : d = new \/ (d \in calls /\ d.n \in Nat /\ d.n < new.n)
  BY <1>0, <1>1, <1>2, CurrentIsLast DEF TypesInv, CallType
<1>4. calls' \in SUBSET CallType /\ new \in calls' /\ \A d \in calls' : d.n \in Nat
  BY <1>1, <1>2, <1>3, <1>0 DEF TypesInv, CallType
<1>5. \A d \in calls' : d.n <= new.n
  BY <1>3, <1>4
<1>6. \A d, f \in calls' : d.n = f.n => d = f
  BY <1>3, <1>0, <1>1 DEF CallsInv
<1>7. Current' = (CHOOSE x \in calls' : \A d \in calls' : d.n <= x.n)
  BY DEF Current
<1>8. Current' = new
  BY <1>4, <1>5, <1>6, <1>7, LastIs
<1>9. CallsInv'
  BY <1>4, <1>5, <1>6 DEF CallsInv
<1> QED
  BY <1>3, <1>4, <1>8, <1>9 DEF new

----------------------------------------------------------------------------
(* The effects                                                              *)

\* A step of the effects that gives the daemon to apply only what belongs to
\* the committed set, and to the proposed one, keeps the invariant.
LEMMA EffectStep ==
    ASSUME IInv, NEW w \in Workers, NEW e \in EffectType,
           effects' = [effects EXCEPT ![w] = e],
           InFlight(e) => /\ InstanceMatches(instances, e)
                          /\ host = "replace" => InstanceMatches(pending, e),
           UNCHANGED <<host, started, instances, pending, outcome, calls, link, signal, child, sdk>>
    PROVE  IInv'
<1>1. TypesInv'
  BY DEF IInv, TypesInv
<1>2. CallsInv' /\ PendingInv' /\ Current' = Current
  BY DEF IInv, CallsInv, PendingInv, Current, Nil
<1>3. ReplaceInv' /\ AgreeInv'
  BY <1>2 DEF IInv, ReplaceInv, AgreeInv
<1>4. EffectsInv'
  <2> SUFFICES ASSUME NEW v \in Workers, InFlight(effects'[v])
               PROVE  /\ InstanceMatches(instances, effects'[v])
                      /\ host = "replace" => InstanceMatches(pending, effects'[v])
    BY DEF EffectsInv, InFlight, InstanceMatches
  <2>1. CASE v = w
    BY <2>1 DEF IInv, TypesInv
  <2>2. CASE v # w
    BY <2>2 DEF IInv, TypesInv, EffectsInv
  <2> QED
    BY <2>1, <2>2
<1> QED
  BY <1>1, <1>2, <1>3, <1>4 DEF IInv

LEMMA NoEffectType ==
    ASSUME ProcessAssumption
    PROVE  NoEffect \in EffectType /\ ~InFlight(NoEffect)
  BY DEF ProcessAssumption, NoEffect, EffectType, InFlight

\* While a set is proposed, only what belongs to both sets is admitted.
LEMMA AdmittedMatches ==
    ASSUME ProcessAssumption, PendingInv, NEW e, Admission(e) = "admitted"
    PROVE  /\ InstanceMatches(instances, e)
           /\ host = "replace" => InstanceMatches(pending, e)
<1>1. host = "replace" => pending # Nil
  BY ProposedIsNotNil DEF PendingInv
<1> QED
  BY <1>1 DEF Admission

LEMMA EffectKeeps ==
    ASSUME ProcessAssumption, IInv, Effect
    PROVE  IInv'
<1> PICK w \in Workers : Capture(w) \/ Ask(w) \/ Admit(w) \/ Finish(w) \/ Unserved(w)
  BY DEF Effect
<1>0. effects[w] \in EffectType
  BY DEF IInv, TypesInv
<1>1. CASE Capture(w)
  <2>1. PICK i \in Ids, set \in {sdk.held} \cup {c.set : c \in {d \in calls : d.n = sdk.running}} :
            effects' = [effects EXCEPT ![w] = [step |-> "captured", id |-> i, gen |-> set[i]]]
    BY Zenon, <1>1 DEF Capture
  <2>2. set \in Sets
    BY DEF IInv, TypesInv, SdkType, CallType
  <2>3. [step |-> "captured", id |-> i, gen |-> set[i]] \in EffectType
    BY <2>2 DEF EffectType, Sets
  <2> QED
    BY Zenon, <1>1, <2>1, <2>3, EffectStep DEF Capture, InFlight
<1>2. CASE Ask(w)
  <2> DEFINE e == IF sdk.ready THEN [effects[w] EXCEPT !.step = "sent"] ELSE NoEffect
  <2>1. e \in EffectType /\ ~InFlight(e)
    BY <1>0, NoEffectType DEF EffectType, InFlight
  <2>2. effects' = [effects EXCEPT ![w] = e]
    BY <1>2 DEF Ask
  <2> HIDE DEF e
  <2> QED
    BY Zenon, <1>2, <2>1, <2>2, EffectStep DEF Ask
<1>3. CASE Admit(w)
  <2> DEFINE e == IF Admission(effects[w]) = "admitted"
                  THEN [effects[w] EXCEPT !.step = "admitted"] ELSE NoEffect
  <2>1. e \in EffectType
    BY <1>0, NoEffectType DEF EffectType
  <2>2. InFlight(e) => Admission(effects[w]) = "admitted" /\ e.id = effects[w].id /\ e.gen = effects[w].gen
    BY <1>0, NoEffectType DEF EffectType
  <2>3. InFlight(e) => /\ InstanceMatches(instances, e)
                       /\ host = "replace" => InstanceMatches(pending, e)
    BY <2>2, AdmittedMatches DEF InstanceMatches, IInv
  <2>4. effects' = [effects EXCEPT ![w] = e]
    BY <1>3 DEF Admit
  <2> HIDE DEF e
  <2> QED
    BY Zenon, <1>3, <2>1, <2>3, <2>4, EffectStep DEF Admit
<1>4. CASE Finish(w)
  BY Zenon, <1>4, NoEffectType, EffectStep DEF Finish
<1>5. CASE Unserved(w)
  BY Zenon, <1>5, NoEffectType, EffectStep DEF Unserved
<1> QED
  BY <1>1, <1>2, <1>3, <1>4, <1>5

----------------------------------------------------------------------------
(* The runtime of the plugin                                                *)

\* A step of the plugin on one request that is not over: the plugin has the
\* set of a replacement exactly when it answers that it is done.
LEMMA RuntimeStep ==
    ASSUME IInv, NEW c \in calls, c.step \in {"sent", "running"},
           NEW step \in {"running", "done", "failed", "dropped"},
           step = "dropped" => c.cancelled,
           Put([c EXCEPT !.step = step]),
           sdk' \in SdkType,
           c.method # "replace" => sdk'.held = sdk.held,
           c.method = "replace" /\ ~c.cancelled =>
               sdk'.held = IF step = "done" THEN c.set ELSE sdk.held,
           UNCHANGED <<host, started, instances, pending, outcome, link, signal, child, effects>>
    PROVE  IInv'
<1> DEFINE e == [c EXCEPT !.step = step]
<1>1. /\ e \in CallType /\ e.n = c.n /\ e.method = c.method /\ e.set = c.set
      /\ e.cancelled = c.cancelled /\ e.step = step /\ c \in CallType
  BY DEF IInv, TypesInv, CallType, Steps
<1>2. Put(e)
  OBVIOUS
<1> HIDE DEF e
<1>3. /\ CallsInv' /\ calls' \in SUBSET CallType
      /\ Current' = IF c = Current THEN e ELSE Current
      /\ \A d \in calls' : d = e \/ (d \in calls /\ d # c)
  BY <1>1, <1>2, PutCall DEF IInv
<1>4. TypesInv'
  BY <1>3 DEF IInv, TypesInv
<1>5. PendingInv' /\ EffectsInv'
  BY DEF IInv, PendingInv, EffectsInv, Nil, InFlight, InstanceMatches
<1>6. ReplaceInv'
  BY <1>1, <1>3 DEF IInv, ReplaceInv
<1>7. AgreeInv'
  <2> SUFFICES ASSUME outcome # "unknown"
               PROVE  /\ \A d \in calls' : d.method = "replace" /\ d.step \in {"sent", "running"} =>
                            host = "replace" /\ d = Current'
                      /\ sdk'.held = IF host = "replace" /\ Current'.step = "done"
                                     THEN pending ELSE instances
    BY DEF AgreeInv
  <2>1. CASE c.method = "replace"
    <3>1. host = "replace" /\ c = Current /\ c.set = pending /\ ~c.cancelled
      BY <2>1 DEF IInv, AgreeInv, ReplaceInv
    <3>2. sdk.held = instances
      BY <3>1 DEF IInv, AgreeInv
    <3>3. \A d \in calls' : d.method = "replace" /\ d.step \in {"sent", "running"} => d = e
      BY <3>1, <1>3 DEF IInv, AgreeInv
    <3> QED
      BY <2>1, <3>1, <3>2, <3>3, <1>1, <1>3
  <2>2. CASE c.method # "replace"
    <3>1. host = "replace" => c # Current
      BY <2>2 DEF IInv, ReplaceInv
    <3>2. \A d \in calls' : d.method = "replace" => d \in calls
      BY <2>2, <1>1, <1>3
    <3> QED
      BY <2>2, <3>1, <3>2, <1>1, <1>3 DEF IInv, AgreeInv
  <2> QED
    BY <2>1, <2>2
<1> QED
  BY <1>3, <1>4, <1>5, <1>6, <1>7 DEF IInv

LEMMA RuntimeKeeps ==
    ASSUME IInv, Runtime
    PROVE  IInv'
<1> PICK c \in calls : Refuse(c) \/ Initialize(c) \/ BeginCallback(c) \/ EndCallback(c)
  BY DEF Runtime
<1>0. c \in CallType /\ sdk \in SdkType
  BY DEF IInv, TypesInv
<1>1. CASE Refuse(c)
  <2>1. sdk' \in SdkType /\ sdk'.held = sdk.held
    BY <1>0, <1>1 DEF Refuse
  <2>2. CASE c.cancelled
    <3>1. Put([c EXCEPT !.step = "dropped"])
      BY <1>1, <2>2 DEF Refuse
    <3> QED
      BY Zenon, <1>1, <2>1, <2>2, <3>1, RuntimeStep DEF Refuse
  <2>3. CASE ~c.cancelled
    <3>1. Put([c EXCEPT !.step = "failed"])
      BY <1>1, <2>3 DEF Refuse
    <3> QED
      BY Zenon, <1>1, <2>1, <2>3, <3>1, RuntimeStep DEF Refuse
  <2> QED
    BY <2>2, <2>3
<1>2. CASE Initialize(c)
  <2>1. sdk' \in SdkType /\ sdk'.held = sdk.held
    BY Zenon, <1>0, <1>2 DEF Initialize, SdkType
  <2>2. PICK step \in {"done", "failed"} : Put([c EXCEPT !.step = step])
    BY <1>2 DEF Initialize
  <2> QED
    BY Zenon, <1>2, <2>1, <2>2, RuntimeStep DEF Initialize
<1>3. CASE BeginCallback(c)
  <2>1. sdk' \in SdkType /\ sdk'.held = sdk.held
    BY ZenonT(30), <1>0, <1>3 DEF BeginCallback, SdkType, CallType
  <2>2. Put([c EXCEPT !.step = "running"])
    BY <1>3 DEF BeginCallback
  <2> QED
    BY Zenon, <1>3, <2>1, <2>2, RuntimeStep DEF BeginCallback
<1>4. CASE EndCallback(c)
  <2>1. PICK ok \in BOOLEAN :
            /\ sdk' = [sdk EXCEPT
                         !.running = 0,
                         !.held = IF c.method = "replace" /\ ok THEN c.set ELSE @,
                         !.ready = IF c.method = "replace" THEN ok \/ sdk.wasReady ELSE @,
                         !.stopped = @ \/ c.method = "shutdown"]
            /\ Put([c EXCEPT !.step = IF c.cancelled THEN "dropped" ELSE IF ok THEN "done" ELSE "failed"])
    BY Zenon, <1>4 DEF EndCallback
  <2>2. sdk' \in SdkType /\ sdk'.held = IF c.method = "replace" /\ ok THEN c.set ELSE sdk.held
    BY ZenonT(30), <1>0, <2>1 DEF SdkType, CallType
  <2>3. CASE c.cancelled
    <3>1. Put([c EXCEPT !.step = "dropped"])
      BY <2>1, <2>3
    <3> QED
      BY Zenon, <1>4, <2>2, <2>3, <3>1, RuntimeStep DEF EndCallback
  <2>4. CASE ~c.cancelled /\ ok
    <3>1. Put([c EXCEPT !.step = "done"])
      BY <2>1, <2>4
    <3> QED
      BY Zenon, <1>4, <2>2, <2>4, <3>1, RuntimeStep DEF EndCallback
  <2>5. CASE ~c.cancelled /\ ~ok
    <3>1. Put([c EXCEPT !.step = "failed"])
      BY <2>1, <2>5
    <3> QED
      BY Zenon, <1>4, <2>2, <2>5, <3>1, RuntimeStep DEF EndCallback
  <2> QED
    BY <2>3, <2>4, <2>5
<1> QED
  BY <1>1, <1>2, <1>3, <1>4

----------------------------------------------------------------------------
(* The daemon                                                               *)

\* No replacement can still run in the child.
NoneOpen == \A c \in calls : ~(c.method = "replace" /\ c.step \in {"sent", "running"})

\* A step of the daemon that ends outside a replacement.
LEMMA DaemonStep ==
    ASSUME IInv, CallsInv', calls' \in SUBSET CallType, PendingInv', host' # "replace",
           outcome' # "unknown" => NoneOpen' /\ sdk.held = instances',
           instances' \in Sets,
           \A w \in Workers : InFlight(effects[w]) => InstanceMatches(instances', effects[w]),
           UNCHANGED <<sdk, effects>>
    PROVE  IInv'
<1>1. TypesInv' /\ ReplaceInv'
  BY DEF IInv, TypesInv, ReplaceInv
<1>2. AgreeInv'
  BY DEF AgreeInv, NoneOpen
<1>3. EffectsInv'
  BY DEF EffectsInv, InFlight, InstanceMatches
<1> QED
  BY <1>1, <1>2, <1>3 DEF IInv

\* Outside a replacement, and once its request is answered, none can run.
LEMMA NoneOpenNow ==
    ASSUME IInv, outcome # "unknown", host = "replace" => Current.step \in {"done", "failed"}
    PROVE  NoneOpen
  BY DEF IInv, AgreeInv, NoneOpen

LEMMA HeldNow ==
    ASSUME IInv, outcome # "unknown", host = "replace" => Current.step # "done"
    PROVE  sdk.held = instances
  BY DEF IInv, AgreeInv

LEMMA AuthorizedNow ==
    ASSUME IInv
    PROVE  \A w \in Workers : InFlight(effects[w]) => InstanceMatches(instances, effects[w])
  BY DEF IInv, EffectsInv

\* Giving up on a request cancels it and opens none.
LEMMA GivingUp ==
    ASSUME IInv, Unanswered
    PROVE  CallsInv' /\ calls' \in SUBSET CallType /\ (NoneOpen => NoneOpen')
<1>0. TypesInv /\ CallsInv
  BY DEF IInv
<1>1. CASE UNCHANGED calls
  BY <1>0, <1>1 DEF CallsInv, TypesInv, NoneOpen
<1>2. CASE Put([Current EXCEPT !.cancelled = TRUE])
  <2> DEFINE e == [Current EXCEPT !.cancelled = TRUE]
  <2>1. e \in CallType /\ e.n = Current.n /\ e.method = Current.method /\ e.step = Current.step
    BY Zenon, <1>0, CurrentIsLast DEF CallType
  <2>2. Put(e)
    BY <1>2
  <2> HIDE DEF e
  <2>3. CallsInv' /\ calls' \in SUBSET CallType /\ \A d \in calls' : d = e \/ d \in calls
    BY <1>0, <2>1, <2>2, CurrentIsLast, PutCall
  <2>4. NoneOpen => NoneOpen'
    BY <1>0, <2>1, <2>3, CurrentIsLast DEF NoneOpen
  <2> QED
    BY <2>3, <2>4
<1> QED
  BY <1>1, <1>2 DEF Unanswered

\* A request that is no replacement opens none.
LEMMA Requesting ==
    ASSUME ProcessAssumption, IInv, NEW method \in {"call", "shutdown"}, Call(method, Empty)
    PROVE  CallsInv' /\ calls' \in SUBSET CallType /\ (NoneOpen => NoneOpen')
<1>1. Empty \in Sets /\ method \in Methods
  BY DEF Empty, Sets, Methods, ProcessAssumption
<1>2. /\ CallsInv' /\ calls' \in SUBSET CallType
      /\ Current' = [n |-> NextId, method |-> method, set |-> Empty, step |-> "sent",
                     cancelled |-> FALSE]
      /\ \A d \in calls' : d = Current' \/ d \in calls
  BY <1>1, NewCall DEF IInv
<1>3. Current'.method # "replace"
  BY <1>2
<1> QED
  BY <1>2, <1>3 DEF NoneOpen

\* A step of the daemon outside a replacement: it answers, gives up on or
\* makes a request, or makes none.
LEMMA OutsideKeeps ==
    ASSUME ProcessAssumption, IInv,
           Initialized \/ Request \/ RequestReturns \/ Stop \/ Ending
    PROVE  IInv'
<1>1. /\ host \notin {"drain", "replace"} /\ host' \notin {"drain", "replace"}
      /\ UNCHANGED <<instances, pending, outcome, sdk, effects>>
  BY DEF Initialized, Request, RequestReturns, Stop, Ending, ShutdownReturns, Escalate, Stopped
<1>2. UNCHANGED calls \/ Unanswered \/ \E method \in {"call", "shutdown"} : Call(method, Empty)
  BY DEF Initialized, Request, RequestReturns, Stop, Ending, ShutdownReturns, Escalate, Stopped
<1>3. CallsInv' /\ calls' \in SUBSET CallType /\ (NoneOpen => NoneOpen')
  <2>1. CASE UNCHANGED calls
    BY <2>1 DEF IInv, TypesInv, CallsInv, NoneOpen
  <2> QED
    BY <1>2, <2>1, GivingUp, Requesting
<1>4. PendingInv'
  BY <1>1 DEF IInv, PendingInv, Nil
<1>5. outcome' # "unknown" => NoneOpen' /\ sdk.held = instances'
  BY <1>1, <1>3, NoneOpenNow, HeldNow
<1>6. instances' \in Sets /\ \A w \in Workers : InFlight(effects[w]) => InstanceMatches(instances', effects[w])
  BY <1>1, AuthorizedNow DEF IInv, TypesInv
<1>7. host' # "replace" /\ UNCHANGED <<sdk, effects>>
  BY <1>1
<1> QED
  BY <1>3, <1>4, <1>5, <1>6, <1>7, DaemonStep

LEMMA BeginReplaceKeeps ==
    ASSUME ProcessAssumption, IInv, NEW set \in Desired, BeginReplace(set)
    PROVE  IInv'
<1>1. CallsInv' /\ calls' \in SUBSET CallType /\ NoneOpen'
  BY NoneOpenNow DEF IInv, TypesInv, CallsInv, BeginReplace, NoneOpen
<1>2. PendingInv'
  BY DEF PendingInv, BeginReplace
<1>3. outcome' # "unknown" => NoneOpen' /\ sdk.held = instances'
  BY <1>1, HeldNow DEF BeginReplace
<1>4. instances' \in Sets /\ \A w \in Workers : InFlight(effects[w]) => InstanceMatches(instances', effects[w])
  BY AuthorizedNow DEF IInv, TypesInv, BeginReplace
<1>5. host' # "replace" /\ UNCHANGED <<sdk, effects>>
  BY DEF BeginReplace
<1> QED
  BY <1>1, <1>2, <1>3, <1>4, <1>5, DaemonStep

\* The request of the replacement goes out once every effect that is being
\* applied belongs to the proposed set.
LEMMA DrainedKeeps ==
    ASSUME ProcessAssumption, IInv, Drained
    PROVE  IInv'
<1>0. /\ host = "drain" /\ host' = "replace" /\ Call("replace", pending)
      /\ UNCHANGED <<instances, pending, outcome, sdk, effects>>
  BY DEF Drained
<1>1. pending \in Desired /\ outcome # "unknown" /\ pending \in Sets
  BY <1>0 DEF IInv, PendingInv, ProcessAssumption, Sets
<1>2. /\ CallsInv' /\ calls' \in SUBSET CallType
      /\ Current' = [n |-> NextId, method |-> "replace", set |-> pending, step |-> "sent",
                     cancelled |-> FALSE]
      /\ \A d \in calls' : d = Current' \/ d \in calls
  BY <1>0, <1>1, NewCall DEF IInv, Methods
<1>3. TypesInv' /\ PendingInv'
  BY <1>0, <1>1, <1>2 DEF IInv, TypesInv, PendingInv
<1>4. ReplaceInv'
  BY <1>0, <1>2 DEF ReplaceInv
<1>5. AgreeInv'
  <2>1. NoneOpen /\ sdk.held = instances
    BY <1>0, <1>1, NoneOpenNow, HeldNow
  <2>2. Current'.step = "sent"
    BY <1>2
  <2> QED
    BY <1>0, <1>2, <2>1, <2>2 DEF AgreeInv, NoneOpen
<1>6. EffectsInv'
  <2>1. \A w \in Workers : InFlight(effects[w]) => InstanceMatches(pending, effects[w])
    BY DEF Drained, RetiringEffectInFlight
  <2> QED
    BY <1>0, <2>1, AuthorizedNow DEF EffectsInv, InFlight, InstanceMatches
<1> QED
  BY <1>2, <1>3, <1>4, <1>5, <1>6 DEF IInv

LEMMA AfterReplaceIs ==
    ASSUME NEW result, AfterReplace(result)
    PROVE  /\ outcome' = result /\ pending' = Nil /\ host' \notin {"drain", "replace"}
           /\ PendingInv'
  BY DEF AfterReplace, PendingInv, Nil

LEMMA ReplaceAbandonedKeeps ==
    ASSUME ProcessAssumption, IInv, ReplaceAbandoned \/ ReplaceRejected
    PROVE  IInv'
<1>1. /\ outcome # "unknown" /\ NoneOpen /\ sdk.held = instances
  BY NoneOpenNow, HeldNow DEF ReplaceAbandoned, ReplaceRejected, Responded, IInv, PendingInv
<1>2. PendingInv' /\ host' # "replace" /\ UNCHANGED <<instances, calls, sdk, effects>>
  BY AfterReplaceIs DEF ReplaceAbandoned, ReplaceRejected
<1>3. CallsInv' /\ calls' \in SUBSET CallType /\ NoneOpen'
  BY <1>1, <1>2 DEF IInv, TypesInv, CallsInv, NoneOpen
<1>4. instances' \in Sets /\ \A w \in Workers : InFlight(effects[w]) => InstanceMatches(instances', effects[w])
  BY <1>2, AuthorizedNow DEF IInv, TypesInv
<1> QED
  BY <1>1, <1>2, <1>3, <1>4, DaemonStep

\* The proposed set becomes the committed one; the plugin has it already, and
\* so do the effects that are being applied.
LEMMA ReplaceCommittedKeeps ==
    ASSUME ProcessAssumption, IInv, ReplaceCommitted
    PROVE  IInv'
<1>1. /\ host = "replace" /\ Current.step = "done" /\ instances' = pending
      /\ UNCHANGED <<calls, sdk, effects>>
  BY DEF ReplaceCommitted, Responded
<1>2. pending \in Sets /\ outcome # "unknown"
  BY <1>1 DEF IInv, PendingInv, ProcessAssumption, Sets
<1>3. NoneOpen /\ sdk.held = instances'
  BY <1>1, <1>2, NoneOpenNow DEF IInv, AgreeInv
<1>4. PendingInv' /\ host' # "replace"
  BY AfterReplaceIs DEF ReplaceCommitted
<1>5. CallsInv' /\ calls' \in SUBSET CallType /\ NoneOpen'
  BY <1>1, <1>3 DEF IInv, TypesInv, CallsInv, NoneOpen
<1>6. \A w \in Workers : InFlight(effects[w]) => InstanceMatches(instances', effects[w])
  BY <1>1 DEF IInv, EffectsInv
<1> QED
  BY <1>1, <1>2, <1>3, <1>4, <1>5, <1>6, DaemonStep

LEMMA ReplaceLostKeeps ==
    ASSUME ProcessAssumption, IInv, ReplaceLost
    PROVE  IInv'
<1>1. CallsInv' /\ calls' \in SUBSET CallType
  BY GivingUp DEF ReplaceLost
<1>2. /\ outcome' = "unknown" /\ PendingInv' /\ host' # "replace"
      /\ UNCHANGED <<instances, sdk, effects>>
  BY AfterReplaceIs DEF ReplaceLost, LostOutcome
<1>3. instances' \in Sets /\ \A w \in Workers : InFlight(effects[w]) => InstanceMatches(instances', effects[w])
  BY <1>2, AuthorizedNow DEF IInv, TypesInv
<1> QED
  BY <1>1, <1>2, <1>3, DaemonStep

----------------------------------------------------------------------------
LEMMA InitKeeps ==
    ASSUME ProcessAssumption, Init
    PROVE  IInv
<1> DEFINE first == [NoCall EXCEPT !.n = 1, !.method = "initialize", !.step = "sent"]
<1>1. Empty \in Sets
  BY DEF Empty, Sets, ProcessAssumption
<1>2. first \in CallType /\ first.method = "initialize"
  BY Zenon, <1>1 DEF NoCall, CallType, Methods, Steps
<1>3. calls = {first}
  BY DEF Init
<1> HIDE DEF first
<1>4. TypesInv
  BY <1>1, <1>2, <1>3, NoEffectType DEF Init, TypesInv, SdkType
<1>5. CallsInv
  BY <1>2, <1>3 DEF CallsInv, CallType
<1>6. PendingInv /\ ReplaceInv
  BY DEF Init, PendingInv, ReplaceInv
<1>7. AgreeInv
  BY <1>2, <1>3 DEF Init, AgreeInv
<1>8. EffectsInv
  BY NoEffectType DEF Init, EffectsInv
<1> QED
  BY <1>4, <1>5, <1>6, <1>7, <1>8 DEF IInv

\* What the invariant speaks of is left alone.
LEMMA StutterKeeps ==
    ASSUME IInv, UNCHANGED <<host, instances, pending, outcome, calls, sdk, effects>>
    PROVE  IInv'
<1>1. TypesInv' /\ CallsInv' /\ PendingInv' /\ Current' = Current
  BY DEF IInv, TypesInv, CallsInv, PendingInv, Current, Nil
<1>2. ReplaceInv' /\ AgreeInv'
  BY <1>1 DEF IInv, ReplaceInv, AgreeInv
<1>3. EffectsInv'
  BY DEF IInv, EffectsInv, InFlight, InstanceMatches
<1> QED
  BY <1>1, <1>2, <1>3 DEF IInv

LEMMA StepKeeps ==
    ASSUME ProcessAssumption, IInv, [Next]_vars
    PROVE  IInv'
<1>1. CASE Initialized \/ Request \/ RequestReturns \/ Stop \/ Ending
  BY <1>1, OutsideKeeps
<1>2. CASE Replace
  <2>1. CASE \E set \in Desired : BeginReplace(set)
    BY <2>1, BeginReplaceKeeps
  <2> QED
    BY <1>2, <2>1, DrainedKeeps, ReplaceAbandonedKeeps, ReplaceCommittedKeeps, ReplaceLostKeeps DEF Replace
<1>3. CASE Runtime
  BY <1>3, RuntimeKeeps
<1>4. CASE Effect
  BY <1>4, EffectKeeps
<1>5. CASE Exit \/ Reap \/ LinkFails
  BY <1>5, StutterKeeps DEF Exit, Reap, LinkFails
<1>6. CASE UNCHANGED vars
  BY <1>6, StutterKeeps DEF vars
<1> QED
  BY <1>1, <1>2, <1>3, <1>4, <1>5, <1>6 DEF Next

\* applyActiveEffect and ReplaceInstances: whatever calls the daemon gave up
\* on and however effects, replacements and failures interleave, an effect
\* the daemon applies belongs to the committed instance set, and while the
\* last outcome is known the plugin holds exactly that set.
THEOREM InstancesStayAgreed ==
    ASSUME ProcessAssumption
    PROVE  Spec => []InstancesAgree
<1>1. IInv => InstancesAgree
  <2> SUFFICES ASSUME IInv
               PROVE  InstancesAgree
    OBVIOUS
  <2>1. EffectsAuthorized
    BY AuthorizedNow DEF EffectsAuthorized
  <2>2. SidesAgree
    BY HeldNow DEF SidesAgree
  <2> QED
    BY <2>1, <2>2 DEF InstancesAgree
<1>2. Init => IInv
  BY InitKeeps
<1>3. IInv /\ [Next]_vars => IInv'
  BY StepKeeps
<1> QED
  BY <1>1, <1>2, <1>3, PTL DEF Spec
=============================================================================
