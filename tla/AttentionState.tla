---------------------------- MODULE AttentionState ----------------------------
(***************************************************************************)
(* The scheduling state the attention engine keeps across restarts         *)
(* (internal/daemon/attention_state.go, engine.go, and the file store of   *)
(* internal/attention/state.go): which observations were acknowledged and  *)
(* when each identity was last shown.                                      *)
(*                                                                         *)
(* Every operation runs under the engine's step mutex and is one action.   *)
(* The file is replaced as a whole (localstate.ReplaceJSON): a save is     *)
(* committed, not committed, or committed without a confirmed directory    *)
(* sync, in which case a crash may bring the previous content back.        *)
(* Times are small naturals; an observation is dated by the time it was    *)
(* published, and a time in the future is not modelled.                    *)
(***************************************************************************)
EXTENDS Integers, FiniteSets, FiniteSetsExt, Functions

CONSTANTS
    Ids,              \* identities of observations
    Interactive,      \* those whose policy is interactive: never persisted
    StateCapacity,    \* defaultAttentionStateCapacity, for both maps together
    TTL,              \* defaultAttentionStateTTL
    MaxTime, MaxGeneration, MaxFaults, MaxCrashes,
    None

VARIABLES
    now,
    generation,       \* the configured generation of the app
    records,          \* the store: identity -> [generation, observedAt] or None
    memory,           \* acked: identity -> [generation, observedAt, touchedAt]; shown: identity -> [generation, at]
    file,             \* the contents a crash may leave, and the one that is read now
    phase,            \* the store's status: "loaded" or "degraded"
    used,             \* faults and crashes so far
    promised          \* ghost: acknowledgements answered with success, not since evicted or unreadable

vars == <<now, generation, records, memory, file, phase, used, promised>>

Nothing == [acked |-> [i \in {} |-> None], shown |-> [i \in {} |-> None]]
Without(f, S) == [i \in DOMAIN f \ S |-> f[i]]

Init ==
    /\ now = 1 /\ generation = 1
    /\ records = [i \in Ids |-> None]
    /\ memory = Nothing
    /\ file = [content |-> Nothing, durable |-> {Nothing}]
    /\ phase = "loaded"
    /\ used = [faults |-> 0, crashes |-> 0]
    /\ promised = {}

Live == {i \in Ids : records[i] # None}

----------------------------------------------------------------------------
(* What is kept: pruneState and its parts *)

Expired(at) == at + TTL <= now

(* Entries of both maps are evicted together, absent identities first, then *)
(* the oldest, a last-shown time before an acknowledgement.  (The map that   *)
(* alone exceeds the capacity is cut first, in the same order: the combined *)
(* cut then removes what is left of the same entries.)                      *)
Entries(m) == {[id |-> i, ack |-> TRUE, at |-> m.acked[i].touchedAt] : i \in DOMAIN m.acked}
       \cup {[id |-> i, ack |-> FALSE, at |-> m.shown[i].at] : i \in DOMAIN m.shown}
Before(e, f) ==
    LET live(x) == IF x.id \in Live THEN 1 ELSE 0
        ack(x) == IF x.ack THEN 1 ELSE 0 IN
    \/ live(e) < live(f)
    \/ live(e) = live(f) /\ e.at < f.at
    \/ live(e) = live(f) /\ e.at = f.at /\ ack(e) < ack(f)

(* sortCombinedStateVictims breaks the remaining ties by name: any order.  *)
Victims(m) ==
    LET excess == Cardinality(Entries(m)) - StateCapacity IN
    IF excess <= 0 THEN {{}}
    ELSE {V \in kSubset(excess, Entries(m)) :
             \A v \in V, e \in Entries(m) \ V : ~Before(e, v)}
Evict(m, V) == [acked |-> Without(m.acked, {v.id : v \in {w \in V : w.ack}}),
                shown |-> Without(m.shown, {v.id : v \in {w \in V : ~w.ack}})]

Superseded(m) == {i \in DOMAIN m.acked \cap Live :
                     \/ m.acked[i].generation # records[i].generation
                     \/ m.acked[i].observedAt # records[i].observedAt}
Aged(m) == [acked |-> Without(m.acked, {i \in DOMAIN m.acked : Expired(m.acked[i].touchedAt)}
                                       \cup Superseded(m)),
            shown |-> Without(m.shown, {i \in DOMAIN m.shown : Expired(m.shown[i].at)})]

(* Capacity takes back a promise; the time-to-live does in Tick.           *)
Keeps(V) == {p \in promised : \A v \in V : ~(v.ack /\ v.id = p.id)}

----------------------------------------------------------------------------
(* Saving: stateDocument and StateStore.Save *)

Document(m) == [acked |-> m.acked, shown |-> Without(m.shown, Interactive)]

Outcomes == {"committed"} \cup IF used.faults < MaxFaults
                               THEN {"not committed", "uncertain"} ELSE {}
Save(m, outcome) ==
    /\ CASE outcome = "committed" ->
               file' = [content |-> Document(m), durable |-> {Document(m)}]
         [] outcome = "uncertain" ->
               file' = [content |-> Document(m), durable |-> file.durable \cup {Document(m)}]
         [] OTHER -> UNCHANGED file
    /\ phase' = IF outcome = "committed" THEN "loaded" ELSE "degraded"
    /\ used' = [used EXCEPT !.faults = @ + IF outcome = "committed" THEN 0 ELSE 1]
NoSave == UNCHANGED <<file, phase, used>>

----------------------------------------------------------------------------
(* The operations *)

(* A plugin publishes, or withdraws, an observation of the current         *)
(* generation.                                                             *)
Publish(i) ==
    /\ records' = [records EXCEPT ![i] = [generation |-> generation, observedAt |-> now]]
    /\ records' # records
    /\ UNCHANGED <<now, generation, memory, file, phase, used, promised>>

Withdraw(i) ==
    /\ records[i] # None
    /\ records' = [records EXCEPT ![i] = None]
    /\ UNCHANGED <<now, generation, memory, file, phase, used, promised>>

(* step and NextDeadline: prune, and save when that removed something.     *)
Prune ==
    LET aged == Aged(memory) IN
    \E V \in Victims(aged), outcome \in Outcomes :
       /\ memory' = Evict(aged, V) /\ memory' # memory
       /\ Save(memory', outcome)
       /\ promised' = Keeps(V)
       /\ UNCHANGED <<now, generation, records>>

(* step: the winner is on the display.                                     *)
Show(i) ==
    /\ i \in Live
    /\ LET shown == [j \in DOMAIN memory.shown \cup {i} |->
                        IF j = i THEN [generation |-> records[i].generation, at |-> now]
                        ELSE memory.shown[j]]
           aged == Aged([memory EXCEPT !.shown = shown]) IN
       \E V \in Victims(aged), outcome \in Outcomes :
          memory' = Evict(aged, V) /\ Save(memory', outcome) /\ promised' = Keeps(V)
    /\ UNCHANGED <<now, generation, records>>

(* Acknowledge: the state is replaced only when the save was confirmed.  A *)
(* save that may have happened may have evicted as well.                   *)
ConfirmedEnough(outcome) == outcome # "not committed"
Confirmed(outcome) == outcome = "committed"
Acknowledge(i) ==
    /\ i \in Live
    /\ LET aged == Aged(memory)
           entry == [generation |-> records[i].generation, observedAt |-> records[i].observedAt,
                     touchedAt |-> now] IN
       \E U \in Victims(aged), outcome \in Outcomes :
          LET pruned == Evict(aged, U)
              proposed == [pruned EXCEPT !.acked = [j \in DOMAIN @ \cup {i} |->
                                                       IF j = i THEN entry ELSE pruned.acked[j]]] IN
          \E V \in Victims(proposed) :
             /\ Save(Evict(proposed, V), outcome)
             /\ memory' = IF Confirmed(outcome) THEN Evict(proposed, V) ELSE pruned
             /\ promised' = CASE Confirmed(outcome) ->
                                   Keeps(U \cup V) \cup
                                   {[id |-> j, generation |-> entry.generation,
                                     observedAt |-> entry.observedAt] :
                                       j \in {i} \ {v.id : v \in {w \in V : w.ack}}}
                              [] outcome = "uncertain" -> Keeps(U \cup V)
                              [] OTHER -> Keeps(U)
    /\ UNCHANGED <<now, generation, records>>

(* The app gets a new generation: RemoveInstance through the old one.      *)
RemoveInstance ==
    /\ generation < MaxGeneration
    /\ generation' = generation + 1
    /\ records' = [i \in Ids |-> None]
    /\ LET m == [acked |-> Without(memory.acked, {i \in DOMAIN memory.acked :
                                                     memory.acked[i].generation <= generation}),
                 shown |-> Without(memory.shown, {i \in DOMAIN memory.shown :
                                                     memory.shown[i].generation <= generation})] IN
       \E outcome \in Outcomes : memory' = m /\ Save(m, outcome) /\ promised' = {}
    /\ UNCHANGED now

Tick ==
    /\ now < MaxTime /\ now' = now + 1
    /\ promised' = {p \in promised :
                       ~(p.id \in DOMAIN memory.acked /\ memory.acked[p.id].touchedAt + TTL <= now + 1)}
    /\ UNCHANGED <<generation, records, memory, file, phase, used>>

----------------------------------------------------------------------------
(* Restart: restoreAttentionState *)

Current(content) ==
    [acked |-> Without(content.acked, {i \in DOMAIN content.acked :
                   \/ Expired(content.acked[i].touchedAt)
                   \/ content.acked[i].generation # generation}),
     shown |-> Without(content.shown, {i \in DOMAIN content.shown :
                   \/ Expired(content.shown[i].at)
                   \/ content.shown[i].generation # generation})]

(* The machine stops; the daemon starts again, and the plugins publish the *)
(* observations they still hold with their old dates (records is kept).    *)
(* A file that cannot be read leaves the state empty, and takes back every *)
(* promise.                                                                *)
Restart ==
    /\ used.crashes < MaxCrashes
    /\ \E content \in file.durable, readable \in BOOLEAN :
       LET m == IF readable THEN Current(content) ELSE Nothing
           found == [content |-> content, durable |-> {content}]
           discarded == readable /\ m # content
           document == Document(m) IN
       /\ memory' = m
       /\ promised' = IF readable THEN promised ELSE {}
       /\ \E outcome \in {"committed", "not committed", "uncertain"} :
          LET failures == (IF readable THEN 0 ELSE 1) + (IF outcome = "committed" THEN 0 ELSE 1) IN
          /\ ~discarded => outcome = "committed"
          /\ used.faults + failures <= MaxFaults
          /\ used' = [faults |-> used.faults + failures, crashes |-> used.crashes + 1]
          /\ phase' = IF failures > 0 THEN "degraded" ELSE "loaded"
          /\ file' = IF ~discarded \/ outcome = "not committed" THEN found
                     ELSE [content |-> document,
                           durable |-> {document} \cup (IF outcome = "uncertain" THEN {content} ELSE {})]
    /\ UNCHANGED <<now, generation, records>>

Next ==
    \/ \E i \in Ids : Publish(i) \/ Withdraw(i) \/ Show(i) \/ Acknowledge(i)
    \/ Prune \/ RemoveInstance \/ Tick \/ Restart

Spec == Init /\ [][Next]_vars

----------------------------------------------------------------------------
(* An acknowledgement that was answered with success stays in effect for    *)
(* that observation, over every failed save and every crash, until it ages  *)
(* out, is evicted, or the file cannot be read; and while the store reports *)
(* "loaded", a restart at this moment would bring back exactly what is in   *)
(* memory.                                                                  *)
AcksSurvive ==
    /\ \A p \in promised :
          records[p.id] = [generation |-> p.generation, observedAt |-> p.observedAt] =>
             /\ p.id \in DOMAIN memory.acked
             /\ memory.acked[p.id].generation = p.generation
             /\ memory.acked[p.id].observedAt = p.observedAt
    /\ phase = "loaded" =>
          /\ file.durable = {file.content}
          /\ Current(file.content) = Current(Document(memory))
=============================================================================
