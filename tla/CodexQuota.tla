------------------------------ MODULE CodexQuota -----------------------------
(***************************************************************************)
(* The quota plugin (plugins/codexquota/handler.go).  One worker for each    *)
(* account polls its usage, at most two at a time, and publishes one summary *)
(* card per window, the withdrawal of the windows that went away, and a      *)
(* pressure card when little is left.  A call may fail after it took effect, *)
(* and the first failure ends the round.                                     *)
(***************************************************************************)
EXTENDS Integers, Sequences, SequencesExt, FiniteSets

CONSTANTS
    Accounts,       \* configured accounts
    Windows,        \* usage windows an account may have
    Slots,          \* fetches at a time
    Threshold,      \* unhealthyFailureThreshold
    None

VARIABLES
    phase,      \* of each worker: "idle", "queued", "fetching", "stopping", "stopped"
    worker,     \* of each: summaryActive, pressure signal published, failures in a row
    hostCards,  \* of each: summary cards and pressure card the host holds
    ghost       \* of each: summaries, pressure: cards sent in a round that then failed

vars == <<phase, worker, hostCards, ghost>>

Signals == {None, "low", "critical"}
NewWorker == [summaries |-> {}, signal |-> None, failures |-> 0]
NoCards == [summaries |-> {}, signal |-> None]
NoGhost == [summaries |-> {}, signal |-> FALSE]

Init ==
    /\ phase = [a \in Accounts |-> "idle"]
    /\ worker = [a \in Accounts |-> NewWorker]
    /\ hostCards = [a \in Accounts |-> NoCards]
    /\ ghost = [a \in Accounts |-> NoGhost]

----------------------------------------------------------------------------
(* A poll                                                                   *)

\* run: the timer of the poll or of the retry ladder fires.
Poll(a) ==
    /\ phase[a] = "idle" /\ phase' = [phase EXCEPT ![a] = "queued"]
    /\ UNCHANGED <<worker, hostCards, ghost>>

\* fetch: a slot, if one is free.
SlotFree == Cardinality({a \in Accounts : phase[a] = "fetching"}) < Slots
Acquire(a) ==
    /\ phase[a] = "queued" /\ SlotFree /\ phase' = [phase EXCEPT ![a] = "fetching"]
    /\ UNCHANGED <<worker, hostCards, ghost>>

\* recordFailure; the retry follows the ladder.
FetchFails(a) ==
    /\ phase[a] = "fetching" /\ phase' = [phase EXCEPT ![a] = "idle"]
    /\ worker' = [worker EXCEPT ![a].failures = IF @ < Threshold THEN @ + 1 ELSE @]
    /\ UNCHANGED <<hostCards, ghost>>

\* publishResident, as the calls it makes for a snapshot.
PressureCalls(w, signal) ==
    IF signal = w.signal THEN <<>> ELSE <<[kind |-> "pressure", signal |-> signal]>>
Calls(w, windows, signal) ==
    SetToSeq({[kind |-> "summary", window |-> x] : x \in windows})
      \o SetToSeq({[kind |-> "withdraw", window |-> x] : x \in w.summaries \ windows})
      \o PressureCalls(w, signal)

Took(cards, call) ==
    CASE call.kind = "summary" -> [cards EXCEPT !.summaries = @ \cup {call.window}]
      [] call.kind = "withdraw" -> [cards EXCEPT !.summaries = @ \ {call.window}]
      [] call.kind = "pressure" -> [cards EXCEPT !.signal = call.signal]

\* The worker knows a round's windows once all its summary calls went through,
\* and the signal once its own call did.
SummariesAtOnce(w, windows, signal, done) ==
    [w EXCEPT !.summaries = windows,
              !.signal = IF done = Len(Calls(w, windows, signal)) THEN signal ELSE @]
Recorded(w, windows, signal, done) ==
    LET calls == Calls(w, windows, signal)
    IN [w EXCEPT !.summaries = IF done >= Len(calls) - Len(PressureCalls(w, signal)) THEN windows ELSE @,
                 !.signal = IF done = Len(calls) THEN signal ELSE @]

\* run: publish what was fetched; `done' calls succeed, the next one fails and
\* may have taken effect.
Publish(a) ==
    /\ phase[a] = "fetching" /\ phase' = [phase EXCEPT ![a] = "idle"]
    /\ \E windows \in SUBSET Windows \ {{}}, signal \in Signals :
        LET w == worker[a]
            calls == Calls(w, windows, signal)
        IN \E done \in 0..Len(calls), effect \in 0..1 :
            /\ done + effect <= Len(calls)
            /\ worker' = [worker EXCEPT ![a] = [Recorded(w, windows, signal, done) EXCEPT !.failures = 0]]
            /\ hostCards' = [hostCards EXCEPT ![a] = FoldLeft(Took, @, SubSeq(calls, 1, done + effect))]
            /\ ghost' = [ghost EXCEPT ![a] =
                 [summaries |-> (IF worker'[a].summaries = windows THEN @.summaries ELSE @.summaries \cup windows)
                                \cap hostCards'[a].summaries,
                  signal |-> IF effect = 1 /\ done + 1 = Len(calls) /\ PressureCalls(w, signal) # <<>> THEN TRUE
                             ELSE @.signal /\ (done < Len(calls) \/ PressureCalls(w, signal) = <<>>)]]

\* A card reaches the end of its validity.
Expires(a) ==
    /\ \/ \E x \in hostCards[a].summaries : hostCards' = [hostCards EXCEPT ![a].summaries = @ \ {x}]
       \/ hostCards[a].signal # None /\ hostCards' = [hostCards EXCEPT ![a].signal = None]
    /\ UNCHANGED <<phase, worker, ghost>>

----------------------------------------------------------------------------
(* Configuration                                                            *)

\* ReplaceInstances: a worker whose account keeps its generation goes on; the
\* others are cancelled,
Cancel(a) ==
    /\ phase[a] \in {"idle", "queued", "fetching"} /\ phase' = [phase EXCEPT ![a] = "stopping"]
    /\ UNCHANGED <<worker, hostCards, ghost>>

\* joined, and their cards leave with their generation;
Join(a) ==
    /\ phase[a] = "stopping" /\ phase' = [phase EXCEPT ![a] = "stopped"]
    /\ worker' = [worker EXCEPT ![a] = NewWorker]
    /\ hostCards' = [hostCards EXCEPT ![a] = NoCards]
    /\ ghost' = [ghost EXCEPT ![a] = NoGhost]

\* then the new ones are started.
Configure(a) ==
    /\ phase[a] = "stopped" /\ phase' = [phase EXCEPT ![a] = "idle"]
    /\ UNCHANGED <<worker, hostCards, ghost>>

Next == \E a \in Accounts : \/ Poll(a) \/ Acquire(a) \/ FetchFails(a) \/ Publish(a) \/ Expires(a)
                            \/ Cancel(a) \/ Join(a) \/ Configure(a)

Spec == Init /\ [][Next]_vars

----------------------------------------------------------------------------
\* A summary card the host holds is one the worker would withdraw when its
\* window goes away, also after a round that failed half way; what is excepted
\* is a card of a round that failed before the worker took note of it, which
\* only its validity ends.  The same holds of the pressure card.
CardsRemembered ==
    \A a \in Accounts :
        /\ hostCards[a].summaries \subseteq worker[a].summaries \cup ghost[a].summaries
        /\ hostCards[a].signal # None => worker[a].signal # None \/ ghost[a].signal
=============================================================================
