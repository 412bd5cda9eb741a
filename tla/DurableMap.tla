----------------------------- MODULE DurableMap ------------------------------
(***************************************************************************)
(* What a store of small documents promises its callers: the value of a key  *)
(* as the running process sees it, the values a crash may leave behind, and  *)
(* the answer to the last save.  A save answered "committed" survives every  *)
(* crash until the key is written or dropped again, one answered             *)
(* "uncertain" is visible and may be undone by a crash, and one answered     *)
(* "not_committed" wrote nothing.                                            *)
(***************************************************************************)
EXTENDS Integers

CONSTANTS Keys, Values, None

VARIABLES
    current,    \* [Keys -> Values or None]
    possible,   \* [Keys -> what a crash may leave]
    answer      \* of the last save: [key, value, outcome] or None

vars == <<current, possible, answer>>

Init == /\ current = [k \in Keys |-> None]
        /\ possible = [k \in Keys |-> {None}]
        /\ answer = None

\* What a crash may leave is what it could have left before, or the visible value.
Settles == \A k \in Keys : current'[k] \in possible'[k] /\ possible'[k] \subseteq possible[k] \cup {current'[k]}

\* A value becomes visible before its save is answered.
Write(k, v) ==
    /\ current' = [current EXCEPT ![k] = v] /\ Settles /\ UNCHANGED answer

(* Keys are dropped: not wanted any more, damaged, or over the capacity.    *)
Without(dropped) == current' = [k \in Keys |-> IF k \in dropped THEN None ELSE current[k]]
Drop(dropped) == Without(dropped) /\ Settles /\ UNCHANGED answer

(* The inventory a save is refused for may itself have dropped keys.        *)
Save(k, v, dropped) ==
    /\ \/ answer' = [key |-> k, value |-> v, outcome |-> "committed"] /\ current[k] = v
          /\ possible'[k] = {v} /\ UNCHANGED current
       \/ answer' = [key |-> k, value |-> v, outcome |-> "uncertain"] /\ current[k] = v
          /\ UNCHANGED current
       \/ answer' = [key |-> k, value |-> v, outcome |-> "not_committed"] /\ Without(dropped)
    /\ Settles

Crash ==
    /\ \A k \in Keys : current'[k] \in possible[k] /\ possible'[k] = {current'[k]}
    /\ answer' = None

Next ==
    \/ \E k \in Keys, v \in Values : Write(k, v)
    \/ \E dropped \in SUBSET Keys :
          Drop(dropped) \/ \E k \in Keys, v \in Values : Save(k, v, dropped)
    \/ Crash

Spec == Init /\ [][Next]_vars
=============================================================================
