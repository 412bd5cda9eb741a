------------------------------ MODULE LaunchAgent ------------------------------
(***************************************************************************)
(* The manager of the login service (internal/launchagent): it installs,   *)
(* replaces and removes the property list of the service, loads it into    *)
(* and out of launchd, and rolls back what it could not finish.            *)
(*                                                                         *)
(* Operations of cooperating processes exclude each other by a file lock   *)
(* that ends with its process, so at most one is in progress; the property *)
(* list may be rewritten by anyone at any time, launchctl may fail with or *)
(* without having had its effect, file operations may fail, and the        *)
(* process may be killed between any two steps.                            *)
(*                                                                         *)
(* A property list is its content: Missing, one of Definitions, or Edited  *)
(* (what some other program wrote).  launchd remembers the content it was  *)
(* given; the manager can only ask whether the service is loaded.          *)
(***************************************************************************)
EXTENDS Integers, FiniteSets

CONSTANTS Definitions, Edited, Missing, MaxFaults, MaxEdits, MaxOperations

VARIABLES
    plist,     \* the content of the property list
    loaded,    \* the content launchd has loaded, or Missing
    op,        \* the operation in progress, or Idle
    answer,    \* what the last operation answered, until something else happens
    used,      \* faults, edits and operations so far
    lost       \* ghost: an edit nobody had read was destroyed

vars == <<plist, loaded, op, answer, used, lost>>

Idle == [kind |-> "idle", step |-> "idle"]
NoAnswer == [result |-> "none"]

Init ==
    /\ plist = Missing /\ loaded = Missing
    /\ op = Idle /\ answer = NoAnswer
    /\ used = [faults |-> 0, edits |-> 0, operations |-> 0]
    /\ lost = FALSE

Fails == used.faults < MaxFaults /\ used' = [used EXCEPT !.faults = @ + 1]
Ok == UNCHANGED used

Goto(step) == op' = [op EXCEPT !.step = step] /\ UNCHANGED answer

(* ErrPartial says that the operation may have had a part of its effect;   *)
(* any other error says that it had none.                                  *)
Answer(result) ==
    /\ op' = Idle
    /\ answer' = [result |-> result, kind |-> op.kind, desired |-> op.desired,
                  before |-> op.before, touched |-> op.touched]

----------------------------------------------------------------------------
(* What an operation begins with: the lock, the property list it finds, and *)
(* whether launchd has the service.  A launchd that does not answer ends it. *)

Begin(kind, desired) ==
    /\ op = Idle
    /\ used.operations < MaxOperations
    /\ used' = [used EXCEPT !.operations = @ + 1]
    /\ op' = [kind |-> kind, desired |-> desired, step |-> "query", previous |-> plist,
              wasLoaded |-> FALSE, back |-> FALSE, expected |-> plist, displaced |-> Missing,
              before |-> [plist |-> plist, loaded |-> loaded], touched |-> FALSE]
    /\ answer' = NoAnswer
    /\ UNCHANGED <<plist, loaded, lost>>

(* installLocked, uninstallLocked and restartLocked, after the query.      *)
Branch(isLoaded) ==
    CASE op.kind = "install" ->
            IF op.previous # op.desired THEN "swap" ELSE IF isLoaded THEN "done" ELSE "bootstrap identical"
      [] op.kind = "uninstall" ->
            IF isLoaded THEN "bootout" ELSE IF op.previous # Missing THEN "swap" ELSE "done"
      [] OTHER -> IF op.previous # Missing /\ isLoaded THEN "kickstart" ELSE "refuse"

Query ==
    /\ op.step = "query"
    /\ \/ /\ op' = [op EXCEPT !.wasLoaded = loaded # Missing, !.step = Branch(loaded # Missing)]
          /\ Ok /\ UNCHANGED answer
       \/ Fails /\ Answer("failed")
    /\ UNCHANGED <<plist, loaded, lost>>

Finish ==
    /\ op.step \in {"done", "refuse"}
    /\ Answer(IF op.step = "done" THEN "ok" ELSE "failed")
    /\ UNCHANGED <<plist, loaded, used, lost>>

----------------------------------------------------------------------------
(* launchctl *)

(* A command that reports a failure may have had its effect; one that      *)
(* cannot have it (a service loaded twice, a file that is not there) fails *)
(* without.                                                                *)
Succeeds(possible, effect) == possible /\ loaded' = effect /\ Ok
Refuses(possible, effect) ==
    \/ possible /\ Fails /\ loaded' \in {loaded, effect}
    \/ ~possible /\ Ok /\ UNCHANGED loaded
Loadable == plist # Missing /\ loaded = Missing

(* observeOperation and resultFor: what a query and a read of the property *)
(* list say after an error.                                                *)
Observed(isLoaded) ==
    IF isLoaded THEN IF plist # Missing THEN "loaded" ELSE "degraded"
    ELSE IF plist # Missing THEN "installed_not_loaded" ELSE "not_installed"

BootstrapIdentical ==
    /\ op.step = "bootstrap identical"
    /\ \/ Succeeds(Loadable, plist) /\ Answer("ok")
       \/ /\ Refuses(Loadable, plist)
          /\ Answer(IF Observed(loaded' # Missing) = "loaded" THEN "partial" ELSE "failed")
    /\ UNCHANGED <<plist, lost>>

Bootout ==
    /\ op.step = "bootout"
    /\ \/ /\ Succeeds(loaded # Missing, Missing)
          /\ Goto(IF op.kind = "install" THEN "bootstrap"
                  ELSE IF op.previous # Missing THEN "swap" ELSE "done")
       \/ /\ Refuses(loaded # Missing, Missing)
          /\ IF op.kind = "install" THEN Goto("rollback")
             ELSE Answer(IF Observed(loaded' # Missing) = "loaded" THEN "failed" ELSE "partial")
    /\ UNCHANGED <<plist, lost>>

Bootstrap ==
    /\ op.step = "bootstrap"
    /\ \/ Succeeds(Loadable, plist) /\ Answer("ok")
       \/ Refuses(Loadable, plist) /\ Goto("rollback")
    /\ UNCHANGED <<plist, lost>>

Kickstart ==
    /\ op.step = "kickstart"
    /\ \/ Ok /\ Answer(IF Observed(loaded # Missing) = "loaded" THEN "ok" ELSE "partial")
       \/ Fails /\ Answer("failed")
    /\ UNCHANGED <<plist, loaded, lost>>

----------------------------------------------------------------------------
(* Replacing and removing the property list (writeDataPinned,              *)
(* removeDataPinned): the entry is exchanged with a finished temporary     *)
(* file, or moved to a quarantine name, and only then compared with what   *)
(* the operation had read; an entry that is not that one is put back.      *)

(* What the property list is to become: Missing is a removal.              *)
Content == IF op.back THEN op.previous ELSE IF op.kind = "install" THEN op.desired ELSE Missing

(* What follows the replacement, by its commit outcome.                    *)
Forward ==
    IF op.kind = "uninstall" \/ (op.previous = op.desired /\ op.wasLoaded) THEN "done"
    ELSE IF op.wasLoaded THEN "bootout" ELSE "bootstrap"
Swapped(outcome) ==
    CASE outcome = "committed" -> Goto(IF op.back THEN "reload" ELSE Forward)
      [] outcome = "not committed" /\ ~op.back /\ (op.kind = "install" \/ ~op.wasLoaded) ->
            Answer("failed")
      [] OTHER -> Answer("partial")

(* An exchange needs an entry, an exclusive rename over none needs there   *)
(* to be none.                                                             *)
Replaceable == IF Content # Missing /\ op.expected = Missing THEN plist = Missing ELSE plist # Missing
Swap ==
    /\ op.step = "swap"
    /\ \/ /\ Replaceable /\ plist' = Content
          /\ op' = [op EXCEPT !.step = "validate", !.displaced = plist]
          /\ Ok /\ UNCHANGED answer
       \/ /\ IF Replaceable THEN Fails ELSE Ok
          /\ Swapped("not committed") /\ UNCHANGED plist
    /\ UNCHANGED <<loaded, lost>>

(* The displaced entry is removed when it is the one that was expected.    *)
AcceptsAny == TRUE
Accepts == op.displaced = op.expected
Validate ==
    /\ op.step = "validate" /\ Accepts
    /\ \/ Ok /\ Swapped("committed")
       \/ Fails /\ Swapped("uncertain")
    /\ lost' = (lost \/ (op.displaced = Edited /\ op.expected # Edited))
    /\ UNCHANGED <<plist, loaded>>

(* Otherwise it goes back; what that brings out is removed only if it is   *)
(* the file this operation wrote.  When it cannot go back, it stays under  *)
(* the other name.                                                         *)
PutBack ==
    /\ op.step = "validate" /\ ~Accepts
    /\ LET possible == IF Content = Missing THEN plist = Missing ELSE plist # Missing IN
       \/ /\ possible /\ plist' = op.displaced
          /\ Ok /\ Swapped(IF plist = Content THEN "not committed" ELSE "uncertain")
       \/ /\ IF possible THEN Fails ELSE Ok
          /\ Swapped("uncertain") /\ UNCHANGED plist
    /\ UNCHANGED <<loaded, lost>>

----------------------------------------------------------------------------
(* rollbackInstall: the property list that is there now is replaced by the *)
(* previous one, or removed; the service is loaded again if it was.        *)

Rollback ==
    /\ op.step = "rollback"
    /\ IF plist = Missing THEN Answer("partial")
       ELSE op' = [op EXCEPT !.back = TRUE, !.expected = plist, !.step = "swap"] /\ UNCHANGED answer
    /\ UNCHANGED <<plist, loaded, used, lost>>

(* sameObservedState decides whether the cause may be reported.            *)
Same(isLoaded) ==
    Observed(isLoaded) = IF op.wasLoaded THEN "loaded"
                         ELSE IF op.previous = Missing THEN "not_installed" ELSE "installed_not_loaded"
Judged(isLoaded) == Answer(IF Same(isLoaded) THEN "failed" ELSE "partial")
Reload ==
    /\ op.step = "reload"
    /\ IF op.wasLoaded /\ loaded = Missing
       THEN \/ Succeeds(Loadable, plist) /\ Judged(TRUE)
            \/ Refuses(Loadable, plist) /\ Answer("partial")
       ELSE \/ Ok /\ Judged(loaded # Missing) /\ UNCHANGED loaded
            \/ Fails /\ Answer("partial") /\ UNCHANGED loaded
    /\ UNCHANGED <<plist, lost>>

----------------------------------------------------------------------------
(* Another program writes or deletes the property list; the process of the *)
(* operation is killed.                                                    *)
Edit(content) ==
    /\ used.edits < MaxEdits /\ used' = [used EXCEPT !.edits = @ + 1]
    /\ plist' = content /\ plist # content
    /\ op' = IF op = Idle THEN op ELSE [op EXCEPT !.touched = TRUE]
    /\ answer' = NoAnswer
    /\ UNCHANGED <<loaded, lost>>

Killed ==
    /\ op # Idle /\ op.step # "query" /\ Fails
    /\ op' = Idle /\ answer' = NoAnswer
    /\ UNCHANGED <<plist, loaded, lost>>

Next ==
    \/ \E d \in Definitions : Begin("install", d)
    \/ Begin("uninstall", Missing) \/ Begin("restart", Missing)
    \/ Query \/ Finish \/ BootstrapIdentical \/ Bootout \/ Bootstrap \/ Kickstart
    \/ Swap \/ Validate \/ PutBack \/ Rollback \/ Reload
    \/ \E content \in {Edited, Missing} : Edit(content)
    \/ Killed

Spec == Init /\ [][Next]_vars

----------------------------------------------------------------------------
(* What an operation answers is so, whatever failed on the way: success     *)
(* means that the property list is the desired one and the service loaded   *)
(* (with that definition, unless launchd had an older one before), or both  *)
(* gone; an error that is not ErrPartial means that the property list and   *)
(* whether the service is loaded are as they were.  And an edit of another  *)
(* program that the operation had not read is never destroyed.              *)
AnswersTrue ==
    /\ ~lost
    /\ answer # NoAnswer /\ ~answer.touched =>
          /\ answer.result = "ok" /\ answer.kind = "install" =>
                /\ plist = answer.desired /\ loaded # Missing
                /\ loaded = answer.desired \/ answer.before.loaded \notin {Missing, answer.before.plist}
          /\ answer.result = "ok" /\ answer.kind = "uninstall" => plist = Missing /\ loaded = Missing
          /\ answer.result = "failed" =>
                /\ plist = answer.before.plist
                /\ loaded = Missing <=> answer.before.loaded = Missing
=============================================================================
