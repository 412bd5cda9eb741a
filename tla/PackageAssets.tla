---------------------------- MODULE PackageAssets ----------------------------
(***************************************************************************)
(* The assets of one plugin package on the device                          *)
(* (internal/assets/reconciler.go).  reconcile brings the device to a      *)
(* package and records which of its files it has verified by reading them  *)
(* back, so that it need not read them again; CollectGarbage removes those *)
(* that the package no longer declares; InvalidateConnection, which takes  *)
(* no part in reconcileMu, forgets every verification.                     *)
(*                                                                         *)
(* A file's name is derived from its content, so an asset stands for both. *)
(***************************************************************************)
EXTENDS Integers, FiniteSets

CONSTANTS Assets,
          Manifests,    \* the sets of assets the versions of the package declare
          MaxFaults     \* failed calls and losses of storage

VARIABLES
    rec,        \* phase, paths, fingerprint of the committed package, observed files
    op,         \* the operation that holds reconcileMu
    files,      \* asset -> "none", "partial" or "whole" on the device
    stale,      \* the device lost storage and the connection is not yet invalidated
    faults,
    unanswered  \* ghost: files whose removal failed after it had taken effect

vars == <<rec, op, files, stale, faults, unanswered>>

Packages == [enabled : BOOLEAN, assets : Manifests]
NoPackage == [enabled |-> FALSE, assets |-> Assets \cup {"none"}]

Idle == [kind |-> "idle", package |-> NoPackage, current |-> TRUE, observed |-> {}, verified |-> {},
         todo |-> {}]

Init ==
    /\ rec = [phase |-> "unknown", paths |-> {}, fingerprint |-> NoPackage, observed |-> {}, verified |-> {}]
    /\ op = Idle
    /\ files \in [Assets -> {"none", "whole"}]
    /\ stale = FALSE /\ faults = 0 /\ unanswered = {}

----------------------------------------------------------------------------
Fault == faults < MaxFaults /\ faults' = faults + 1

(* The writes of the reconciler's state are dropped when the connection     *)
(* epoch is no longer the one the operation began with.                    *)
Ignoring(value) == rec' = value
Record(value) == rec' = IF op.current THEN value ELSE rec

(* pending leaves the files recorded before as they are; pendingObserved    *)
(* records what the operation has found so far.                            *)
Pending(phase) == [rec EXCEPT !.phase = phase]
PendingObserved == [rec EXCEPT !.phase = "pending", !.observed = op.observed, !.verified = op.verified]
Committed(phase, paths, observed, verified) ==
    [phase |-> phase, paths |-> paths, fingerprint |-> op.package,
     observed |-> observed, verified |-> verified]

ReadyFor(package) == rec.phase = "ready" /\ rec.fingerprint = package

(* reconcile: nothing to do for the package that is in place; otherwise the *)
(* files to remove, or those to verify.                                    *)
InPlace(package) ==
    /\ rec.fingerprint = package
    /\ rec.phase = IF package.enabled THEN "ready" ELSE "absent"

Removes(package) == ~package.enabled \/ package.assets = {}

Reconcile(package) ==
    /\ op = Idle /\ ~InPlace(package)
    /\ op' = [Idle EXCEPT !.kind = IF Removes(package) THEN "remove" ELSE "verify",
                          !.package = package, !.observed = rec.observed, !.verified = rec.verified,
                          !.todo = IF Removes(package) THEN rec.observed ELSE package.assets]
    /\ UNCHANGED <<rec, files, stale, faults, unanswered>>

(* CollectGarbage: the files observed that a ready package does not declare.*)
Everything(package) == rec.observed
Obsolete(package) == rec.observed \ package.assets
CollectGarbage(package) ==
    /\ op = Idle /\ package.enabled /\ package.assets # {} /\ ReadyFor(package)
    /\ Obsolete(package) # {}
    /\ op' = [Idle EXCEPT !.kind = "collect", !.package = package, !.observed = rec.observed,
                          !.verified = rec.verified, !.todo = Obsolete(package)]
    /\ UNCHANGED <<rec, files, stale, faults, unanswered>>

----------------------------------------------------------------------------
(* Device calls                                                             *)

(* A file of a disabled package, or of an obsolete set, is removed.  The    *)
(* collector records each removal, reconcile only the end or a failure.     *)
Removed(a) ==
    LET done == [op EXCEPT !.observed = @ \ {a}, !.verified = @ \ {a}, !.todo = @ \ {a}] IN
    /\ files' = [files EXCEPT ![a] = "none"]
    /\ unanswered' = unanswered \ {a}
    /\ UNCHANGED faults
    /\ IF op.kind = "collect"
       THEN /\ Record([rec EXCEPT !.observed = @ \ {a}, !.verified = @ \ {a}])
            /\ op' = IF op.current /\ done.todo # {} THEN done ELSE Idle
       ELSE op' = done /\ UNCHANGED rec

RemoveFails(a) ==
    /\ Fault
    /\ Record(IF op.kind = "collect"
              THEN [rec EXCEPT !.observed = op.observed, !.verified = op.verified] ELSE PendingObserved)
    /\ op' = Idle
    /\ \/ UNCHANGED <<files, unanswered>>
       \/ /\ files' = [files EXCEPT ![a] = "none"]
          /\ unanswered' = unanswered \cup {a}

Remove ==
    /\ op.kind \in {"remove", "collect"}
    /\ \E a \in op.todo : Removed(a) \/ RemoveFails(a)
    /\ UNCHANGED stale

(* A declared file is taken as it is when it was verified; otherwise it is  *)
(* read back, uploaded when it does not match, and read back again.        *)
Trusted(a) == a \in op.observed
Known(a) == a \in op.verified

Verified(a) == op' = [op EXCEPT !.observed = @ \cup {a}, !.verified = @ \cup {a}, !.todo = @ \ {a}]

VerifyFails(a) ==
    /\ Fault /\ op' = Idle
    /\ \/ Record(Pending("error")) /\ UNCHANGED files
       \/ /\ Record(PendingObserved)
          /\ \E content \in {files[a], "partial", "whole"} : files' = [files EXCEPT ![a] = content]

Verify ==
    /\ op.kind = "verify"
    /\ \E a \in op.todo :
          \/ Known(a) /\ op' = [op EXCEPT !.todo = @ \ {a}] /\ UNCHANGED <<rec, files, faults, unanswered>>
          \/ /\ ~Known(a) /\ Verified(a)
             /\ files' = [files EXCEPT ![a] = "whole"]
             /\ unanswered' = unanswered \ {a}
             /\ UNCHANGED <<rec, faults>>
          \/ ~Known(a) /\ VerifyFails(a) /\ UNCHANGED unanswered
    /\ UNCHANGED stale

Finish ==
    /\ op.kind \in {"remove", "verify"} /\ op.todo = {}
    /\ Record(IF ~op.package.enabled THEN Committed("absent", {}, {}, {})
              ELSE Committed("ready", op.package.assets, op.observed, op.verified))
    /\ op' = Idle
    /\ UNCHANGED <<files, stale, faults, unanswered>>

----------------------------------------------------------------------------
(* The device comes back without some of its storage; the status stream     *)
(* reports the connection later (OnConnected in internal/daemonrun/run.go). *)
LoseStorage ==
    /\ Fault
    /\ \E lost \in SUBSET Assets :
          files' = [a \in Assets |-> IF a \in lost THEN "none" ELSE files[a]]
    /\ stale' = TRUE
    /\ UNCHANGED <<rec, op, unanswered>>

InvalidateConnection ==
    /\ stale
    /\ op' = IF op = Idle THEN op ELSE [op EXCEPT !.current = FALSE]
    /\ rec' = IF rec.paths = {} /\ rec.observed = {} THEN rec
              ELSE [rec EXCEPT !.phase = "pending", !.fingerprint = NoPackage, !.verified = {}]
    /\ stale' = FALSE /\ unanswered' = {}
    /\ UNCHANGED <<files, faults>>

Next ==
    \/ \E package \in Packages : Reconcile(package) \/ CollectGarbage(package)
    \/ Remove \/ Verify \/ Finish
    \/ LoseStorage \/ InvalidateConnection

Spec == Init /\ [][Next]_vars

----------------------------------------------------------------------------
(* The phase is that of the package in force, except while another package  *)
(* takes its files away and when a loss of storage is yet to be reported.   *)
InForce == rec.phase = "ready" /\ ~stale /\ op.kind # "remove"

(* Ready means stored: "ReadyFor reports readiness only when the verified   *)
(* device mapping belongs to this exact package" (reconciler.go:331): every *)
(* file that a ready package declares, and its scenes name, is on the       *)
(* device as declared.                                                      *)
ReadyIsStored ==
    InForce => \A a \in rec.paths : files[a] = "whole"

(* The same, but for files whose removal failed after it had taken effect,  *)
(* which stay recorded as verified: reconciliations, collections, failing   *)
(* calls, updates, rollbacks and a loss of storage in the middle of any of  *)
(* them leave no other file of a ready package missing.                     *)
ReadyIsStoredIfAnswered ==
    InForce => \A a \in rec.paths : files[a] = "whole" \/ a \in unanswered
=============================================================================
