-------------------------- MODULE ReconcilerProofs --------------------------
(***************************************************************************)
(* The host, the plan and the reports of the reconciler agree, and no older *)
(* disable removes the assets of a newer enable, for any number of apps,    *)
(* callers, commits and disturbances.                                       *)
(***************************************************************************)
EXTENDS Reconciler, TLAPS

----------------------------------------------------------------------------
(* Types                                                                     *)

Document == [Apps -> [generation : 1 .. MaxCommits, enabled : BOOLEAN]]

Readiness == [Apps -> [phase : Phases, retry : BOOLEAN, failed : BOOLEAN]]

Candidate == [revision : Nat, specs : [Apps -> Generation],
              phase : [Apps -> {"disabled", "secret", "ready"}]]

LiveState ==
    [loaded : BOOLEAN, closing : BOOLEAN, version : 1 .. MaxCommits, epoch : Nat,
     doc : Document, generations : [Apps -> Generation], specs : [Apps -> Generation],
     readiness : Readiness, active : Procs \cup {Nobody}, candidate : Candidate,
     revisions : Nat, accepted : Nat, finalized : Nat, correction : Nat,
     hostClosed : BOOLEAN]

Pcs == {"idle", "quiesce", "quiesce_apply", "quiesce_settle", "lock", "upload", "begin",
        "stage", "check", "apply", "settle", "final", "finish", "report", "arm", "reapply"}

Process ==
    [pc : Pcs, after : {"begin", "finish", "reapply"}, epoch : Nat,
     retained : SUBSET Apps, resolve : SUBSET Apps, attempted : SUBSET Apps,
     replace : BOOLEAN, revision : Nat, specs : [Apps -> Generation],
     blocked : SUBSET Apps, enabled : SUBSET Apps, drops : BOOLEAN,
     retires : SUBSET Apps, err : BOOLEAN, report : BOOLEAN, left : BOOLEAN,
     cancelled : BOOLEAN]

(* Every variable has its type. *)
TypesInv ==
    /\ live \in LiveState /\ proc \in [Procs -> Process]
    /\ host \in [Apps -> Generation] /\ assets \subseteq Apps /\ stopped \subseteq Apps
    /\ quiesced \in BOOLEAN

(* The two loops are processes apart from the callers, and Nobody is none.  *)
LEMMA ProcIs == Nobody \notin Procs /\ "retry" \in Procs /\ "assets" \in Procs /\ "retry" # "assets"
                /\ Clients \subseteq Procs /\ "retry" \notin Clients /\ "assets" \notin Clients
BY ReconcilerAssumption DEF Procs, Nobody

----------------------------------------------------------------------------
(* What a step leaves of LiveState, of the host and of the processes         *)

SameEpoch == live'.loaded = live.loaded /\ live'.closing = live.closing /\ live'.epoch = live.epoch

SamePlan == /\ live'.doc = live.doc /\ live'.version = live.version
            /\ live'.candidate = live.candidate /\ live'.revisions = live.revisions

SameHost == UNCHANGED <<host, stopped, quiesced>>

SameAssets == UNCHANGED <<assets, assetMu>>

(* Nothing is newly reported but that it waits, and what is retried stays so. *)
ReportsFewer ==
    \A a \in Apps : \/ live'.readiness[a] = live.readiness[a]
                   \/ /\ live'.readiness[a].phase = "reconcile"
                      /\ live.readiness[a].retry => live'.readiness[a].retry

(* What a step leaves of the record of a process: the parameters of its     *)
(* operation, or all that matters but whether the attempt is cancelled.     *)
Keeps(p) ==
    /\ proc'[p].after = proc[p].after /\ proc'[p].epoch = proc[p].epoch
    /\ proc'[p].replace = proc[p].replace /\ proc'[p].revision = proc[p].revision
    /\ proc'[p].enabled = proc[p].enabled

Stays(p) ==
    /\ Keeps(p) /\ proc'[p].pc = proc[p].pc /\ proc'[p].specs = proc[p].specs
    /\ proc'[p].drops = proc[p].drops /\ proc'[p].err = proc[p].err

Continues(p) == Keeps(p) /\ proc'[p].cancelled = proc[p].cancelled

OthersStay(p) == \A q \in Procs \ {p} : Stays(q)

OnlyMoves(p) == OthersStay(p) /\ \A q \in Procs \ {p} : proc'[q].cancelled = proc[q].cancelled

(* The active attempt is cancelled, the other processes keep their records.  *)
Cancels(p) ==
    /\ OthersStay(p)
    /\ \A q \in Procs \ {p} : proc[q].cancelled \/ live.active = q => proc'[q].cancelled

Quiescing == {"quiesce", "quiesce_apply", "quiesce_settle"}

(* From beginAttempt to finishAttempt                                       *)
Attempting(p) ==
    \/ proc[p].pc \in {"stage", "check", "apply", "settle", "final", "finish"}
    \/ proc[p].pc \in {"lock", "upload"} /\ proc[p].after = "finish"

(* A commit is on its way to stage the plan of its document.                *)
Preparing(p) ==
    /\ proc[p].replace /\ proc[p].epoch = live.epoch /\ proc[p].after = "begin"
    /\ proc[p].revision = 0
    /\ \/ proc[p].pc \in Quiescing \cup {"lock", "upload", "begin"}
       \/ proc[p].pc = "stage" /\ live.active = p

----------------------------------------------------------------------------
(* The steps that change neither the plan nor who owns LiveState             *)

(* LiveState keeps its owner and plan; a failure may be noted.               *)
OnlyReports(p) ==
    /\ SameEpoch /\ SamePlan /\ ReportsFewer /\ live'.active = live.active
    /\ live'.correction \in {live.correction, live.candidate.revision, proc[p].revision}

(* A process moves on, inside or outside of an attempt.                      *)
Proceeds(p) ==
    /\ OnlyMoves(p) /\ (live.loaded \/ proc'[p].pc = proc[p].pc)
    /\ proc'[p].epoch \in {0, proc[p].epoch, live.epoch}
    /\ Attempting(p)' <=> Attempting(p)
    /\ Attempting(p) => proc'[p].cancelled = proc[p].cancelled /\ proc'[p].epoch = proc[p].epoch
    /\ proc'[p].pc \in Quiescing => proc'[p].after # "finish"

(* A step that neither makes nor applies a plan and, unless it quiesces,     *)
(* leaves the host and what is accepted, and a commit on its way             *)
Quiet(p) ==
    /\ OnlyReports(p) /\ Proceeds(p)
    /\ proc'[p].revision \in {0, proc[p].revision, live.candidate.revision}
    /\ proc'[p].replace => proc[p].replace /\ (proc'[p].epoch = proc[p].epoch \/ p \notin Clients)
    /\ proc'[p].pc \notin {"check", "apply", "settle"} \/ Stays(p)
    /\ \/ quiesced'
       \/ /\ SameHost /\ live'.generations = live.generations
          /\ ~live.closing /\ Preparing(p) => Preparing(p)'

(* A step outside of asset I/O; who is to do it has the current document.    *)
Apart(p) ==
    /\ SameAssets
    /\ \/ Stays(p)
       \/ /\ proc[p].pc \notin {"lock", "upload"} /\ ~At(p, "upload")'
          /\ proc'[p].pc \in Quiescing \cup {"lock"} /\ proc'[p].after # "begin" =>
                \/ proc[p].pc \in Quiescing /\ Keeps(p)
                \/ proc'[p].enabled = Enabled(live)

Passes(p) == TypesInv' /\ Quiet(p) /\ Apart(p)

----------------------------------------------------------------------------
(* The other steps: of attempts, of commits, and events                      *)

(* An attempt becomes the active one.                                        *)
Takes(p) ==
    /\ SameEpoch /\ SamePlan /\ SameHost /\ SameAssets /\ live'.readiness = live.readiness
    /\ live'.correction = live.correction /\ live'.generations = live.generations
    /\ At(p, "begin") /\ ~live.closing /\ live.epoch = proc[p].epoch
    /\ live.active = Nobody \/ proc[p].replace
    /\ live'.active = p /\ Cancels(p) /\ Keeps(p)
    /\ proc'[p].pc = IF proc[p].revision = 0 THEN "stage" ELSE "check"

(* The plan that an attempt stages: an app is in it with its generation if   *)
(* it is enabled and its secret resolves.                                    *)
StagesPlan(p) ==
    /\ At(p, "stage") /\ Owns(p) /\ SameEpoch /\ SameHost /\ live'.active = live.active
    /\ live'.doc = live.doc /\ live'.version = live.version /\ live'.generations = live.generations
    /\ live'.revisions = live.revisions + 1 /\ live'.correction = 0
    /\ live'.candidate.revision = live.revisions + 1
    /\ \A a \in Apps :
          /\ (live'.candidate.phase[a] = "disabled") <=> ~live.doc[a].enabled
          /\ live'.candidate.specs[a] = IF live'.candidate.phase[a] = "ready"
                                        THEN live.doc[a].generation ELSE 0
          /\ live'.readiness[a] = StagedStatus(p, a, live'.candidate.phase[a])
    /\ Apart(p) /\ Proceeds(p) /\ proc'[p].pc = "check" /\ proc'[p].revision = live.revisions + 1
    /\ proc'[p].replace = proc[p].replace /\ proc'[p].epoch = proc[p].epoch

(* An attempt of the current plan goes on to apply a part of it.             *)
ChecksPlan(p) ==
    /\ At(p, "check") /\ OwnsRevision(p) /\ live' = live /\ SameHost
    /\ Apart(p) /\ Proceeds(p) /\ Continues(p) /\ proc'[p].pc = "apply"
    /\ \A a \in Apps : proc'[p].specs[a] \in {0, live.candidate.specs[a]}

(* The host is changed only for an attempt that is not cancelled; what runs  *)
(* and is neither stopped nor left alone gets the generation of the plan.    *)
AppliesPlan(p) ==
    /\ At(p, "apply") /\ live' = live /\ quiesced' = quiesced /\ stopped \subseteq stopped'
    /\ Apart(p) /\ Proceeds(p) /\ Continues(p) /\ proc'[p].pc = "settle"
    /\ proc'[p].specs = proc[p].specs
    /\ host' = host \/ ~proc[p].cancelled
    /\ ~proc'[p].err => host' = proc[p].specs
    /\ \A a \in Apps \ stopped' : host[a] = 0 \/ host'[a] = host[a]
                                  \/ (host'[a] = proc[p].specs[a] /\ host'[a] # 0)

(* An attempt whose plan is accepted reports the apps that it gave to the    *)
(* host.                                                                     *)
AcceptsPlan(p) ==
    /\ At(p, "settle") /\ OwnsRevision(p) /\ ~proc[p].err /\ SameEpoch /\ SamePlan
    /\ live'.active = live.active /\ live'.correction = 0 /\ live'.generations = proc[p].specs
    /\ \A a \in Apps : live'.readiness[a] = AcceptedStatus(live, proc[p].specs, a)
    /\ host' = host /\ stopped' = {} /\ quiesced' = (quiesced /\ host # proc[p].specs)
    /\ Apart(p) /\ Proceeds(p) /\ Continues(p) /\ proc'[p].pc = "final"

(* The attempt is over, and nobody is active if it was.                      *)
Finishes(p) ==
    /\ At(p, "finish") /\ SameEpoch /\ SamePlan /\ SameHost /\ live'.readiness = live.readiness
    /\ live'.correction = live.correction /\ live'.generations = live.generations
    /\ live'.active = (IF live.active = p THEN Nobody ELSE live.active)
    /\ Apart(p) /\ OnlyMoves(p) /\ Continues(p) /\ proc'[p].pc = "report"

Attempts(p) ==
    \/ Takes(p) \/ StagesPlan(p) \/ ChecksPlan(p) \/ AppliesPlan(p) \/ AcceptsPlan(p) \/ Finishes(p)

(* The plan is dropped, an app that has a new generation is reported to wait *)
(* or disabled, and only current generations are kept.                       *)
AcceptsDocument ==
    /\ live'.loaded /\ live'.closing = live.closing /\ ~live.closing
    /\ live'.epoch = live.epoch + 1
    /\ live'.candidate.revision = 0 /\ live'.revisions = live.revisions /\ live'.correction = 0
    /\ live'.active = live.active /\ live'.version >= live.version
    /\ \A a \in Apps :
          /\ live'.doc[a].generation \in {live.doc[a].generation, live'.version}
          /\ \/ /\ live.loaded /\ live'.readiness[a] = live.readiness[a]
                /\ live'.doc[a].generation = live.doc[a].generation
             \/ live'.readiness[a].phase \in {"reconcile", "disabled"}
          /\ live'.generations[a] # 0 =>
                live'.doc[a] = [generation |-> live'.generations[a], enabled |-> TRUE]

(* The operation that the commit starts: what it newly enables waits for     *)
(* assetMu.                                                                  *)
Commits(p) ==
    /\ AcceptsDocument /\ SameHost /\ assetMu' = assetMu /\ Cancels(p)
    /\ p \in Clients /\ At(p, "idle") /\ proc'[p].pc \in {"quiesce", "lock", "begin"}
    /\ proc'[p].replace /\ proc'[p].epoch = live.epoch + 1 /\ proc'[p].after = "begin"
    /\ proc'[p].revision = 0
    /\ proc'[p].pc = "lock" \/ \A b \in Apps : live'.doc[b].enabled => live.doc[b].enabled
    /\ SameAssets \/ \E a \in Apps : live'.doc[a].generation = live.version + 1

(* No operation moves and the plan stays; the host may be changed when the   *)
(* reconciler is closed.                                                     *)
Rests ==
    /\ \A q \in Procs : Stays(q) /\ (proc[q].cancelled => proc'[q].cancelled)
    /\ SamePlan /\ live'.readiness = live.readiness /\ live'.generations = live.generations
    /\ live'.correction = live.correction /\ live'.active = live.active /\ live'.loaded = live.loaded
    /\ assetMu' = assetMu /\ UNCHANGED <<stopped, quiesced>> /\ (assets' = assets \/ proc' = proc)
    /\ \/ live'.closing /\ live'.epoch \in {live.epoch, live.epoch + 1}
       \/ SameEpoch /\ host' = host

----------------------------------------------------------------------------
(* The inductive invariant                                                   *)

(* Nothing happens before Load; the active attempt is running, and an       *)
(* attempt that is not cancelled is the active one and belongs to the       *)
(* current document.                                                        *)
OwnerInv ==
    /\ ~live.loaded => live.active = Nobody /\ \A p \in Procs : At(p, "idle")
    /\ \A p \in Procs :
          /\ live.active = p => Attempting(p)
          /\ proc[p].epoch <= live.epoch
          /\ Attempting(p) /\ ~proc[p].cancelled =>
                live.active = p /\ (live.closing \/ proc[p].epoch = live.epoch)
          /\ proc[p].pc \in Quiescing => proc[p].after # "finish"

(* The plan follows from the document, and what is reported from the plan.   *)
PlanInv ==
    /\ live.candidate.revision <= live.revisions /\ live.correction <= live.revisions
    /\ \A a \in Apps :
          /\ live.doc[a].generation <= live.version
          /\ live.readiness[a].phase = "secret" => live.readiness[a].retry
          /\ live.candidate.revision # 0 =>
                /\ live.candidate.specs[a] = IF live.candidate.phase[a] = "ready"
                                             THEN live.doc[a].generation ELSE 0
                /\ (live.candidate.phase[a] = "disabled") <=> ~live.doc[a].enabled
                /\ live.candidate.phase[a] = "secret" => live.readiness[a].retry
                /\ live.readiness[a].phase = "ready" => live.candidate.phase[a] = "ready"

(* The plan of an attempt that owns LiveState is the current one, and the    *)
(* host runs it when the attempt has applied it and quiescing has not        *)
(* followed.                                                                 *)
AttemptOf(p) ==
    /\ proc[p].revision <= live.revisions
    /\ proc[p].pc \in {"check", "apply", "settle"} => proc[p].revision # 0
    /\ proc[p].pc \in {"apply", "settle"} =>
          /\ Owns(p) => OwnsRevision(p)
          /\ live.candidate.revision = proc[p].revision =>
                \A a \in Apps : proc[p].specs[a] \in {0, live.candidate.specs[a]}
    /\ At(p, "settle") /\ ~proc[p].err /\ Owns(p) /\ ~quiesced => host = proc[p].specs

AttemptInv == \A p \in Procs : AttemptOf(p)

(* Only the last commit may take an attempt over, and until its plan is      *)
(* staged, or quiescing makes it give up, it is on its way.                  *)
CommitInv ==
    /\ \A p \in Procs : proc[p].replace => p \in Clients
    /\ \A p, q \in Procs :
          /\ proc[p].replace /\ proc[q].replace
          /\ proc[p].epoch = live.epoch /\ proc[q].epoch = live.epoch
          => p = q
    /\ live.loaded /\ ~live.closing /\ live.candidate.revision = 0 /\ ~quiesced =>
          \E p \in Clients : Preparing(p)

Agreement == OwnerInv /\ PlanInv /\ AttemptInv /\ CommitInv /\ PlanIsHosted /\ GenerationsCurrent

(* assetMu is held by the process in asset I/O; who may drop assets has the  *)
(* current document, or had it when it took the lock: what is enabled since  *)
(* then waits for the lock.                                                  *)
AssetOf(p) ==
    /\ At(p, "upload") <=> assetMu = p
    /\ /\ proc[p].pc \in Quiescing \cup {"lock"}
       /\ proc[p].after # "begin" /\ proc[p].epoch = live.epoch
       => proc[p].enabled = Enabled(live)
    /\ At(p, "upload") /\ proc[p].drops =>
          \A a \in Enabled(live) \ proc[p].enabled :
             \E q \in Procs : At(q, "lock") /\ proc[q].after = "begin"

AssetInv == \A p \in Procs : AssetOf(p)

IInv == TypesInv /\ Agreement /\ AssetInv

(* The numbers that the invariants compare                                   *)
LEMMA Numbers ==
    ASSUME TypesInv, Agreement
    PROVE  /\ live.epoch \in Nat /\ live.revisions \in Nat /\ live.version \in Nat
           /\ live.correction \in Nat /\ live.candidate.revision \in Nat
           /\ live.correction <= live.revisions /\ live.candidate.revision <= live.revisions
           /\ \A p \in Procs : /\ proc[p].revision \in Nat /\ proc[p].revision <= live.revisions
                               /\ proc[p].epoch \in Nat /\ proc[p].epoch <= live.epoch
BY ReconcilerAssumption
   DEF TypesInv, LiveState, Candidate, Process, Agreement, PlanInv, AttemptInv, AttemptOf, OwnerInv

(* No app has a generation above the version of the document.                *)
LEMMA Generations ==
    ASSUME TypesInv, Agreement
    PROVE  \A a \in Apps : live.doc[a].generation \in Nat /\ live.doc[a].generation <= live.version
BY ReconcilerAssumption DEF TypesInv, LiveState, Document, Agreement, PlanInv

----------------------------------------------------------------------------
(* What keeps each part                                                      *)

(* A process that neither begins nor finishes an attempt                     *)
LEMMA OwnerKept ==
    ASSUME TypesInv, OwnerInv, NEW p \in Procs, SameEpoch, live'.active = live.active, Proceeds(p)
    PROVE  OwnerInv'
<1>1. ~live'.loaded => live'.active = Nobody /\ \A q \in Procs : At(q, "idle")'
  BY DEF OwnerInv, SameEpoch, Proceeds, OnlyMoves, OthersStay, Stays, At
<1>2. ASSUME NEW q \in Procs
      PROVE  /\ live'.active = q => Attempting(q)'
             /\ proc'[q].epoch <= live'.epoch
             /\ Attempting(q)' /\ ~proc'[q].cancelled =>
                   live'.active = q /\ (live'.closing \/ proc'[q].epoch = live'.epoch)
             /\ proc'[q].pc \in Quiescing => proc'[q].after # "finish"
  <2>1. CASE q = p
    <3>1. proc'[p].epoch <= live.epoch
      BY DEF OwnerInv, Proceeds, TypesInv, LiveState
    <3> QED BY <2>1, <3>1 DEF OwnerInv, SameEpoch, Proceeds
  <2>2. CASE q # p
    <3>1. Stays(q) /\ proc'[q].cancelled = proc[q].cancelled
      BY <2>2 DEF Proceeds, OnlyMoves, OthersStay
    <3> QED BY <3>1 DEF OwnerInv, SameEpoch, Stays, Keeps, Attempting
  <2> QED BY <2>1, <2>2
<1> QED BY <1>1, <1>2 DEF OwnerInv

(* A step that leaves the plan, and reports nothing new                      *)
LEMMA PlanKept ==
    ASSUME TypesInv, Agreement, NEW p \in Procs, SamePlan, ReportsFewer,
           live'.correction \in {live.correction, live.candidate.revision, proc[p].revision}
    PROVE  PlanInv'
<1>1. live'.correction <= live.revisions
  BY Numbers
<1> QED BY <1>1 DEF Agreement, PlanInv, SamePlan, ReportsFewer

(* The other attempts, as long as they do not gain LiveState and the plan is *)
(* the same                                                                  *)
LEMMA AttemptKept ==
    ASSUME AttemptInv, NEW p \in Procs, AttemptOf(p)', OthersStay(p), SameEpoch, SamePlan,
           live'.active \in {live.active, p, Nobody},
           \/ quiesced'
           \/ host' = host /\ quiesced' = quiesced
           \/ Owns(p) \/ live.closing
    PROVE  AttemptInv'
<1> SUFFICES ASSUME NEW q \in Procs \ {p}
             PROVE  AttemptOf(q)'
  BY DEF AttemptInv
<1>1. Stays(q) /\ AttemptOf(q)
  BY DEF OthersStay, AttemptInv
<1>2. Owns(q)' => Owns(q) /\ ~Owns(p) /\ ~live.closing
  BY <1>1, ProcIs DEF Owns, SameEpoch, Stays, Keeps
<1> QED BY <1>1, <1>2 DEF AttemptOf, Stays, Keeps, SamePlan, Owns, OwnsRevision, At

(* No commit is taken for another one, and those on their way remain so.     *)
LEMMA CommitKept ==
    ASSUME CommitInv, SameEpoch, NEW p \in Procs, OthersStay(p),
           proc'[p].replace => proc[p].replace /\ (proc'[p].epoch = proc[p].epoch \/ p \notin Clients),
           \A q \in Procs \ {p} : Preparing(q) /\ live.active = q => live'.active = q,
           \/ quiesced' \/ live'.candidate.revision # 0
           \/ /\ quiesced' = quiesced /\ live'.candidate = live.candidate
              /\ ~live.closing /\ Preparing(p) => Preparing(p)'
    PROVE  CommitInv'
<1>1. \A q \in Procs : /\ proc'[q].replace => proc[q].replace /\ q \in Clients
                       /\ proc'[q].replace => proc'[q].epoch = proc[q].epoch
  BY DEF OthersStay, Stays, Keeps, CommitInv
<1>2. ASSUME live'.loaded, ~live'.closing, live'.candidate.revision = 0, ~quiesced'
      PROVE  \E q \in Clients : Preparing(q)'
  <2>1. PICK q \in Clients : Preparing(q)
    BY <1>2 DEF CommitInv, SameEpoch
  <2>2. CASE q = p
    BY <1>2, <2>1, <2>2 DEF SameEpoch
  <2>3. CASE q # p
    BY <2>1, <2>3, ProcIs DEF Preparing, OthersStay, Stays, Keeps, SameEpoch
  <2> QED BY <2>2, <2>3
<1> QED BY <1>1, <1>2 DEF CommitInv, SameEpoch

(* A step that changes neither host nor plan, and reports nothing new        *)
LEMMA HostedKept ==
    ASSUME PlanIsHosted, GenerationsCurrent, SameEpoch, SamePlan, ReportsFewer,
           quiesced' \/ (SameHost /\ live'.generations = live.generations)
    PROVE  PlanIsHosted' /\ GenerationsCurrent'
<1>1. ~quiesced' => SameHost /\ ~quiesced
  BY DEF SameHost
<1>2. \A a \in Apps : live'.readiness[a].phase = "ready" => live.readiness[a].phase = "ready"
  BY DEF ReportsFewer
<1>3. PlanIsHosted'
  BY <1>1, <1>2 DEF PlanIsHosted, SameHost, SameEpoch, SamePlan
<1>4. GenerationsCurrent'
  BY <1>1 DEF GenerationsCurrent, SameHost, Hosted, SamePlan
<1> QED BY <1>3, <1>4

(* A quiet step keeps the agreement.                                         *)
LEMMA QuietKeeps ==
    ASSUME TypesInv, Agreement, NEW p \in Procs, Quiet(p)
    PROVE  Agreement'
<1> /\ OwnerInv /\ AttemptInv /\ CommitInv /\ PlanIsHosted /\ GenerationsCurrent
    /\ Proceeds(p) /\ OthersStay(p) /\ SameEpoch /\ SamePlan /\ ReportsFewer
    /\ live'.active = live.active
    /\ live'.correction \in {live.correction, live.candidate.revision, proc[p].revision}
    /\ quiesced' \/ (SameHost /\ live'.generations = live.generations)
  BY DEF Agreement, Quiet, OnlyReports, Proceeds, OnlyMoves
<1>1. OwnerInv'
  BY Zenon, OwnerKept
<1>2. PlanInv'
  BY Zenon, PlanKept
<1>3. AttemptOf(p)'
  <2>1. proc'[p].revision <= live'.revisions
    BY Numbers DEF Quiet, SamePlan
  <2>2. CASE Stays(p)
    BY <2>1, <2>2 DEF AttemptInv, AttemptOf, Stays, Keeps, SameEpoch, SamePlan, SameHost, Owns, OwnsRevision, At
  <2>3. CASE proc'[p].pc \notin {"check", "apply", "settle"}
    BY <2>1, <2>3 DEF AttemptOf, At
  <2> QED BY <2>2, <2>3 DEF Quiet
<1>4. quiesced' \/ (host' = host /\ quiesced' = quiesced)
  BY DEF SameHost
<1>5. AttemptInv'
  BY <1>3, <1>4, AttemptKept
<1>6. CommitInv'
  BY CommitKept DEF Quiet, SameHost, SamePlan
<1>7. PlanIsHosted' /\ GenerationsCurrent'
  BY Zenon, HostedKept
<1> QED BY <1>1, <1>2, <1>5, <1>6, <1>7 DEF Agreement

----------------------------------------------------------------------------
(* The steps that are not quiet keep the agreement                           *)

(* Only the last commit takes LiveState from another attempt.                *)
LEMMA TakesKeeps ==
    ASSUME TypesInv, Agreement, NEW p \in Procs, Takes(p)
    PROVE  Agreement'
<1> USE DEF At
<1> /\ OwnerInv /\ AttemptInv /\ CommitInv /\ PlanIsHosted /\ GenerationsCurrent
    /\ SameEpoch /\ SamePlan /\ SameHost /\ ReportsFewer /\ OthersStay(p) /\ Keeps(p)
    /\ live'.active = p /\ live'.correction = live.correction /\ live'.generations = live.generations
    /\ At(p, "begin") /\ proc'[p].pc = IF proc[p].revision = 0 THEN "stage" ELSE "check"
  BY DEF Agreement, Takes, Cancels, ReportsFewer
<1>1. OwnerInv'
  <2>1. live.loaded
    BY DEF OwnerInv
  <2>2. \A q \in Procs \ {p} : Attempting(q)' => proc'[q].cancelled
    BY DEF Takes, Cancels, OwnerInv, Attempting, OthersStay, Stays, Keeps
  <2> QED BY <2>1, <2>2, ProcIs DEF OwnerInv, Takes, SameEpoch, Attempting, OthersStay, Stays, Keeps, Quiescing
<1>2. PlanInv'
  BY PlanKept
<1>3. AttemptOf(p)'
  BY DEF AttemptInv, AttemptOf, SamePlan, Keeps
<1>4. AttemptInv'
  BY <1>3, AttemptKept DEF SameHost
<1>5. ASSUME NEW q \in Procs \ {p}, Preparing(q), live.active = q
      PROVE  live'.active = q
  BY <1>5, ProcIs DEF Takes, CommitInv, Preparing
<1>6. Preparing(p) => Preparing(p)'
  BY DEF Preparing, Keeps, SameEpoch
<1>7. CommitInv'
  BY <1>5, <1>6, CommitKept DEF SamePlan, SameHost, Keeps
<1>8. PlanIsHosted' /\ GenerationsCurrent'
  BY Zenon, HostedKept
<1> QED BY <1>1, <1>2, <1>4, <1>7, <1>8 DEF Agreement

(* An attempt that ends lets LiveState go.                                   *)
LEMMA FinishesKeeps ==
    ASSUME TypesInv, Agreement, NEW p \in Procs, Finishes(p)
    PROVE  Agreement'
<1> USE DEF At
<1> /\ OwnerInv /\ AttemptInv /\ CommitInv /\ PlanIsHosted /\ GenerationsCurrent
    /\ SameEpoch /\ SamePlan /\ SameHost /\ ReportsFewer /\ OthersStay(p) /\ Keeps(p)
    /\ live'.active = (IF live.active = p THEN Nobody ELSE live.active)
    /\ live'.correction = live.correction /\ live'.generations = live.generations
    /\ At(p, "finish") /\ proc'[p].pc = "report"
  BY DEF Agreement, Finishes, ReportsFewer, OnlyMoves, Continues
<1>1. OwnerInv'
  <2>1. live.loaded
    BY DEF OwnerInv
  <2>2. \A q \in Procs \ {p} : Stays(q) /\ proc'[q].cancelled = proc[q].cancelled
    BY DEF Finishes, OnlyMoves, OthersStay
  <2>3. /\ \A q \in Procs \ {p} : Attempting(q)' <=> Attempting(q)
        /\ ~Attempting(p)' /\ proc'[p].pc \notin Quiescing
    BY <2>2 DEF Attempting, Stays, Keeps, Quiescing
  <2> QED BY <2>1, <2>2, <2>3, ProcIs DEF OwnerInv, SameEpoch, Stays, Keeps
<1>2. PlanInv'
  BY PlanKept
<1>3. AttemptOf(p)'
  BY DEF AttemptInv, AttemptOf, SamePlan, Keeps
<1>4. AttemptInv'
  BY <1>3, AttemptKept DEF SameHost
<1>5. ~Preparing(p)
  BY DEF Preparing, Quiescing
<1>6. CommitInv'
  BY <1>5, CommitKept DEF SamePlan, SameHost, Keeps
<1>7. PlanIsHosted' /\ GenerationsCurrent'
  BY Zenon, HostedKept
<1> QED BY <1>1, <1>2, <1>4, <1>6, <1>7 DEF Agreement

(* The plan that is staged is the plan of the document.                      *)
LEMMA StagesKeeps ==
    ASSUME TypesInv, TypesInv', Agreement, NEW p \in Procs, StagesPlan(p)
    PROVE  Agreement'
<1> USE DEF At
<1> /\ OwnerInv /\ PlanInv /\ AttemptInv /\ CommitInv /\ PlanIsHosted /\ GenerationsCurrent
    /\ SameEpoch /\ SameHost /\ OthersStay(p) /\ Proceeds(p) /\ live'.active = live.active
    /\ Owns(p) /\ live'.doc = live.doc /\ live'.generations = live.generations
    /\ live'.revisions = live.revisions + 1 /\ live'.candidate.revision = live.revisions + 1
    /\ proc'[p].pc = "check" /\ proc'[p].revision = live.revisions + 1
  BY DEF Agreement, StagesPlan, Proceeds, OnlyMoves
<1>1. OwnerInv'
  BY Zenon, OwnerKept
<1>2. ASSUME NEW a \in Apps
      PROVE  /\ live'.readiness[a].phase = "ready" => /\ live.readiness[a].phase = "ready"
                                                      /\ live'.candidate.phase[a] = "ready"
             /\ live'.readiness[a].phase = "secret" => live'.readiness[a].retry
             /\ live'.candidate.phase[a] = "secret" => live'.readiness[a].retry
  <2>1. live'.candidate.phase[a] \in {"disabled", "secret", "ready"}
    BY DEF TypesInv, LiveState, Candidate
  <2>2. live'.readiness[a] = StagedStatus(p, a, live'.candidate.phase[a])
    BY ZenonT(30) DEF StagesPlan
  <2> QED BY <2>1, <2>2 DEF StagedStatus, Status, Pending, PlanInv
<1>3. PlanInv'
  <2>1. live'.correction <= live'.revisions
    BY Numbers DEF StagesPlan
  <2> QED BY <1>2, <2>1, Numbers DEF PlanInv, StagesPlan
<1>4. AttemptOf(p)'
  BY Numbers DEF AttemptOf
<1>5. ASSUME NEW q \in Procs \ {p}
      PROVE  AttemptOf(q)'
  <2>1. Stays(q) /\ AttemptOf(q) /\ ~Owns(q)' /\ proc[q].revision <= live.revisions
    BY ProcIs DEF OthersStay, AttemptInv, AttemptOf, Owns
  <2> QED BY <2>1, Numbers DEF AttemptOf, Stays, Keeps
<1>6. CommitInv'
  BY Numbers, CommitKept DEF StagesPlan
<1>7. PlanIsHosted' /\ GenerationsCurrent'
  BY <1>2 DEF PlanIsHosted, GenerationsCurrent, Hosted, SameEpoch, SameHost
<1> QED BY <1>1, <1>3, <1>4, <1>5, <1>6, <1>7 DEF Agreement, AttemptInv

(* What is to be applied is part of the plan.                                *)
LEMMA ChecksKeeps ==
    ASSUME TypesInv, Agreement, NEW p \in Procs, ChecksPlan(p)
    PROVE  Agreement'
<1> USE DEF At
<1> /\ OwnerInv /\ AttemptInv /\ CommitInv /\ PlanIsHosted /\ GenerationsCurrent
    /\ SameEpoch /\ SamePlan /\ SameHost /\ ReportsFewer /\ OthersStay(p) /\ Keeps(p) /\ Proceeds(p)
    /\ live' = live /\ At(p, "check") /\ OwnsRevision(p) /\ proc'[p].pc = "apply"
  BY DEF Agreement, ChecksPlan, SameEpoch, SamePlan, ReportsFewer, Proceeds, OnlyMoves, Continues
<1>1. OwnerInv'
  BY OwnerKept
<1>2. PlanInv'
  BY ZenonT(30), PlanKept
<1>3. AttemptOf(p)'
  BY DEF AttemptInv, AttemptOf, ChecksPlan, Keeps, Owns, OwnsRevision
<1>4. AttemptInv'
  BY <1>3, AttemptKept DEF SameHost
<1>5. ~Preparing(p)
  BY DEF Preparing, Quiescing
<1>6. CommitInv'
  BY <1>5, CommitKept DEF SameHost, Keeps
<1>7. PlanIsHosted' /\ GenerationsCurrent'
  BY HostedKept
<1> QED BY ZenonT(30), <1>1, <1>2, <1>4, <1>6, <1>7 DEF Agreement

(* An attempt that is cancelled no longer reaches the host. The others have  *)
(* the current plan: they stop apps or give them the generation of the plan. *)
LEMMA AppliesKeeps ==
    ASSUME TypesInv, Agreement, NEW p \in Procs, AppliesPlan(p)
    PROVE  Agreement'
<1> USE DEF At
<1> /\ OwnerInv /\ PlanInv /\ AttemptInv /\ CommitInv /\ PlanIsHosted /\ GenerationsCurrent
    /\ SameEpoch /\ SamePlan /\ ReportsFewer /\ OthersStay(p) /\ Keeps(p) /\ Proceeds(p)
    /\ live' = live /\ quiesced' = quiesced /\ At(p, "apply") /\ proc'[p].pc = "settle"
    /\ proc'[p].specs = proc[p].specs /\ (host' = host \/ ~proc[p].cancelled)
  BY DEF Agreement, AppliesPlan, SameEpoch, SamePlan, ReportsFewer, Proceeds, OnlyMoves, Continues
<1>1. OwnerInv'
  BY OwnerKept
<1>2. PlanInv'
  BY PlanKept
<1>3. ~live.closing /\ ~proc[p].cancelled => OwnsRevision(p) /\ proc[p].revision # 0
  BY ZenonT(30) DEF OwnerInv, Attempting, AttemptInv, AttemptOf, Owns
<1>4. AttemptOf(p)'
  BY DEF AttemptInv, AttemptOf, AppliesPlan, Keeps, Owns, OwnsRevision
<1>5. AttemptInv'
  BY <1>3, <1>4, AttemptKept DEF OwnsRevision
<1>6. ~Preparing(p)
  BY DEF Preparing, Quiescing
<1>7. CommitInv'
  BY <1>6, CommitKept DEF Keeps
<1>8. ASSUME ~live.closing, ~quiesced, NEW a \in Apps \ stopped', live.readiness[a].phase = "ready"
      PROVE  host'[a] = live.doc[a].generation
  <2>1. host[a] = live.doc[a].generation
    BY <1>8 DEF PlanIsHosted, AppliesPlan
  <2>2. host[a] # 0
    BY <2>1 DEF TypesInv, LiveState, Document
  <2>3. CASE ~proc[p].cancelled /\ host'[a] = proc[p].specs[a] /\ host'[a] # 0
    <3>1. host'[a] = live.candidate.specs[a] /\ live.candidate.revision # 0
      BY <1>3, <1>8, <2>3 DEF AttemptInv, AttemptOf, OwnsRevision
    <3> QED BY <1>8, <2>3, <3>1 DEF PlanInv
  <2> QED BY <2>1, <2>2, <2>3 DEF AppliesPlan
<1>9. PlanIsHosted'
  BY <1>8 DEF PlanIsHosted
<1>10. GenerationsCurrent'
  BY DEF GenerationsCurrent
<1> QED BY <1>1, <1>2, <1>5, <1>7, <1>9, <1>10 DEF Agreement

(* The plan that is accepted is the one that the host runs.                  *)
LEMMA AcceptsKeeps ==
    ASSUME TypesInv, Agreement, NEW p \in Procs, AcceptsPlan(p)
    PROVE  Agreement'
<1> USE DEF At
<1> /\ OwnerInv /\ PlanInv /\ AttemptInv /\ CommitInv
    /\ SameEpoch /\ SamePlan /\ OthersStay(p) /\ Keeps(p) /\ Proceeds(p)
    /\ live'.active = live.active /\ live'.correction = 0 /\ live'.generations = proc[p].specs
    /\ At(p, "settle") /\ OwnsRevision(p) /\ ~proc[p].err /\ proc'[p].pc = "final"
    /\ host' = host /\ quiesced' = (quiesced /\ host # proc[p].specs)
  BY DEF Agreement, AcceptsPlan, Proceeds, OnlyMoves, Continues
<1>1. OwnerInv'
  BY ZenonT(30), OwnerKept
<1>2. live.candidate.revision # 0 /\ \A a \in Apps : proc[p].specs[a] \in {0, live.candidate.specs[a]}
  BY DEF AttemptInv, AttemptOf, OwnsRevision
<1>3. ASSUME NEW a \in Apps
      PROVE  /\ live'.readiness[a].phase = "ready" => live.candidate.phase[a] = "ready" /\ proc[p].specs[a] # 0
             /\ live'.readiness[a].phase = "secret" => live'.readiness[a].retry
             /\ live.candidate.phase[a] = "secret" => live'.readiness[a].retry
  <2>1. live.candidate.phase[a] \in {"disabled", "secret", "ready"}
    BY DEF TypesInv, LiveState, Candidate
  <2>2. live'.readiness[a] = AcceptedStatus(live, proc[p].specs, a)
    BY ZenonT(30) DEF AcceptsPlan
  <2>3. /\ live.readiness[a].phase = "ready" => live.candidate.phase[a] = "ready"
        /\ live.readiness[a].phase = "secret" => live.readiness[a].retry
        /\ live.candidate.phase[a] = "secret" => live.readiness[a].retry
        /\ live.candidate.specs[a] # 0 => live.candidate.phase[a] = "ready"
    BY ZenonT(30), <1>2 DEF PlanInv
  <2> QED BY <1>2, <2>1, <2>2, <2>3 DEF AcceptedStatus, Status, Pending
<1>4. PlanInv'
  BY <1>3, Numbers DEF PlanInv, SamePlan
<1>5. AttemptOf(p)'
  BY DEF AttemptInv, AttemptOf, Keeps, SamePlan
<1>6. AttemptInv'
  BY <1>5, AttemptKept DEF OwnsRevision
<1>7. CommitInv'
  BY ZenonT(30), <1>2, CommitKept DEF Keeps, SamePlan
<1>8. ~quiesced' => host = proc[p].specs
  BY DEF AttemptInv, AttemptOf, OwnsRevision, TypesInv
<1>9. ASSUME NEW a \in Apps, proc[p].specs[a] # 0
      PROVE  /\ proc[p].specs[a] = live.doc[a].generation
             /\ live.doc[a] = [generation |-> proc[p].specs[a], enabled |-> TRUE]
  <2>1. proc[p].specs[a] = live.doc[a].generation /\ live.doc[a].enabled
    BY <1>2, <1>9 DEF PlanInv
  <2>2. live.doc[a] \in [generation : 1 .. MaxCommits, enabled : BOOLEAN]
    BY DEF TypesInv, LiveState, Document
  <2> QED BY Zenon, <2>1, <2>2
<1>10. PlanIsHosted'
  BY ZenonT(30), <1>3, <1>8, <1>9 DEF PlanIsHosted, SamePlan
<1>11. GenerationsCurrent'
  BY <1>9 DEF GenerationsCurrent, Hosted, SamePlan
<1> QED BY ZenonT(30), <1>1, <1>4, <1>6, <1>7, <1>10, <1>11 DEF Agreement

(* The steps of an attempt keep the agreement and are outside of asset I/O.  *)
LEMMA AttemptsKeep ==
    ASSUME TypesInv, TypesInv', Agreement, NEW p \in Procs, Attempts(p)
    PROVE  /\ Agreement'
           /\ Apart(p) /\ OthersStay(p) /\ live'.doc = live.doc /\ live'.epoch = live.epoch
<1>1. Agreement'
  BY ZenonT(30), TakesKeeps, StagesKeeps, ChecksKeeps, AppliesKeeps, AcceptsKeeps, FinishesKeeps DEF Attempts
<1>2. CASE Takes(p)
  BY <1>1, <1>2 DEF Takes, Cancels, SameEpoch, SamePlan, Apart, At, Quiescing
<1>3. CASE StagesPlan(p) \/ AcceptsPlan(p)
  BY Zenon, <1>1, <1>3 DEF StagesPlan, AcceptsPlan, SameEpoch, SamePlan, Proceeds, OnlyMoves
<1>4. CASE ChecksPlan(p) \/ AppliesPlan(p)
  BY Zenon, <1>1, <1>4 DEF ChecksPlan, AppliesPlan, Proceeds, OnlyMoves
<1>5. CASE Finishes(p)
  BY Zenon, <1>1, <1>5 DEF Finishes, SameEpoch, SamePlan, OnlyMoves
<1> QED BY Zenon, <1>2, <1>3, <1>4, <1>5 DEF Attempts

(* A commit drops the plan, cancels the attempt and prepares its own. What   *)
(* it leaves reported ready, or accepted, it has not changed.                *)
LEMMA CommitsKeeps ==
    ASSUME TypesInv, TypesInv', Agreement, NEW p \in Procs, Commits(p)
    PROVE  Agreement'
<1> USE DEF At
<1> /\ OwnerInv /\ PlanInv /\ AttemptInv /\ CommitInv /\ PlanIsHosted /\ GenerationsCurrent
    /\ SameHost /\ Cancels(p) /\ OthersStay(p) /\ At(p, "idle") /\ p \in Clients
  BY Zenon DEF Agreement, Commits, Cancels
<1> /\ live'.loaded /\ live'.closing = live.closing /\ live'.epoch = live.epoch + 1
    /\ live'.candidate.revision = 0 /\ live'.revisions = live.revisions /\ live'.correction = 0
    /\ live'.active = live.active
    /\ proc'[p].pc \in {"quiesce", "lock", "begin"} /\ proc'[p].epoch = live.epoch + 1
    /\ proc'[p].revision = 0 /\ proc'[p].after = "begin" /\ proc'[p].replace
  BY Zenon DEF Commits, AcceptsDocument
<1>1. \A q \in Procs \ {p} : proc'[q].epoch = proc[q].epoch /\ proc[q].epoch < live'.epoch
  BY Numbers DEF OthersStay, Stays, Keeps
<1>2. OwnerInv'
  <2>1. live.active # p /\ ~Attempting(p)' /\ (proc'[p].pc \in Quiescing => proc'[p].after # "finish")
    BY ZenonT(30) DEF OwnerInv, Attempting
  <2>2. \A q \in Procs \ {p} : /\ Attempting(q)' <=> Attempting(q)
                               /\ Attempting(q)' => proc'[q].cancelled
                               /\ proc'[q].pc \in Quiescing => proc'[q].after # "finish"
    BY DEF Cancels, OwnerInv, Attempting, OthersStay, Stays, Keeps
  <2>3. \A q \in Procs : proc'[q].epoch <= live'.epoch
    BY <1>1, Numbers
  <2> QED BY <2>1, <2>2, <2>3 DEF OwnerInv
<1>3. PlanInv'
  <2>1. ASSUME NEW a \in Apps
        PROVE  /\ live'.doc[a].generation <= live'.version
               /\ live'.readiness[a].phase = "secret" => live'.readiness[a].retry
    <3>1. live.doc[a].generation \in Nat /\ live.doc[a].generation <= live.version /\ live'.version \in Nat
      BY ReconcilerAssumption, Generations DEF TypesInv, LiveState
    <3>2. live'.doc[a].generation \in {live.doc[a].generation, live'.version} /\ live'.version >= live.version
      BY Zenon DEF Commits, AcceptsDocument
    <3>3. live'.readiness[a] = live.readiness[a] \/ live'.readiness[a].phase \in {"reconcile", "disabled"}
      BY ZenonT(30) DEF Commits, AcceptsDocument
    <3>4. live'.doc[a].generation <= live'.version
      BY <3>1, <3>2, Numbers
    <3> QED BY Zenon, <3>3, <3>4 DEF PlanInv
  <2> QED BY <2>1, Numbers DEF PlanInv
<1>4. ASSUME NEW q \in Procs
      PROVE  AttemptOf(q)'
  <2>1. CASE q = p
    <3>1. proc'[q].revision <= live'.revisions
      BY <2>1, Numbers
    <3> QED BY Zenon, <2>1, <3>1 DEF AttemptOf
  <2>2. CASE q # p
    <3>1. Stays(q) /\ AttemptOf(q) /\ ~Owns(q)'
      BY <1>1, <2>2, Numbers DEF OthersStay, AttemptInv, Owns
    <3> QED BY <3>1 DEF AttemptOf, Stays, Keeps
  <2> QED BY <2>1, <2>2
<1>5. CommitInv'
  <2>1. Preparing(p)'
    BY DEF Preparing, Quiescing
  <2>2. \A q \in Procs : proc'[q].epoch = live'.epoch => q = p
    BY <1>1, Numbers
  <2>3. \A q \in Procs : proc'[q].replace => q \in Clients
    BY ZenonT(30) DEF CommitInv, OthersStay, Stays, Keeps
  <2> QED BY <2>1, <2>2, <2>3 DEF CommitInv
<1>6. PlanIsHosted'
  <2>1. ASSUME NEW a \in Apps, live'.readiness[a].phase = "ready"
        PROVE  live.readiness[a].phase = "ready" /\ live'.doc[a].generation = live.doc[a].generation
    BY Zenon, <2>1 DEF Commits, AcceptsDocument
  <2> QED BY <2>1 DEF PlanIsHosted, SameHost
<1>7. GenerationsCurrent'
  BY Zenon DEF GenerationsCurrent, Hosted, Commits, AcceptsDocument
<1> QED BY <1>2, <1>3, <1>4, <1>5, <1>6, <1>7 DEF Agreement, AttemptInv

(* The steps that rest change nothing but what closing no longer needs.      *)
LEMMA RestKeeps ==
    ASSUME TypesInv, Agreement, Rests
    PROVE  Agreement'
<1> USE DEF At
<1> /\ OwnerInv /\ PlanInv /\ AttemptInv /\ CommitInv /\ PlanIsHosted /\ GenerationsCurrent
    /\ SamePlan /\ live'.readiness = live.readiness /\ live'.generations = live.generations
    /\ live'.correction = live.correction /\ live'.active = live.active /\ live'.loaded = live.loaded
    /\ UNCHANGED <<stopped, quiesced>>
    /\ \/ live'.closing /\ live'.epoch \in {live.epoch, live.epoch + 1}
       \/ SameEpoch /\ host' = host
    /\ \A q \in Procs : Stays(q)
  BY DEF Agreement, Rests
<1>1. OwnerInv'
  <2>1. \A q \in Procs : /\ Attempting(q)' <=> Attempting(q)
                         /\ proc[q].cancelled => proc'[q].cancelled
                         /\ proc'[q].pc = proc[q].pc /\ proc'[q].after = proc[q].after
                         /\ proc'[q].epoch = proc[q].epoch
    BY DEF Rests, Attempting, Stays, Keeps
  <2>2. \A q \in Procs : proc[q].epoch <= live'.epoch
    BY Numbers DEF SameEpoch
  <2> QED BY <2>1, <2>2 DEF OwnerInv, SameEpoch
<1>2. PlanInv'
  <2>1. ReportsFewer
    BY ZenonT(30) DEF ReportsFewer, Rests
  <2> QED BY Zenon, <2>1, ProcIs, PlanKept
<1>3. ASSUME NEW q \in Procs
      PROVE  AttemptOf(q)'
  <2>1. Stays(q) /\ AttemptOf(q) /\ (Owns(q)' => Owns(q) /\ host' = host)
    BY DEF AttemptInv, Owns, SameEpoch, Stays, Keeps
  <2> QED BY <2>1 DEF AttemptOf, Stays, Keeps, SamePlan, Owns, OwnsRevision
<1>4. CommitInv'
  <2>1. \A q \in Procs : /\ proc'[q].replace = proc[q].replace
                         /\ proc'[q].epoch = live'.epoch => proc[q].epoch = live.epoch
    BY Numbers DEF Stays, Keeps, SameEpoch
  <2>2. \A q \in Clients : SameEpoch /\ Preparing(q) => Preparing(q)'
    BY ProcIs DEF Preparing, Stays, Keeps, SameEpoch
  <2> QED BY <2>1, <2>2 DEF CommitInv, SamePlan, SameEpoch
<1>5. PlanIsHosted'
  BY DEF PlanIsHosted, SamePlan, SameEpoch
<1>6. GenerationsCurrent'
  BY DEF GenerationsCurrent, Hosted, SamePlan
<1> QED BY <1>1, <1>2, <1>3, <1>4, <1>5, <1>6 DEF Agreement, AttemptInv

----------------------------------------------------------------------------
(* Asset I/O                                                                 *)

(* A process whose record stays, under the same document, is in order if the *)
(* others that wait for assetMu still wait.                                  *)
LEMMA AssetStays ==
    ASSUME AssetInv, NEW q \in Procs, Stays(q), assetMu' = assetMu, Enabled(live)' = Enabled(live),
           proc[q].epoch = live'.epoch => proc[q].epoch = live.epoch,
           \A r \in Procs : At(r, "lock") /\ proc[r].after = "begin" => At(r, "lock")' /\ proc'[r].after = "begin"
    PROVE  AssetOf(q)'
<1>1. At(q, "upload")' /\ proc'[q].drops =>
          \A a \in Enabled(live)' \ proc'[q].enabled :
             \E r \in Procs : At(r, "lock")' /\ proc'[r].after = "begin"
  BY Zenon DEF AssetInv, AssetOf, Stays, Keeps, At
<1> QED BY <1>1 DEF AssetInv, AssetOf, Stays, Keeps, At

(* A step outside of asset I/O that leaves the document                      *)
LEMMA AssetKept ==
    ASSUME AssetInv, NEW p \in Procs, Apart(p), OthersStay(p),
           live'.doc = live.doc, live'.epoch = live.epoch
    PROVE  AssetInv'
<1> USE DEF At
<1>1. Enabled(live)' = Enabled(live) /\ assetMu' = assetMu
  BY ZenonT(30) DEF Enabled, Apart, SameAssets
<1>2. \A r \in Procs : At(r, "lock") /\ proc[r].after = "begin" => At(r, "lock")' /\ proc'[r].after = "begin"
  BY DEF Apart, OthersStay, Stays, Keeps
<1>3. ASSUME NEW q \in Procs, Stays(q)
      PROVE  AssetOf(q)'
  BY Zenon, <1>1, <1>2, <1>3, AssetStays
<1>4. CASE ~Stays(p)
  <2>1. /\ proc[p].pc \notin {"lock", "upload"} /\ ~At(p, "upload")'
        /\ proc'[p].pc \in Quiescing \cup {"lock"} /\ proc'[p].after # "begin" =>
                \/ proc[p].pc \in Quiescing /\ Keeps(p)
                \/ proc'[p].enabled = Enabled(live)
    BY <1>4 DEF Apart
  <2>2. AssetOf(p)'
    BY <1>1, <2>1 DEF AssetInv, AssetOf, Keeps
  <2> QED BY <1>3, <2>2 DEF AssetInv, OthersStay
<1> QED BY <1>3, <1>4 DEF AssetInv, OthersStay

(* A commit that enables an app waits for assetMu.                           *)
LEMMA CommitAssets ==
    ASSUME TypesInv, Agreement, AssetInv, NEW p \in Procs, Commits(p)
    PROVE  AssetInv'
<1> USE DEF At
<1>1. /\ OthersStay(p) /\ At(p, "idle") /\ proc'[p].pc \in {"quiesce", "lock", "begin"}
      /\ proc'[p].after = "begin" /\ live'.epoch = live.epoch + 1 /\ assetMu' = assetMu
      /\ proc'[p].pc = "lock" \/ \A b \in Apps : live'.doc[b].enabled => live.doc[b].enabled
  BY DEF Commits, AcceptsDocument, Cancels
<1>2. AssetOf(p)'
  BY ZenonT(30), <1>1 DEF AssetInv, AssetOf
<1>3. ASSUME NEW q \in Procs \ {p}
      PROVE  AssetOf(q)'
  <2>1. Stays(q) /\ AssetOf(q) /\ proc'[q].epoch # live'.epoch
    <3>1. Stays(q) /\ AssetOf(q) /\ proc'[q].epoch = proc[q].epoch
      BY Zenon, <1>1 DEF AssetInv, OthersStay, Stays, Keeps
    <3> QED BY <1>1, <3>1, Numbers
  <2>2. ASSUME proc'[q].pc = "upload", proc'[q].drops, NEW b \in Enabled(live)' \ proc'[q].enabled
        PROVE  \E r \in Procs : proc'[r].pc = "lock" /\ proc'[r].after = "begin"
    <3>1. CASE proc'[p].pc = "lock"
      BY <1>1, <3>1
    <3>2. CASE b \in Enabled(live)
      <4>1. PICK r \in Procs : proc[r].pc = "lock" /\ proc[r].after = "begin"
        BY <2>1, <2>2, <3>2 DEF AssetOf, Stays, Keeps
      <4> QED BY <1>1, <4>1 DEF OthersStay, Stays, Keeps
    <3> QED BY <1>1, <2>2, <3>1, <3>2 DEF Enabled
  <2> QED BY ZenonT(30), <1>1, <2>1, <2>2 DEF AssetOf, Stays, Keeps
<1> QED BY ZenonT(30), <1>2, <1>3 DEF AssetInv

(* The steps that rest leave the document.                                   *)
LEMMA RestAssets ==
    ASSUME TypesInv, Agreement, AssetInv, Rests
    PROVE  AssetInv'
<1> SUFFICES ASSUME NEW q \in Procs
             PROVE  AssetOf(q)'
  BY DEF AssetInv
<1>1. Enabled(live)' = Enabled(live) /\ assetMu' = assetMu /\ \A r \in Procs : Stays(r)
  BY DEF Rests, SamePlan, Enabled
<1>2. proc[q].epoch = live'.epoch => proc[q].epoch = live.epoch
  BY Numbers DEF Rests, SameEpoch
<1>3. \A r \in Procs : At(r, "lock") /\ proc[r].after = "begin" => At(r, "lock")' /\ proc'[r].after = "begin"
  BY <1>1 DEF Stays, Keeps, At
<1> QED BY Zenon, <1>1, <1>2, <1>3, AssetStays

----------------------------------------------------------------------------
(* The invariant says what is to be shown                                    *)

(* The invariant says that plan, host and reports agree.                     *)
LEMMA IInvAgrees == IInv => PlanAgrees
<1> SUFFICES ASSUME TypesInv, Agreement, AssetInv, PlanInv, CommitInv, PlanIsHosted, GenerationsCurrent
             PROVE  PlanAgrees
  BY DEF IInv, Agreement
<1>1. TypeOK
  <2>1. /\ live.specs \in [Apps -> Generation] /\ live.generations \in [Apps -> Generation]
        /\ live.candidate.specs \in [Apps -> Generation] /\ live.active \in Procs \cup {Nobody}
        /\ live.readiness \in [Apps -> [phase : Phases, retry : BOOLEAN, failed : BOOLEAN]]
    BY DEF TypesInv, LiveState, Candidate, Readiness
  <2>2. live.doc \in [Apps -> [generation : Generation, enabled : BOOLEAN]]
    BY ReconcilerAssumption DEF TypesInv, LiveState, Document, Generation
  <2>3. live.correction \in 0 .. live.revisions
    BY Numbers
  <2>4. \A p \in Procs : At(p, "upload") <=> assetMu = p
    BY DEF AssetInv, AssetOf
  <2> QED BY <2>1, <2>2, <2>3, <2>4 DEF TypesInv, TypeOK
<1>2. EnabledPlanned
  <2> SUFFICES ASSUME AtRest, ~quiesced, NEW a \in Enabled(live)
               PROVE  RetryOwned \/ live.candidate.specs[a] = live.doc[a].generation
    BY DEF EnabledPlanned
  <2>1. live.candidate.revision # 0
    <3>1. \A p \in Clients : ~Preparing(p)
      BY ProcIs DEF AtRest, Preparing, At, Quiescing
    <3> QED BY <3>1 DEF CommitInv, AtRest
  <2>2. a \in Apps /\ live.doc[a].enabled
    BY DEF Enabled
  <2>3. live.candidate.phase[a] \in {"disabled", "secret", "ready"}
    BY ZenonT(30), <2>2 DEF TypesInv, LiveState, Candidate
  <2> QED BY <2>1, <2>2, <2>3 DEF PlanInv, RetryOwned
<1> QED BY <1>1, <1>2 DEF PlanAgrees

----------------------------------------------------------------------------
(* How processes move                                                        *)

(* What a process, LiveState and the host start from has its type.          *)
LEMMA StartTyped == Nothing \in [Apps -> Generation] /\ Idle \in Process /\ NoCandidate \in Candidate
<1>1. Nothing \in [Apps -> Generation]
  BY ReconcilerAssumption DEF Nothing, Generation
<1> QED BY Zenon, <1>1 DEF Idle, Process, Pcs, NoCandidate, Candidate

(* The operation of the process is over.                                    *)
Ended(p) ==
    /\ proc'[p].pc \in {"idle", "arm"} /\ proc'[p].epoch = 0 /\ ~proc'[p].replace
    /\ proc'[p].revision = 0 /\ proc'[p].after = "begin"

(* A process gets a new record, the others keep theirs.                     *)
LEMMA OneProcess ==
    ASSUME proc \in [Procs -> Process], NEW p \in Procs, NEW r \in Process,
           proc' = [proc EXCEPT ![p] = r]
    PROVE  proc' \in [Procs -> Process] /\ proc'[p] = r /\ OnlyMoves(p)
BY DEF OnlyMoves, OthersStay, Stays, Keeps

(* Goto and Fail move the process on with its parameters.                   *)
LEMMA MovesOn ==
    ASSUME proc \in [Procs -> Process], NEW p \in Procs, NEW pc \in Pcs, Goto(p, pc) \/ Fail(p, pc)
    PROVE  /\ proc' \in [Procs -> Process] /\ OnlyMoves(p) /\ Continues(p)
           /\ proc'[p].pc = pc /\ proc'[p].specs = proc[p].specs /\ proc'[p].drops = proc[p].drops
           /\ proc[p].err \/ Fail(p, pc) => proc'[p].err
<1> DEFINE r == [proc[p] EXCEPT !.pc = pc]
           s == [proc[p] EXCEPT !.pc = pc, !.err = TRUE]
<1> proc[p] \in Process
  OBVIOUS
<1>1. r \in Process /\ s \in Process
  BY Zenon DEF Process
<1>2. CASE Goto(p, pc) /\ ~Fail(p, pc)
  <2>1. proc' = [proc EXCEPT ![p] = r]
    BY Zenon, <1>2 DEF Goto
  <2>2. proc' \in [Procs -> Process] /\ proc'[p] = r /\ OnlyMoves(p)
    BY Zenon, <1>1, <2>1, OneProcess
  <2> QED BY <1>2, <2>2 DEF Continues, Keeps, Process
<1>3. CASE Fail(p, pc)
  <2>1. proc' = [proc EXCEPT ![p] = s]
    BY Zenon, <1>3 DEF Fail
  <2>2. proc' \in [Procs -> Process] /\ proc'[p] = s /\ OnlyMoves(p)
    BY Zenon, <1>1, <2>1, OneProcess
  <2> QED BY <2>2 DEF Continues, Keeps, Process
<1> QED BY <1>2, <1>3

(* Abandon ends the operation.                                              *)
LEMMA AbandonEnds ==
    ASSUME proc \in [Procs -> Process], NEW p \in Procs, Abandon(p)
    PROVE  proc' \in [Procs -> Process] /\ OnlyMoves(p) /\ Ended(p)
<1> DEFINE r == IF p = "assets" THEN [Idle EXCEPT !.pc = "arm"] ELSE Idle
<1>1. [Idle EXCEPT !.pc = "arm"] \in Process
  BY Zenon, StartTyped DEF Process, Pcs
<1>2. proc' \in [Procs -> Process] /\ proc'[p] = r /\ OnlyMoves(p)
  BY Zenon, <1>1, StartTyped, OneProcess DEF Abandon
<1> QED BY <1>2 DEF Ended, Idle

(* An unchanged LiveState has all its parts unchanged.                       *)
LEMMA UnchangedLive ==
    ASSUME live' = live
    PROVE  live'.generations = live.generations /\ \A p \in Procs : OnlyReports(p)
BY DEF OnlyReports, SameEpoch, SamePlan, ReportsFewer

(* The moves of an operation that are quiet                                  *)
MovesQuietly(p) ==
    \/ proc[p].pc \in Quiescing /\ proc'[p].pc \in {"quiesce_apply", "quiesce_settle", "lock"}
    \/ At(p, "lock") /\ proc'[p].pc \in {"upload", proc[p].after}
    \/ At(p, "upload") /\ proc'[p].pc = proc[p].after
    \/ proc[p].pc \in {"check", "settle", "final"} /\ proc'[p].pc = "finish"
    \/ At(p, "stage") /\ proc'[p].pc = "finish" /\ ~Owns(p)
    \/ /\ At(p, "begin") /\ proc'[p].pc = "report"
       /\ live.closing \/ live.epoch # proc[p].epoch \/ ~proc[p].replace

(* An operation that moves on in one of these ways is quiet.                *)
LEMMA QuietMove ==
    ASSUME TypesInv, OwnerInv, NEW p \in Procs, OnlyReports(p), OnlyMoves(p), Continues(p),
           quiesced' \/ (SameHost /\ live'.generations = live.generations), MovesQuietly(p)
    PROVE  /\ Quiet(p)
           /\ SameAssets /\ proc[p].pc \notin {"lock", "upload"} => Apart(p)
<1> USE DEF At, Quiescing
<1> proc[p].after \in {"begin", "finish", "reapply"} /\ (live.loaded \/ At(p, "idle"))
    /\ (proc[p].pc \in Quiescing => proc[p].after # "finish")
  BY ZenonT(30) DEF TypesInv, Process, OwnerInv
<1>1. Proceeds(p)
  BY ZenonT(30) DEF MovesQuietly, Proceeds, Continues, Keeps, Attempting
<1>2. ~live.closing /\ Preparing(p) => Preparing(p)'
  BY ZenonT(30) DEF MovesQuietly, Preparing, Continues, Keeps, Owns, OnlyReports, SameEpoch
<1>3. Quiet(p)
  BY ZenonT(30), <1>1, <1>2 DEF Quiet, MovesQuietly, Continues, Keeps
<1> QED BY ZenonT(30), <1>3 DEF Apart, MovesQuietly, Continues

(* An operation that ends outside of an attempt is quiet.                    *)
LEMMA QuietEnd ==
    ASSUME TypesInv, OwnerInv, NEW p \in Procs, OnlyReports(p), OnlyMoves(p), Ended(p), SameAssets,
           proc[p].pc \in Quiescing \cup {"report", "arm", "reapply"},
           \/ quiesced'
           \/ /\ SameHost /\ live'.generations = live.generations
              /\ proc[p].pc \in Quiescing => live.closing \/ live.epoch # proc[p].epoch
    PROVE  Quiet(p) /\ Apart(p)
<1> USE DEF At, Quiescing
<1> (live.loaded \/ At(p, "idle")) /\ (proc[p].pc \in Quiescing => proc[p].after # "finish")
  BY ZenonT(30) DEF OwnerInv
<1>1. Proceeds(p)
  BY ZenonT(30) DEF Proceeds, Ended, Attempting
<1>2. Quiet(p)
  BY <1>1 DEF Quiet, Ended, Preparing
<1> QED BY ZenonT(30), <1>2 DEF Apart, Ended

----------------------------------------------------------------------------
(* Failures are noted in the reports and the correction alone                *)

Noted(p) == live' \in LiveState /\ OnlyReports(p) /\ live'.generations = live.generations

(* Noting that the plan has to be corrected                                  *)
LEMMA CorrectionNoted ==
    ASSUME live \in LiveState, NEW p \in Procs, NEW c \in Nat,
           c \in {live.candidate.revision, proc[p].revision}, live' = [live EXCEPT !.correction = c]
    PROVE  Noted(p)
<1>1. live' \in LiveState
  BY Zenon DEF LiveState
<1> QED BY <1>1 DEF Noted, OnlyReports, SameEpoch, SamePlan, ReportsFewer, LiveState

(* Reporting that apps wait                                                  *)
LEMMA ReadinessNoted ==
    ASSUME live \in LiveState, NEW p \in Procs, NEW r \in Readiness, live' = [live EXCEPT !.readiness = r],
           \A a \in Apps : \/ r[a] = live.readiness[a]
                           \/ r[a].phase = "reconcile" /\ (live.readiness[a].retry => r[a].retry)
    PROVE  Noted(p)
<1>1. live' \in LiveState
  BY Zenon DEF LiveState
<1>2. /\ SameEpoch /\ SamePlan /\ live'.active = live.active /\ live'.correction = live.correction
      /\ live'.generations = live.generations /\ live'.readiness = r
  BY DEF SameEpoch, SamePlan, LiveState
<1> QED BY <1>1, <1>2 DEF Noted, OnlyReports, ReportsFewer

(* What a superseded or a failed attempt and a client that left leave behind *)
LEMMA FailureNoted ==
    ASSUME TypesInv, NEW p \in Procs,
           \/ live' = live \/ live' = Superseded(live)
           \/ live' = ApplyFailed(live, proc[p].revision) \/ live' = TakenOver(live)
    PROVE  Noted(p)
<1> DEFINE pending == [a \in Apps |->
                   IF live.readiness[a].phase = "reconcile" THEN Status("reconcile", TRUE, TRUE)
                   ELSE live.readiness[a]]
           retried == [a \in Apps |->
                   IF live.doc[a].enabled /\ ~live.readiness[a].retry
                   THEN Status("reconcile", TRUE, TRUE) ELSE live.readiness[a]]
           c == live.candidate.revision
<1> /\ live \in LiveState /\ live.readiness \in Readiness /\ c \in Nat /\ proc[p].revision \in Nat
  BY ZenonT(30) DEF TypesInv, LiveState, Candidate, Process
<1>1. CASE live' = live
  BY <1>1, UnchangedLive DEF Noted
<1>2. CASE live' = [live EXCEPT !.correction = c]
  BY Zenon, <1>2, CorrectionNoted
<1>3. CASE live' = [live EXCEPT !.correction = proc[p].revision]
  BY Zenon, <1>3, CorrectionNoted
<1>4. CASE live' = [live EXCEPT !.readiness = pending]
  <2>1. /\ pending \in Readiness
        /\ \A a \in Apps : \/ pending[a] = live.readiness[a]
                           \/ pending[a].phase = "reconcile" /\ (live.readiness[a].retry => pending[a].retry)
    BY ZenonT(30) DEF Readiness, Status, Phases
  <2> HIDE DEF pending
  <2> QED BY Zenon, <1>4, <2>1, ReadinessNoted
<1>5. CASE live' = [live EXCEPT !.readiness = retried]
  <2>1. /\ retried \in Readiness
        /\ \A a \in Apps : \/ retried[a] = live.readiness[a]
                           \/ retried[a].phase = "reconcile" /\ (live.readiness[a].retry => retried[a].retry)
    BY DEF Readiness, Status, Phases
  <2> HIDE DEF retried
  <2> QED BY Zenon, <1>5, <2>1, ReadinessNoted
<1> QED BY Zenon, <1>1, <1>2, <1>3, <1>4, <1>5 DEF Superseded, ApplyFailed, TakenOver

----------------------------------------------------------------------------
(* The operations that are quiet                                             *)

(* What the host runs after it was told to apply a plan is a plan again.     *)
LEMMA AppliedTyped ==
    ASSUME TypesInv, NEW p \in Procs, NEW ok \in BOOLEAN, ApplyPlugins(p, ok)
    PROVE  host' \in [Apps -> Generation]
<1>1. proc[p].specs \in [Apps -> Generation]
  BY DEF TypesInv, Process
<1>2. CASE host' \in PartlyApplied(proc[p].specs)
  <2>1. host' \in [Apps -> {host[a] : a \in Apps} \cup {proc[p].specs[a] : a \in Apps}]
    BY ZenonT(30), <1>2 DEF PartlyApplied
  <2> QED BY <1>1, <2>1 DEF TypesInv
<1> QED BY <1>1, <1>2 DEF ApplyPlugins, TypesInv

(* Reading what to quiesce is quiet.                                         *)
LEMMA QuiesceReadStep ==
    ASSUME TypesInv, OwnerInv, NEW p \in Procs, QuiesceRead(p)
    PROVE  Passes(p)
<1> DEFINE blocked == (Enabled(live) \cap AssetApps) \ assets
           specs == Without(live.specs, blocked)
           r == [proc[p] EXCEPT !.pc = "quiesce_apply", !.blocked = blocked, !.specs = specs]
<1> live' = live /\ SameHost /\ SameAssets /\ At(p, "quiesce")
  BY DEF QuiesceRead, SameHost, SameAssets
<1>1. /\ proc' \in [Procs -> Process] /\ OnlyMoves(p) /\ Continues(p)
      /\ proc'[p].pc \in {"quiesce_apply", "lock"}
  <2>1. CASE Goto(p, "lock")
    BY Zenon, <2>1, MovesOn DEF TypesInv, Pcs
  <2>2. CASE proc' = [proc EXCEPT ![p] = r]
    <3>1. proc[p] \in Process /\ blocked \in SUBSET Apps /\ specs \in [Apps -> Generation]
      BY ReconcilerAssumption DEF TypesInv, LiveState, Without, Generation, Enabled
    <3> HIDE DEF blocked, specs
    <3>2. r \in Process
      BY Zenon, <3>1 DEF Process, Pcs
    <3>3. proc' \in [Procs -> Process] /\ proc'[p] = r /\ OnlyMoves(p)
      BY Zenon, <2>2, <3>2, OneProcess DEF TypesInv
    <3> QED BY <3>1, <3>3 DEF Continues, Keeps, Process
  <2> QED BY Zenon, <2>1, <2>2 DEF QuiesceRead, Goto
<1>2. TypesInv'
  BY ZenonT(30), <1>1 DEF TypesInv, SameHost, SameAssets
<1>3. MovesQuietly(p)
  BY <1>1 DEF MovesQuietly, Quiescing, At
<1> QED BY <1>1, <1>2, <1>3, QuietMove, UnchangedLive DEF Passes, At

(* The host is told to quiesce: from then on quiesced says so.               *)
LEMMA QuiesceApplyStep ==
    ASSUME TypesInv, OwnerInv, NEW p \in Procs, QuiesceApply(p)
    PROVE  Passes(p)
<1> live' = live /\ SameAssets /\ At(p, "quiesce_apply") /\ quiesced' = TRUE /\ stopped' = stopped
  BY DEF QuiesceApply, SameAssets
<1>1. host' \in [Apps -> Generation]
  BY ZenonT(30), AppliedTyped DEF QuiesceApply
<1>2. CASE Goto(p, "quiesce_settle")
  <2>1. /\ proc' \in [Procs -> Process] /\ OnlyMoves(p) /\ Continues(p)
        /\ proc'[p].pc = "quiesce_settle"
    BY ZenonT(30), <1>2, MovesOn DEF TypesInv, Pcs
  <2>2. TypesInv' /\ MovesQuietly(p)
    BY ZenonT(30), <1>1, <2>1 DEF TypesInv, SameAssets, MovesQuietly, Quiescing, At
  <2> QED BY <2>1, <2>2, QuietMove, UnchangedLive DEF Passes, At
<1>3. CASE Abandon(p)
  <2>1. proc' \in [Procs -> Process] /\ OnlyMoves(p) /\ Ended(p)
    BY Zenon, <1>3, AbandonEnds DEF TypesInv
  <2>2. TypesInv'
    BY <1>1, <2>1 DEF TypesInv, SameAssets
  <2> QED BY <2>1, <2>2, QuietEnd, UnchangedLive DEF Passes, At, Quiescing
<1> QED BY Zenon, <1>2, <1>3 DEF QuiesceApply

(* What was quiesced is reported to wait, unless the document is a new one.  *)
LEMMA QuiesceSettleStep ==
    ASSUME TypesInv, OwnerInv, NEW p \in Procs, QuiesceSettle(p)
    PROVE  Passes(p)
<1> DEFINE readiness == [a \in Apps |-> IF a \in proc[p].blocked
                 THEN [live.readiness[a] EXCEPT !.phase = "reconcile"] ELSE live.readiness[a]]
           specs == proc[p].specs
<1> SameAssets /\ At(p, "quiesce_settle") /\ UNCHANGED <<host, stopped>>
  BY DEF QuiesceSettle, SameAssets
<1>1. /\ live' \in LiveState /\ OnlyReports(p)
      /\ \/ quiesced' = TRUE
         \/ /\ SameHost /\ live'.generations = live.generations /\ Abandon(p)
            /\ live.closing \/ live.epoch # proc[p].epoch
  <2>1. CASE (live.closing \/ live.epoch # proc[p].epoch) /\ Abandon(p) /\ UNCHANGED <<live, quiesced>>
    BY <2>1, UnchangedLive DEF TypesInv, SameHost
  <2>2. CASE /\ quiesced' = TRUE
             /\ live' = [live EXCEPT !.specs = specs, !.generations = specs, !.readiness = readiness]
    <3>1. live \in LiveState /\ specs \in [Apps -> Generation] /\ live.readiness \in Readiness
      BY DEF TypesInv, Process, LiveState
    <3>2. readiness \in Readiness
      BY <3>1 DEF Readiness, Phases
    <3>3. \A a \in Apps : \/ readiness[a] = live.readiness[a]
                          \/ /\ readiness[a].phase = "reconcile"
                             /\ live.readiness[a].retry => readiness[a].retry
      BY <3>1 DEF Readiness
    <3> HIDE DEF readiness, specs
    <3>4. live' \in LiveState
      BY Zenon, <2>2, <3>1, <3>2 DEF LiveState
    <3>5. /\ SameEpoch /\ SamePlan /\ live'.active = live.active /\ live'.correction = live.correction
          /\ live'.readiness = readiness
      BY ZenonT(30), <2>2, <3>1 DEF LiveState, SameEpoch, SamePlan
    <3> QED BY ZenonT(30), <2>2, <3>3, <3>4, <3>5 DEF OnlyReports, ReportsFewer
  <2> QED BY Zenon, <2>1, <2>2 DEF QuiesceSettle
<1>2. CASE Goto(p, "lock") /\ quiesced' = TRUE
  <2>1. proc' \in [Procs -> Process] /\ OnlyMoves(p) /\ Continues(p) /\ proc'[p].pc = "lock"
    BY ZenonT(30), <1>2, MovesOn DEF TypesInv, Pcs
  <2>2. TypesInv' /\ MovesQuietly(p)
    BY ZenonT(30), <1>1, <1>2, <2>1 DEF TypesInv, SameAssets, MovesQuietly, Quiescing, At
  <2> QED BY Zenon, <1>1, <1>2, <2>1, <2>2, QuietMove DEF Passes, At
<1>3. CASE Abandon(p)
  <2>1. proc' \in [Procs -> Process] /\ OnlyMoves(p) /\ Ended(p)
    BY Zenon, <1>3, AbandonEnds DEF TypesInv
  <2>2. TypesInv'
    BY ZenonT(30), <1>1, <2>1 DEF TypesInv, SameAssets, SameHost
  <2> QED BY <1>1, <2>1, <2>2, QuietEnd DEF Passes, At, Quiescing
<1> QED BY Zenon, <1>2, <1>3 DEF QuiesceSettle

(* Reporting the result ends the operation.                                  *)
LEMMA ReportStep ==
    ASSUME TypesInv, OwnerInv, NEW p \in Procs, Report(p)
    PROVE  Passes(p)
<1>1. SameHost /\ SameAssets /\ At(p, "report") /\ Abandon(p)
  BY DEF Report, SameHost, SameAssets
<1>2. Noted(p)
  BY Zenon, FailureNoted DEF Report
<1>3. proc' \in [Procs -> Process] /\ OnlyMoves(p) /\ Ended(p)
  BY Zenon, <1>1, AbandonEnds DEF TypesInv
<1>4. TypesInv'
  BY <1>1, <1>2, <1>3 DEF TypesInv, SameHost, SameAssets, Noted
<1> QED BY Zenon, <1>1, <1>2, <1>3, <1>4, QuietEnd DEF Passes, Noted, At, Quiescing

(* finalizeAccepted goes on to its asset I/O with the current document, or   *)
(* notes that the plan has to be corrected.                                  *)
LEMMA FinalizeStep ==
    ASSUME TypesInv, OwnerInv, NEW p \in Procs, Finalize(p)
    PROVE  Passes(p)
<1> DEFINE r == [proc[p] EXCEPT !.pc = "lock", !.after = "finish", !.enabled = Enabled(live)]
<1> SameHost /\ SameAssets /\ At(p, "final")
  BY DEF Finalize, SameHost, SameAssets
<1> live \in LiveState /\ proc \in [Procs -> Process] /\ proc[p] \in Process /\ proc[p].revision \in Nat
  BY DEF TypesInv, Process
<1>1. Noted(p)
  BY Zenon, FailureNoted, CorrectionNoted DEF Finalize
<1>2. CASE Fail(p, "finish")
  <2>1. /\ proc' \in [Procs -> Process] /\ OnlyMoves(p) /\ Continues(p) /\ proc'[p].pc = "finish"
    BY ZenonT(30), <1>2, MovesOn DEF Pcs
  <2>2. TypesInv' /\ MovesQuietly(p)
    BY <1>1, <2>1 DEF TypesInv, SameHost, SameAssets, Noted, MovesQuietly, At
  <2> QED BY <1>1, <2>1, <2>2, QuietMove DEF Passes, Noted, At
<1>3. CASE proc' = [proc EXCEPT ![p] = r]
  <2>1. Enabled(live) \in SUBSET Apps
    BY DEF Enabled
  <2>2. r \in Process
    BY Zenon, <2>1 DEF Process, Pcs
  <2>3. proc' \in [Procs -> Process] /\ proc'[p] = r /\ OnlyMoves(p)
    BY Zenon, <1>3, <2>2, OneProcess
  <2>4. /\ proc'[p].epoch = proc[p].epoch /\ proc'[p].replace = proc[p].replace
        /\ proc'[p].revision = proc[p].revision /\ proc'[p].cancelled = proc[p].cancelled
        /\ proc'[p].pc = "lock" /\ proc'[p].after = "finish" /\ proc'[p].enabled = Enabled(live)
    BY <2>3 DEF Process
  <2>5. live.loaded
    BY DEF OwnerInv, At
  <2>6. Quiet(p)
    BY <1>1, <2>3, <2>4, <2>5 DEF Quiet, Noted, Proceeds, Attempting, Preparing, Quiescing, At
  <2> QED BY <1>1, <2>3, <2>4, <2>6 DEF Passes, TypesInv, SameHost, SameAssets, Noted, Apart, At
<1> QED BY Zenon, <1>2, <1>3 DEF Finalize

(* A caller that leaves changes nothing else.                                *)
LEMMA LeaveStep ==
    ASSUME TypesInv, OwnerInv, NEW p \in Procs, Leave(p)
    PROVE  Passes(p)
<1> DEFINE r == [proc[p] EXCEPT !.left = TRUE]
<1> live' = live /\ SameHost /\ SameAssets /\ proc' = [proc EXCEPT ![p] = r] /\ proc[p] \in Process
  BY Zenon DEF Leave, SameHost, SameAssets, TypesInv
<1>1. r \in Process
  BY Zenon DEF Process
<1>2. proc' \in [Procs -> Process] /\ proc'[p] = r /\ OnlyMoves(p)
  BY Zenon, <1>1, OneProcess DEF TypesInv
<1>3. Stays(p) /\ proc'[p].cancelled = proc[p].cancelled
  BY <1>2 DEF Stays, Keeps, Process
<1>4. Quiet(p)
  <2>1. Proceeds(p)
    BY <1>2, <1>3 DEF Proceeds, OwnerInv, Attempting, Stays, Keeps, At
  <2>2. Preparing(p) => Preparing(p)'
    BY ZenonT(30), <1>3 DEF Preparing, Stays, Keeps, At
  <2> QED BY <1>3, <2>1, <2>2, UnchangedLive DEF Quiet, Stays, Keeps
<1> QED BY <1>2, <1>3, <1>4 DEF Passes, TypesInv, SameHost, SameAssets, Apart

(* A loop starts an operation with the epoch that it reads.                  *)
LEMMA LoopStarts ==
    ASSUME TypesInv, live.loaded, live' = live, SameHost, SameAssets, NEW p \in Procs, At(p, "idle"),
           NEW r \in Process, proc' = [proc EXCEPT ![p] = r], r.epoch = live.epoch, ~r.replace,
           r.revision \in {0, live.candidate.revision},
           \/ r.pc = "begin"
           \/ r.pc = "quiesce" /\ r.after = "reapply" /\ r.enabled = Enabled(live)
    PROVE  Passes(p)
<1>1. proc' \in [Procs -> Process] /\ proc'[p] = r /\ OnlyMoves(p)
  BY ZenonT(30), OneProcess DEF TypesInv
<1>2. Proceeds(p)
  BY ZenonT(30), <1>1 DEF Proceeds, Attempting, Quiescing, At
<1>3. Quiet(p)
  BY <1>1, <1>2, UnchangedLive DEF Quiet, Preparing, Quiescing, At
<1> QED BY <1>1, <1>3 DEF Passes, TypesInv, SameHost, SameAssets, Apart, Quiescing, At

(* runDueRetry resolves secrets again or applies the plan again.             *)
LEMMA RunDueRetryStep ==
    ASSUME TypesInv, NEW due, NEW corrective, RunDueRetry(due, corrective)
    PROVE  Passes("retry")
<1> live' = live /\ SameHost /\ SameAssets /\ At("retry", "idle") /\ live.loaded /\ "retry" \in Procs
  BY ProcIs DEF RunDueRetry, SameHost, SameAssets
<1> live.epoch \in Nat /\ live.candidate.revision \in Nat
  BY DEF TypesInv, LiveState, Candidate
<1>1. ASSUME NEW x \in SUBSET Apps, NEW y \in SUBSET Apps, NEW z \in SUBSET Apps,
             proc' = [proc EXCEPT !["retry"] = [Idle EXCEPT !.pc = "begin", !.epoch = live.epoch,
                         !.retained = x, !.resolve = y, !.attempted = z]]
      PROVE  Passes("retry")
  <2> DEFINE r == [Idle EXCEPT !.pc = "begin", !.epoch = live.epoch,
                               !.retained = x, !.resolve = y, !.attempted = z]
  <2>1. r \in Process
    BY Zenon, StartTyped DEF Process, Pcs
  <2>2. r.pc = "begin" /\ ~r.replace /\ r.epoch = live.epoch /\ r.revision \in {0, live.candidate.revision}
    BY DEF Idle
  <2>3. proc' = [proc EXCEPT !["retry"] = r]
    BY <1>1
  <2> HIDE DEF r
  <2> QED BY Zenon, <2>1, <2>2, <2>3, LoopStarts
<1>2. ASSUME proc' = [proc EXCEPT !["retry"] = [Idle EXCEPT !.pc = "begin",
                           !.epoch = live.epoch, !.revision = live.candidate.revision]]
      PROVE  Passes("retry")
  <2> DEFINE r == [Idle EXCEPT !.pc = "begin", !.epoch = live.epoch,
                               !.revision = live.candidate.revision]
  <2>1. r \in Process
    BY Zenon, StartTyped DEF Process, Pcs
  <2>2. r.pc = "begin" /\ ~r.replace /\ r.epoch = live.epoch /\ r.revision \in {0, live.candidate.revision}
    BY DEF Idle
  <2>3. proc' = [proc EXCEPT !["retry"] = r]
    BY <1>2
  <2> HIDE DEF r
  <2> QED BY Zenon, <2>1, <2>2, <2>3, LoopStarts
<1> DEFINE secrets == {a \in due : live.readiness[a].phase = "secret"}
           running == Hosted(IF live.candidate.revision = 0 THEN live.specs ELSE live.candidate.specs)
<1>3. \/ proc' = [proc EXCEPT !["retry"] = [Idle EXCEPT !.pc = "begin", !.epoch = live.epoch,
                      !.retained = running, !.resolve = secrets, !.attempted = secrets]]
      \/ proc' = [proc EXCEPT !["retry"] = [Idle EXCEPT !.pc = "begin", !.epoch = live.epoch,
                      !.retained = running, !.resolve = Apps \ running, !.attempted = Apps]]
      \/ proc' = [proc EXCEPT !["retry"] = [Idle EXCEPT !.pc = "begin",
                      !.epoch = live.epoch, !.revision = live.candidate.revision]]
  BY Zenon DEF RunDueRetry
<1>4. running \in SUBSET Apps /\ Apps \ running \in SUBSET Apps /\ secrets \in SUBSET Apps /\ Apps \in SUBSET Apps
  BY DEF Hosted, RunDueRetry
<1> HIDE DEF secrets, running
<1> QED BY Zenon, <1>1, <1>2, <1>3, <1>4

(* The asset loop begins, applies the plan again, and ends.                  *)
LEMMA AssetLoopStep ==
    ASSUME TypesInv, OwnerInv, AssetLoop
    PROVE  Passes("assets")
<1> live' = live /\ SameHost /\ SameAssets /\ "assets" \in Procs
  BY ProcIs DEF AssetLoop, ReconcileAssets, ReapplyCandidate, ArmRetry, SameHost, SameAssets
<1> /\ proc["assets"] \in Process /\ proc \in [Procs -> Process]
    /\ live.epoch \in Nat /\ live.candidate.revision \in Nat
  BY DEF TypesInv, LiveState, Candidate
<1>1. CASE ReconcileAssets
  <2> DEFINE r == [Idle EXCEPT !.pc = "quiesce", !.after = "reapply",
                               !.epoch = live.epoch, !.enabled = Enabled(live)]
  <2>1. At("assets", "idle") /\ live.loaded /\ proc' = [proc EXCEPT !["assets"] = r]
    BY Zenon, <1>1 DEF ReconcileAssets, Served
  <2>2. Enabled(live) \in SUBSET Apps
    BY DEF Enabled
  <2>3. r \in Process
    BY Zenon, StartTyped, <2>2 DEF Process, Pcs
  <2>4. /\ r.pc = "quiesce" /\ r.after = "reapply" /\ ~r.replace /\ r.epoch = live.epoch
        /\ r.revision \in {0, live.candidate.revision} /\ r.enabled = Enabled(live)
    BY DEF Idle
  <2> HIDE DEF r
  <2> QED BY Zenon, <2>1, <2>3, <2>4, LoopStarts
<1>2. CASE Abandon("assets") /\ At("assets", "reapply")
  <2>1. proc' \in [Procs -> Process] /\ OnlyMoves("assets") /\ Ended("assets")
    BY Zenon, <1>2, AbandonEnds
  <2>2. Quiet("assets") /\ Apart("assets")
    BY <1>2, <2>1, QuietEnd, UnchangedLive DEF At, Quiescing
  <2> QED BY <2>1, <2>2 DEF Passes, TypesInv, SameHost, SameAssets
<1>3. CASE ArmRetry
  <2>1. proc' \in [Procs -> Process] /\ proc'["assets"] = Idle /\ OnlyMoves("assets")
    BY ZenonT(30), <1>3, StartTyped, OneProcess DEF ArmRetry
  <2>2. Ended("assets") /\ At("assets", "arm")
    BY Zenon, <1>3, <2>1 DEF Ended, Idle, ArmRetry
  <2>3. Quiet("assets") /\ Apart("assets")
    BY <2>1, <2>2, QuietEnd, UnchangedLive DEF At, Quiescing
  <2> QED BY <2>1, <2>3 DEF Passes, TypesInv, SameHost, SameAssets
<1>4. CASE /\ At("assets", "reapply")
           /\ proc' = [proc EXCEPT !["assets"] = [proc["assets"] EXCEPT !.pc = "begin",
                          !.epoch = live.epoch, !.revision = live.candidate.revision]]
  <2> DEFINE r == [proc["assets"] EXCEPT !.pc = "begin", !.epoch = live.epoch,
                                         !.revision = live.candidate.revision]
  <2>1. r \in Process
    BY Zenon DEF Process, Pcs
  <2>2. proc' \in [Procs -> Process] /\ proc'["assets"] = r /\ OnlyMoves("assets")
    BY Zenon, <1>4, <2>1, OneProcess
  <2>3. /\ r.pc = "begin" /\ r.epoch = live.epoch /\ r.revision = live.candidate.revision
        /\ r.replace = proc["assets"].replace
    BY DEF Process
  <2> HIDE DEF r
  <2>4. Proceeds("assets")
    BY <1>4, <2>2, <2>3 DEF Proceeds, Attempting, Quiescing, At, OwnerInv
  <2>5. Quiet("assets")
    BY ZenonT(30), <1>4, <2>2, <2>3, <2>4, UnchangedLive, ProcIs DEF Quiet, Preparing, Quiescing, At
  <2> QED BY <1>4, <2>2, <2>3, <2>5 DEF Passes, TypesInv, SameHost, SameAssets, Apart, Quiescing, At
<1> QED BY Zenon, <1>1, <1>2, <1>3, <1>4 DEF AssetLoop, ReapplyCandidate

----------------------------------------------------------------------------
(* The operations on assets                                                  *)

(* Taking assetMu is quiet: who may drop assets has checked its document.    *)
LEMMA LockAssetsStep ==
    ASSUME TypesInv, OwnerInv, NEW p \in Procs, LockAssets(p)
    PROVE  /\ TypesInv' /\ Quiet(p) /\ assets' = assets /\ Keeps(p) /\ At(p, "lock") /\ assetMu = Nobody
           /\ \/ /\ At(p, "upload")' /\ assetMu' = p
                 /\ AssetsCurrent(p) /\ (proc'[p].drops => MayDrop(p))
              \/ proc'[p].pc = proc[p].after /\ assetMu' = assetMu
<1> DEFINE r == [proc[p] EXCEPT !.pc = "upload", !.drops = MayDrop(p)]
           s == [proc[p] EXCEPT !.pc = proc[p].after, !.err = (proc[p].after = "finish")]
<1> live' = live /\ SameHost /\ assets' = assets /\ At(p, "lock") /\ assetMu = Nobody
  BY DEF LockAssets, SameHost
<1> proc[p] \in Process /\ proc[p].after \in Pcs /\ (proc[p].after = "finish") \in BOOLEAN
    /\ MayDrop(p) \in BOOLEAN
  BY DEF TypesInv, Process, Pcs, MayDrop
<1>1. r \in Process /\ s \in Process
  BY ZenonT(30) DEF Process, Pcs
<1>2. /\ proc' \in [Procs -> Process] /\ OnlyMoves(p) /\ Continues(p)
      /\ \/ /\ At(p, "upload")' /\ assetMu' = p
            /\ AssetsCurrent(p) /\ (proc'[p].drops => MayDrop(p))
         \/ proc'[p].pc = proc[p].after /\ assetMu' = assetMu
  <2>1. CASE proc' = [proc EXCEPT ![p] = r] /\ assetMu' = p /\ AssetsCurrent(p)
    <3>1. proc' \in [Procs -> Process] /\ proc'[p] = r /\ OnlyMoves(p)
      BY Zenon, <1>1, <2>1, OneProcess DEF TypesInv
    <3> QED BY <2>1, <3>1 DEF Continues, Keeps, Process, At
  <2>2. CASE proc' = [proc EXCEPT ![p] = s] /\ assetMu' = assetMu
    <3>1. proc' \in [Procs -> Process] /\ proc'[p] = s /\ OnlyMoves(p)
      BY ZenonT(30), <1>1, <2>2, OneProcess DEF TypesInv
    <3> QED BY <2>2, <3>1 DEF Continues, Keeps, Process
  <2> QED BY Zenon, <2>1, <2>2 DEF LockAssets, AcquireAssets
<1>3. MovesQuietly(p)
  BY <1>2 DEF MovesQuietly, At
<1>4. Quiet(p)
  BY Zenon, <1>2, <1>3, QuietMove, UnchangedLive
<1> QED BY <1>2, <1>4 DEF TypesInv, SameHost, Continues

(* Who takes assetMu, and may drop assets, has the current document.         *)
LEMMA LockKeeps ==
    ASSUME TypesInv, OwnerInv, AssetInv, NEW p \in Procs, LockAssets(p)
    PROVE  AssetInv'
<1> USE DEF At
<1>1. /\ OthersStay(p) /\ Keeps(p) /\ live'.doc = live.doc /\ live'.epoch = live.epoch
      /\ At(p, "lock") /\ assetMu = Nobody
      /\ \/ /\ At(p, "upload")' /\ assetMu' = p
            /\ AssetsCurrent(p) /\ (proc'[p].drops => MayDrop(p))
         \/ proc'[p].pc = proc[p].after /\ assetMu' = assetMu
  BY ZenonT(30), LockAssetsStep DEF Quiet, OnlyReports, SameEpoch, SamePlan, Proceeds, OnlyMoves
<1>2. Enabled(live)' = Enabled(live) /\ proc[p].after \in {"begin", "finish", "reapply"}
  BY ZenonT(30), <1>1 DEF Enabled, TypesInv, Process
<1>3. \A q \in Procs : proc[q].pc # "upload"
  BY ZenonT(30), <1>1, ProcIs DEF AssetInv, AssetOf
<1>4. proc'[p].pc = "upload" /\ proc'[p].drops => proc'[p].enabled = Enabled(live)'
  BY ZenonT(30), <1>1, <1>2 DEF AssetInv, AssetOf, AssetsCurrent, MayDrop, Keeps
<1>5. AssetOf(p)'
  BY ZenonT(30), <1>1, <1>2, <1>4, ProcIs DEF AssetOf, Quiescing
<1>6. ASSUME NEW q \in Procs \ {p}
      PROVE  AssetOf(q)'
  <2>1. Stays(q) /\ AssetOf(q) /\ assetMu' # q
    BY ZenonT(30), <1>1, ProcIs DEF OthersStay, AssetInv
  <2> QED BY ZenonT(30), <1>1, <1>2, <1>3, <2>1 DEF AssetOf, Stays, Keeps
<1> QED BY ZenonT(30), <1>5, <1>6 DEF AssetInv

(* Asset I/O drops assets of what its document does not enable, if it may.   *)
LEMMA UploadAssetsStep ==
    ASSUME TypesInv, OwnerInv, NEW p \in Procs, UploadAssets(p)
    PROVE  /\ TypesInv' /\ Quiet(p) /\ At(p, "upload") /\ proc'[p].pc = proc[p].after
           /\ assetMu' = Nobody
           /\ \A a \in assets \ assets' : proc[p].drops /\ a \notin proc[p].enabled
<1> DEFINE r == [proc[p] EXCEPT !.pc = "finish", !.err = (live'.finalized # proc[p].revision)]
<1> SameHost /\ At(p, "upload") /\ assetMu' = Nobody
  BY ZenonT(30) DEF UploadAssets, SameHost
<1> /\ live \in LiveState /\ proc \in [Procs -> Process] /\ proc[p] \in Process /\ proc[p].after \in Pcs
    /\ proc[p].revision \in Nat /\ proc[p].enabled \subseteq Apps /\ live.finalized \in Nat
  BY DEF TypesInv, LiveState, Process, Pcs
<1>1. assets' \subseteq Apps /\ \A a \in assets \ assets' : proc[p].drops /\ a \notin proc[p].enabled
  BY DEF UploadAssets, TypesInv
<1>2. Noted(p)
  <2>1. CASE live' = live
    BY <2>1, UnchangedLive DEF Noted
  <2>2. ASSUME NEW f \in Nat, live' = [live EXCEPT !.finalized = f]
        PROVE  Noted(p)
    <3>1. live' \in LiveState
      BY Zenon, <2>2 DEF LiveState
    <3> QED BY <2>2, <3>1 DEF Noted, OnlyReports, SameEpoch, SamePlan, ReportsFewer, LiveState
  <2> QED BY <2>1, <2>2 DEF UploadAssets
<1>3. /\ proc' \in [Procs -> Process] /\ OnlyMoves(p) /\ Continues(p) /\ proc'[p].pc = proc[p].after
  <2>1. CASE proc[p].after = "finish"
    <3>1. r \in Process
      BY Zenon DEF Process, Pcs
    <3>2. proc' = [proc EXCEPT ![p] = r]
      BY Zenon, <2>1 DEF UploadAssets
    <3>3. proc' \in [Procs -> Process] /\ proc'[p] = r /\ OnlyMoves(p)
      BY Zenon, <3>1, <3>2, OneProcess
    <3> QED BY <2>1, <3>3 DEF Continues, Keeps, Process
  <2>2. CASE Goto(p, proc[p].after)
    BY ZenonT(30), <2>2, MovesOn
  <2> QED BY Zenon, <2>1, <2>2 DEF UploadAssets
<1>4. MovesQuietly(p)
  BY <1>3 DEF MovesQuietly
<1>5. Quiet(p)
  BY ZenonT(30), <1>2, <1>3, <1>4, QuietMove DEF Noted
<1> QED BY Zenon, <1>1, <1>2, <1>3, <1>5 DEF TypesInv, SameHost, Noted

(* assetMu is free again.                                                    *)
LEMMA UploadKeeps ==
    ASSUME TypesInv, OwnerInv, AssetInv, NEW p \in Procs, UploadAssets(p)
    PROVE  AssetInv'
<1> USE DEF At
<1>1. /\ OthersStay(p) /\ live'.doc = live.doc /\ live'.epoch = live.epoch
      /\ At(p, "upload") /\ proc'[p].pc = proc[p].after /\ assetMu' = Nobody
  BY ZenonT(30), UploadAssetsStep DEF Quiet, OnlyReports, SameEpoch, SamePlan, Proceeds, OnlyMoves
<1>2. Enabled(live)' = Enabled(live) /\ proc[p].after \in {"begin", "finish", "reapply"}
  BY <1>1 DEF Enabled, TypesInv, Process
<1>3. \A q \in Procs \ {p} : proc[q].pc # "upload"
  BY <1>1 DEF AssetInv, AssetOf
<1>4. AssetOf(p)'
  BY ZenonT(30), <1>1, <1>2, ProcIs DEF AssetOf, Quiescing
<1>5. ASSUME NEW q \in Procs \ {p}
      PROVE  AssetOf(q)'
  <2>1. Stays(q) /\ AssetOf(q) /\ assetMu' # q
    BY ZenonT(30), <1>1, ProcIs DEF OthersStay, AssetInv
  <2> QED BY ZenonT(30), <1>1, <1>2, <1>3, <2>1 DEF AssetOf, Stays, Keeps
<1> QED BY <1>4, <1>5 DEF AssetInv

----------------------------------------------------------------------------
(* The operations of attempts                                                *)

(* Cancelling the active attempt changes nothing else.                       *)
LEMMA CancelActiveTyped ==
    ASSUME proc \in [Procs -> Process], live.active \in Procs \cup {Nobody}
    PROVE  /\ CancelActive(proc) \in [Procs -> Process]
           /\ \A q \in Procs :
                 /\ CancelActive(proc)[q].pc = proc[q].pc /\ CancelActive(proc)[q].after = proc[q].after
                 /\ CancelActive(proc)[q].epoch = proc[q].epoch
                 /\ CancelActive(proc)[q].replace = proc[q].replace
                 /\ CancelActive(proc)[q].revision = proc[q].revision
                 /\ CancelActive(proc)[q].enabled = proc[q].enabled
                 /\ CancelActive(proc)[q].specs = proc[q].specs
                 /\ CancelActive(proc)[q].drops = proc[q].drops
                 /\ CancelActive(proc)[q].err = proc[q].err
                 /\ proc[q].cancelled \/ live.active = q => CancelActive(proc)[q].cancelled
<1>1. CASE live.active = Nobody
  BY <1>1, ProcIs DEF CancelActive
<1>2. CASE live.active \in Procs
  <2> DEFINE b == live.active
             r == [proc[b] EXCEPT !.cancelled = TRUE]
  <2> proc[b] \in Process
    BY <1>2
  <2>1. r \in Process
    BY Zenon DEF Process
  <2>2. CancelActive(proc) = [proc EXCEPT ![b] = r]
    BY Zenon, <1>2, ProcIs DEF CancelActive
  <2>3. /\ CancelActive(proc) \in [Procs -> Process] /\ CancelActive(proc)[b] = r
        /\ \A q \in Procs : q # b => CancelActive(proc)[q] = proc[q]
    BY ZenonT(30), <2>1, <2>2, <1>2
  <2> QED BY <2>3 DEF Process
<1> QED BY <1>1, <1>2

(* A process gets a new record when the active attempt is cancelled.         *)
LEMMA OneCancels ==
    ASSUME TypesInv, NEW p \in Procs, NEW r \in Process, proc' = [CancelActive(proc) EXCEPT ![p] = r]
    PROVE  proc' \in [Procs -> Process] /\ proc'[p] = r /\ Cancels(p)
<1> DEFINE c == CancelActive(proc)
<1>1. proc \in [Procs -> Process] /\ live.active \in Procs \cup {Nobody}
  BY DEF TypesInv, LiveState
<1>2. c \in [Procs -> Process]
  BY <1>1, CancelActiveTyped
<1>3. proc' \in [Procs -> Process] /\ proc'[p] = r /\ \A q \in Procs \ {p} : proc'[q] = c[q]
  BY <1>2
<1> QED BY <1>1, <1>3, CancelActiveTyped DEF Cancels, OthersStay, Stays, Keeps

(* beginAttempt takes LiveState over or fails.                               *)
LEMMA BeginAttemptStep ==
    ASSUME TypesInv, OwnerInv, NEW p \in Procs, BeginAttempt(p)
    PROVE  Passes(p) \/ (TypesInv' /\ Takes(p))
<1> DEFINE pc == IF proc[p].revision = 0 THEN "stage" ELSE "check"
           c == CancelActive(proc)
           r == [c[p] EXCEPT !.pc = pc]
<1> SameHost /\ SameAssets /\ At(p, "begin")
  BY DEF BeginAttempt, SameHost, SameAssets
<1> live \in LiveState /\ live.active \in Procs \cup {Nobody} /\ proc \in [Procs -> Process]
  BY ZenonT(30) DEF TypesInv, LiveState
<1>1. CASE /\ live.closing \/ live.epoch # proc[p].epoch \/ ~proc[p].replace
           /\ Fail(p, "report") /\ live' = live
  <2>1. /\ proc' \in [Procs -> Process] /\ OnlyMoves(p) /\ Continues(p) /\ proc'[p].pc = "report"
    BY ZenonT(30), <1>1, MovesOn DEF Pcs
  <2>2. TypesInv' /\ MovesQuietly(p)
    BY Zenon, <1>1, <2>1 DEF TypesInv, SameHost, SameAssets, MovesQuietly
  <2> QED BY <1>1, <2>1, <2>2, QuietMove, UnchangedLive DEF Passes, At
<1>2. CASE /\ ~live.closing /\ live.epoch = proc[p].epoch /\ (live.active = Nobody \/ proc[p].replace)
           /\ live' = [live EXCEPT !.active = p] /\ proc' = [c EXCEPT ![p] = r]
  <2>1. live' \in LiveState
    BY Zenon, <1>2 DEF LiveState
  <2>2. /\ SameEpoch /\ SamePlan /\ live'.active = p /\ live'.readiness = live.readiness
        /\ live'.correction = live.correction /\ live'.generations = live.generations
    BY <1>2 DEF SameEpoch, SamePlan, LiveState
  <2>3. c[p] \in Process
    BY CancelActiveTyped
  <2>4. r \in Process
    BY Zenon, <2>3 DEF Process, Pcs
  <2>5. proc' \in [Procs -> Process] /\ proc'[p] = r /\ Cancels(p)
    BY Zenon, <1>2, <2>4, OneCancels
  <2>6. Keeps(p) /\ proc'[p].pc = pc
    BY <2>3, <2>5, CancelActiveTyped DEF Keeps, Process
  <2> QED BY <1>2, <2>1, <2>2, <2>5, <2>6 DEF Takes, TypesInv, SameHost, SameAssets
<1> QED BY Zenon, <1>1, <1>2 DEF BeginAttempt

(* LiveState with the plan that has these phases                             *)
WithPlan(p, phase) ==
    [live EXCEPT !.revisions = live.revisions + 1, !.correction = 0,
         !.candidate = [revision |-> live.revisions + 1, phase |-> phase,
             specs |-> [a \in Apps |-> IF phase[a] = "ready" THEN live.doc[a].generation ELSE 0]],
         !.readiness = [a \in Apps |-> StagedStatus(p, a, phase[a])]]

(* What stagePlan does: it fails, or stages the plan of some phases.         *)
LEMMA StagePlanCases ==
    ASSUME NEW p, StagePlan(p)
    PROVE  \/ ~Owns(p) /\ Fail(p, "finish") /\ live' = live
           \/ /\ Owns(p)
              /\ proc' = [proc EXCEPT ![p].pc = "check", ![p].revision = live.revisions + 1]
              /\ \E failing : live' = WithPlan(p, [a \in Apps |-> PlannedPhase(p, a, failing)])
BY Zenon DEF StagePlan, WithPlan

(* stagePlan stages a plan or fails.                                         *)
LEMMA StagePlanStep ==
    ASSUME TypesInv, OwnerInv, NEW p \in Procs, StagePlan(p)
    PROVE  Passes(p) \/ (TypesInv' /\ StagesPlan(p))
<1> SameHost /\ SameAssets /\ At(p, "stage")
  BY Zenon DEF StagePlan, SameHost, SameAssets
<1> live \in LiveState /\ proc \in [Procs -> Process] /\ proc[p] \in Process
  BY DEF TypesInv
<1>1. CASE ~Owns(p) /\ Fail(p, "finish") /\ live' = live
  <2>1. /\ proc' \in [Procs -> Process] /\ OnlyMoves(p) /\ Continues(p) /\ proc'[p].pc = "finish"
    BY ZenonT(30), <1>1, MovesOn DEF Pcs
  <2>2. TypesInv' /\ MovesQuietly(p)
    BY Zenon, <1>1, <2>1 DEF TypesInv, SameHost, SameAssets, MovesQuietly
  <2> QED BY <1>1, <2>1, <2>2, QuietMove, UnchangedLive DEF Passes, At
<1>2. ASSUME Owns(p), NEW failing,
             live' = WithPlan(p, [a \in Apps |-> PlannedPhase(p, a, failing)]),
             proc' = [proc EXCEPT ![p].pc = "check", ![p].revision = live.revisions + 1]
      PROVE  TypesInv' /\ StagesPlan(p)
  <2> DEFINE phase == [a \in Apps |-> PlannedPhase(p, a, failing)]
             revision == live.revisions + 1
             specs == [a \in Apps |-> IF phase[a] = "ready" THEN live.doc[a].generation ELSE 0]
             candidate == [revision |-> revision, phase |-> phase, specs |-> specs]
             readiness == [a \in Apps |-> StagedStatus(p, a, phase[a])]
             r == [proc[p] EXCEPT !.pc = "check", !.revision = revision]
  <2> revision \in Nat /\ live.doc \in Document /\ live.readiness \in Readiness
    BY DEF LiveState
  <2>1. phase \in [Apps -> {"disabled", "secret", "ready"}]
    BY ZenonT(30) DEF PlannedPhase
  <2>2. specs \in [Apps -> Generation]
    BY ReconcilerAssumption DEF Generation, Document
  <2>3. readiness \in Readiness
    BY ZenonT(30), <2>1 DEF StagedStatus, Status, Pending, Phases, Readiness
  <2>4. candidate \in Candidate
    BY <2>1, <2>2 DEF Candidate
  <2>5. live' = [live EXCEPT !.revisions = revision, !.correction = 0, !.candidate = candidate,
                             !.readiness = readiness]
    BY Zenon, <1>2 DEF WithPlan
  <2>6. proc' = [proc EXCEPT ![p] = r]
    BY ZenonT(30), <1>2
  <2>7. \A a \in Apps :
          /\ (phase[a] = "disabled") <=> ~live.doc[a].enabled
          /\ specs[a] = IF phase[a] = "ready" THEN live.doc[a].generation ELSE 0
          /\ readiness[a] = StagedStatus(p, a, phase[a])
    BY Zenon DEF PlannedPhase
  <2> HIDE DEF phase, revision, specs, readiness
  <2>8. live' \in LiveState
    BY Zenon, <2>3, <2>4, <2>5 DEF LiveState
  <2>9. /\ SameEpoch /\ live'.active = live.active /\ live'.doc = live.doc
        /\ live'.version = live.version
        /\ live'.generations = live.generations /\ live'.revisions = revision
        /\ live'.correction = 0 /\ live'.candidate.revision = revision
        /\ live'.candidate.phase = phase /\ live'.candidate.specs = specs
        /\ live'.readiness = readiness
    BY <2>5 DEF SameEpoch, LiveState
  <2>10. r \in Process
    BY Zenon DEF Process, Pcs
  <2>11. proc' \in [Procs -> Process] /\ proc'[p] = r /\ OnlyMoves(p)
    BY Zenon, <2>6, <2>10, OneProcess
  <2>12. /\ proc'[p].pc = "check" /\ proc'[p].revision = revision /\ proc'[p].epoch = proc[p].epoch
         /\ proc'[p].replace = proc[p].replace /\ proc'[p].cancelled = proc[p].cancelled
    BY <2>11 DEF Process
  <2>13. Apart(p) /\ Proceeds(p) /\ TypesInv'
    BY <2>8, <2>11, <2>12 DEF Apart, Proceeds, Attempting, Quiescing, OwnerInv, At, TypesInv, SameHost, SameAssets
  <2>14. \A a \in Apps :
          /\ (live'.candidate.phase[a] = "disabled") <=> ~live.doc[a].enabled
          /\ live'.candidate.specs[a] = IF live'.candidate.phase[a] = "ready"
                                        THEN live.doc[a].generation ELSE 0
          /\ live'.readiness[a] = StagedStatus(p, a, live'.candidate.phase[a])
    BY Zenon, <2>7, <2>9
  <2> QED BY ZenonT(30), <1>2, <2>9, <2>12, <2>13, <2>14 DEF StagesPlan, revision
<1> QED BY Zenon, <1>1, <1>2, StagePlanCases

(* readySpecs and attemptCurrent choose what to apply, or the attempt ends.  *)
LEMMA CheckAttemptStep ==
    ASSUME TypesInv, OwnerInv, NEW p \in Procs, CheckAttempt(p)
    PROVE  Passes(p) \/ (TypesInv' /\ ChecksPlan(p))
<1> DEFINE specs == Without(live.candidate.specs, Apps \ assets)
           r == [proc[p] EXCEPT !.pc = "apply", !.specs = specs]
<1> SameHost /\ SameAssets /\ At(p, "check") /\ live' = live
  BY DEF CheckAttempt, SameHost, SameAssets
<1> live \in LiveState /\ proc \in [Procs -> Process] /\ proc[p] \in Process
  BY DEF TypesInv
<1>1. CASE Fail(p, "finish")
  <2>1. /\ proc' \in [Procs -> Process] /\ OnlyMoves(p) /\ Continues(p) /\ proc'[p].pc = "finish"
    BY ZenonT(30), <1>1, MovesOn DEF Pcs
  <2>2. TypesInv' /\ MovesQuietly(p)
    BY <2>1 DEF TypesInv, SameHost, SameAssets, MovesQuietly, At
  <2> QED BY <2>1, <2>2, QuietMove, UnchangedLive DEF Passes, At
<1>2. CASE OwnsRevision(p) /\ proc' = [proc EXCEPT ![p] = r]
  <2>1. specs \in [Apps -> Generation] /\ \A a \in Apps : specs[a] \in {0, live.candidate.specs[a]}
    BY ReconcilerAssumption DEF Without, Generation, LiveState, Candidate
  <2> HIDE DEF specs
  <2>2. r \in Process
    BY Zenon, <2>1 DEF Process, Pcs
  <2>3. proc' \in [Procs -> Process] /\ proc'[p] = r /\ OnlyMoves(p)
    BY Zenon, <1>2, <2>2, OneProcess
  <2>4. Continues(p) /\ proc'[p].pc = "apply" /\ proc'[p].specs = specs
    BY <2>3 DEF Continues, Keeps, Process
  <2>5. Apart(p) /\ Proceeds(p) /\ TypesInv'
    BY <2>3, <2>4 DEF Apart, Proceeds, Attempting, Quiescing, OwnerInv, At, Continues, Keeps, TypesInv, SameHost, SameAssets
  <2> QED BY ZenonT(30), <1>2, <2>1, <2>4, <2>5 DEF ChecksPlan
<1> QED BY Zenon, <1>1, <1>2 DEF CheckAttempt

(* The call of the host                                                      *)
LEMMA ApplyPlanStep ==
    ASSUME TypesInv, OwnerInv, NEW p \in Procs, ApplyPlan(p)
    PROVE  TypesInv' /\ AppliesPlan(p)
<1> /\ live' = live /\ SameAssets /\ At(p, "apply") /\ quiesced' = quiesced
    /\ stopped' = stopped \cup {a \in Apps : host[a] # 0 /\ host'[a] = 0}
  BY DEF ApplyPlan, SameAssets
<1> proc \in [Procs -> Process] /\ proc[p].specs \in [Apps -> Generation]
  BY DEF TypesInv, Process
<1>1. host' \in [Apps -> Generation]
  BY Zenon, AppliedTyped DEF ApplyPlan
<1>2. /\ proc' \in [Procs -> Process] /\ OnlyMoves(p) /\ Continues(p) /\ proc'[p].pc = "settle"
      /\ proc'[p].specs = proc[p].specs /\ (Fail(p, "settle") => proc'[p].err)
  BY Zenon, MovesOn DEF ApplyPlan, Pcs
<1>3. ~proc'[p].err => host' = proc[p].specs
  BY ZenonT(30), <1>2 DEF ApplyPlan, ApplyPlugins
<1>4. host' = host \/ ~proc[p].cancelled
  BY ZenonT(30) DEF ApplyPlan, ApplyPlugins, IsCancelled
<1>5. \A a \in Apps : host'[a] = 0 \/ host'[a] = host[a] \/ host'[a] = proc[p].specs[a]
  <2>1. CASE host' \in PartlyApplied(proc[p].specs)
    BY <2>1 DEF PartlyApplied
  <2> QED BY ZenonT(30), <2>1 DEF ApplyPlan, ApplyPlugins
<1>6. \A a \in Apps \ stopped' : host[a] = 0 \/ host'[a] = host[a]
                                 \/ (host'[a] = proc[p].specs[a] /\ host'[a] # 0)
  BY ZenonT(30), <1>5
<1>7. Apart(p) /\ Proceeds(p)
  BY ZenonT(30), <1>2 DEF Apart, Proceeds, Attempting, Quiescing, OwnerInv, At, Continues, Keeps
<1>8. TypesInv'
  BY Zenon, <1>1, <1>2 DEF TypesInv, SameAssets
<1> QED BY ZenonT(30), <1>2, <1>3, <1>4, <1>6, <1>7, <1>8 DEF AppliesPlan

(* After the call of the host the plan is accepted, or a failure is noted.   *)
LEMMA SettleAttemptStep ==
    ASSUME TypesInv, OwnerInv, NEW p \in Procs, SettleAttempt(p)
    PROVE  Passes(p) \/ (TypesInv' /\ AcceptsPlan(p))
<1> SameAssets /\ At(p, "settle") /\ host' = host
  BY DEF SettleAttempt, SameAssets
<1> live \in LiveState /\ proc \in [Procs -> Process] /\ proc[p] \in Process
  BY DEF TypesInv
<1>1. CASE /\ live' = Superseded(live) \/ live' = ApplyFailed(live, proc[p].revision)
           /\ Fail(p, "finish") \/ Goto(p, "finish")
           /\ UNCHANGED <<stopped, quiesced>>
  <2>1. /\ proc' \in [Procs -> Process] /\ OnlyMoves(p) /\ Continues(p) /\ proc'[p].pc = "finish"
    BY Zenon, <1>1, MovesOn DEF Pcs
  <2>2. Noted(p)
    BY ZenonT(30), <1>1, FailureNoted
  <2>3. TypesInv' /\ MovesQuietly(p)
    BY Zenon, <1>1, <2>1, <2>2 DEF TypesInv, SameAssets, Noted, MovesQuietly, At
  <2> QED BY <1>1, <2>1, <2>2, <2>3, QuietMove DEF Passes, Noted, SameHost, At
<1>2. CASE /\ OwnsRevision(p) /\ ~proc[p].err
           /\ live' = Accepted(live, proc[p].revision, proc[p].specs)
           /\ Goto(p, "final") /\ stopped' = {} /\ quiesced' = (quiesced /\ host # proc[p].specs)
  <2> DEFINE r == [a \in Apps |-> AcceptedStatus(live, proc[p].specs, a)]
  <2> /\ proc[p].specs \in [Apps -> Generation] /\ proc[p].revision \in Nat
      /\ live.candidate.phase \in [Apps -> {"disabled", "secret", "ready"}]
      /\ live.readiness \in Readiness
    BY DEF Process, LiveState, Candidate
  <2>1. /\ proc' \in [Procs -> Process] /\ OnlyMoves(p) /\ Continues(p) /\ proc'[p].pc = "final"
    BY Zenon, <1>2, MovesOn DEF Pcs
  <2>2. r \in Readiness
    BY DEF AcceptedStatus, Status, Pending, Readiness, Phases
  <2>3. live' = [live EXCEPT !.generations = proc[p].specs, !.specs = proc[p].specs,
                             !.accepted = proc[p].revision, !.correction = 0, !.readiness = r]
    BY Zenon, <1>2 DEF Accepted
  <2>4. \A a \in Apps : r[a] = AcceptedStatus(live, proc[p].specs, a)
    BY Zenon
  <2> HIDE DEF r
  <2>5. live' \in LiveState
    BY Zenon, <2>2, <2>3 DEF LiveState
  <2>6. /\ SameEpoch /\ SamePlan /\ live'.active = live.active /\ live'.correction = 0
        /\ live'.generations = proc[p].specs /\ live'.readiness = r
    BY ZenonT(30), <2>3 DEF LiveState, SameEpoch, SamePlan
  <2>7. Apart(p) /\ Proceeds(p)
    BY ZenonT(30), <2>1 DEF Apart, Proceeds, Attempting, Quiescing, OwnerInv, At, Continues, Keeps
  <2>8. TypesInv'
    BY Zenon, <1>2, <2>1, <2>5 DEF TypesInv, SameAssets
  <2> QED BY ZenonT(30), <1>2, <2>1, <2>4, <2>6, <2>7, <2>8 DEF AcceptsPlan
<1> QED BY Zenon, <1>1, <1>2 DEF SettleAttempt, StaleAttempt

(* finishAttempt                                                             *)
LEMMA FinishAttemptStep ==
    ASSUME TypesInv, OwnerInv, NEW p \in Procs, FinishAttempt(p)
    PROVE  TypesInv' /\ Finishes(p)
<1> DEFINE b == IF live.active = p THEN Nobody ELSE live.active
<1> SameHost /\ SameAssets /\ At(p, "finish") /\ live' = [live EXCEPT !.active = b]
  BY Zenon DEF FinishAttempt, SameHost, SameAssets
<1> live \in LiveState /\ b \in Procs \cup {Nobody}
  BY DEF TypesInv, LiveState
<1>1. /\ proc' \in [Procs -> Process] /\ OnlyMoves(p) /\ Continues(p) /\ proc'[p].pc = "report"
  BY Zenon, MovesOn DEF FinishAttempt, TypesInv, Pcs
<1>2. live' \in LiveState
  BY Zenon DEF LiveState
<1>3. /\ SameEpoch /\ SamePlan /\ live'.readiness = live.readiness /\ live'.active = b
      /\ live'.correction = live.correction /\ live'.generations = live.generations
  BY DEF LiveState, SameEpoch, SamePlan
<1>4. Apart(p)
  BY <1>1 DEF Apart, Quiescing, At
<1> QED BY <1>1, <1>2, <1>3, <1>4 DEF Finishes, TypesInv, SameHost, SameAssets

----------------------------------------------------------------------------
(* Commits                                                                   *)

(* What acceptDocument makes of LiveState                                    *)
Accepting(l, doc, n) ==
    /\ n \in LiveState /\ n.version = l.version
    /\ n.loaded = TRUE /\ n.closing = l.closing /\ n.epoch = l.epoch + 1
    /\ n.candidate = NoCandidate /\ n.revisions = l.revisions /\ n.correction = 0
    /\ n.active = l.active /\ n.doc = doc
    /\ \A a \in Apps :
          /\ \/ /\ l.loaded /\ n.readiness[a] = l.readiness[a]
                /\ doc[a].generation = l.doc[a].generation
             \/ n.readiness[a].phase \in {"reconcile", "disabled"}
          /\ n.generations[a] # 0 => doc[a] = [generation |-> n.generations[a], enabled |-> TRUE]

(* acceptDocument drops the plan and keeps what still holds.                 *)
LEMMA AcceptedDocument ==
    ASSUME NEW l \in LiveState, NEW doc \in Document, NEW n, n = AcceptDocument(l, doc)
    PROVE  Accepting(l, doc, n)
<1> DEFINE g == PreservedGenerations(l, doc)
           r == [a \in Apps |->
                  IF l.loaded /\ l.doc[a].generation = doc[a].generation THEN l.readiness[a]
                  ELSE IF doc[a].enabled THEN Pending ELSE Status("disabled", FALSE, FALSE)]
<1>1. n = [l EXCEPT !.loaded = TRUE, !.epoch = l.epoch + 1, !.doc = doc, !.generations = g,
              !.candidate = NoCandidate, !.accepted = 0, !.finalized = 0, !.correction = 0,
              !.readiness = r]
  BY ZenonT(30) DEF AcceptDocument
<1>2. \A a \in Apps : \/ /\ l.loaded /\ r[a] = l.readiness[a]
                         /\ doc[a].generation = l.doc[a].generation
                      \/ r[a].phase \in {"reconcile", "disabled"}
  BY DEF Pending, Status
<1>3. ASSUME NEW a \in Apps, g[a] # 0
      PROVE  doc[a] = [generation |-> g[a], enabled |-> TRUE]
  <2>1. doc[a].enabled = TRUE /\ g[a] = doc[a].generation
    BY <1>3 DEF PreservedGenerations
  <2>2. doc[a] \in [generation : 1 .. MaxCommits, enabled : BOOLEAN]
    BY DEF Document
  <2> QED BY ZenonT(30), <2>1, <2>2
<1>4. g \in [Apps -> Generation]
  BY ReconcilerAssumption DEF PreservedGenerations, Generation, Document
<1>5. r \in Readiness /\ l.epoch + 1 \in Nat /\ 0 \in Nat
  BY DEF LiveState, Readiness, Pending, Status, Phases
<1> HIDE DEF g, r
<1>6. /\ n.loaded = TRUE /\ n.closing = l.closing /\ n.epoch = l.epoch + 1
      /\ n.candidate = NoCandidate /\ n.revisions = l.revisions /\ n.correction = 0
      /\ n.version = l.version /\ n.active = l.active /\ n.doc = doc /\ n.generations = g /\ n.readiness = r
  BY <1>1 DEF LiveState
<1>7. n \in LiveState
  <2> DEFINE k == [l EXCEPT !.loaded = TRUE, !.epoch = l.epoch + 1, !.doc = doc]
             m == [k EXCEPT !.generations = g, !.candidate = NoCandidate, !.accepted = 0]
  <2>1. n = [m EXCEPT !.finalized = 0, !.correction = 0, !.readiness = r]
    BY Zenon, <1>1
  <2>2. k \in LiveState
    BY Zenon, <1>5 DEF LiveState
  <2> HIDE DEF k
  <2>3. m \in LiveState
    BY Zenon, <1>4, <1>5, <2>2, StartTyped DEF LiveState
  <2> HIDE DEF m
  <2> QED BY ZenonT(30), <1>5, <2>1, <2>3 DEF LiveState
<1> QED BY Zenon, <1>2, <1>3, <1>6, <1>7 DEF Accepting

(* The record of an operation that a commit starts                           *)
Prepared(r) ==
    /\ r \in Process /\ r.pc \in {"quiesce", "lock", "begin"} /\ r.replace = TRUE
    /\ r.epoch = live.epoch + 1 /\ r.after = "begin" /\ r.revision = 0

(* Operation makes such a record.                                            *)
LEMMA OperationPrepared ==
    ASSUME live.epoch \in Nat, NEW retained \in SUBSET Apps, NEW pc \in {"quiesce", "lock", "begin"},
           NEW resolve \in SUBSET Apps, NEW attempted \in SUBSET Apps, NEW report \in BOOLEAN
    PROVE  Prepared(Operation(retained, pc, resolve, attempted, report))
<1> DEFINE o == Operation(retained, pc, resolve, attempted, report)
<1>1. live.epoch + 1 \in Nat /\ pc \in Pcs
  BY DEF Pcs
<1>2. o \in Process
  BY Zenon, StartTyped, <1>1 DEF Operation, Process
<1>3. o.pc = pc /\ o.replace = TRUE /\ o.epoch = live.epoch + 1 /\ o.after = "begin" /\ o.revision = 0
  BY DEF Operation, Idle
<1> QED BY Zenon, <1>2, <1>3 DEF Prepared

(* Its other parameters do not matter.                                       *)
LEMMA EditPrepared ==
    ASSUME NEW r, Prepared(r), NEW s \in SUBSET Apps
    PROVE  /\ Prepared([r EXCEPT !.enabled = s]) /\ [r EXCEPT !.enabled = s].pc = r.pc
           /\ Prepared([r EXCEPT !.retires = s])
<1> r \in Process
  BY DEF Prepared
<1>1. [r EXCEPT !.enabled = s] \in Process /\ [r EXCEPT !.retires = s] \in Process
  BY Zenon DEF Process
<1>2. Prepared([r EXCEPT !.enabled = s]) /\ [r EXCEPT !.enabled = s].pc = r.pc
  BY Zenon, <1>1 DEF Prepared, Process
<1>3. Prepared([r EXCEPT !.retires = s])
  BY Zenon, <1>1 DEF Prepared, Process
<1> QED BY <1>2, <1>3

(* Every kind of commit starts such an operation; enabling an app starts     *)
(* with its assets.                                                          *)
LEMMA StepsPrepared ==
    ASSUME live.epoch \in Nat, NEW kind \in Kinds, NEW a \in Apps
    PROVE  Prepared(Steps(kind, a)) /\ (kind = "enable" => Steps(kind, a).pc = "lock")
<1> DEFINE retained == Hosted(live.specs)
<1>1. /\ retained \in SUBSET Apps /\ {a} \in SUBSET Apps /\ {} \in SUBSET Apps
      /\ Apps \ retained \in SUBSET Apps /\ Apps \in SUBSET Apps
      /\ kind \in {"enable", "disable", "delete", "replace", "activate"}
  BY ReconcilerAssumption DEF Hosted
<1> HIDE DEF retained
<1>2. /\ Prepared(Operation(retained, "lock", {a}, {a}, TRUE))
      /\ Prepared(Operation(retained, "begin", {}, {}, TRUE))
      /\ Prepared(Operation(retained, "begin", {a}, {a}, TRUE))
      /\ Prepared(Operation(retained, "quiesce", Apps \ retained, Apps, TRUE))
      /\ Prepared(Operation(retained, "begin", Apps \ retained, Apps, TRUE))
  BY Zenon, <1>1, OperationPrepared
<1>3. Prepared([Operation(retained, "begin", Apps \ retained, Apps, TRUE) EXCEPT !.retires = {a}])
  BY Zenon, <1>1, <1>2, EditPrepared
<1>4. Operation(retained, "lock", {a}, {a}, TRUE).pc = "lock"
  BY ZenonT(30) DEF Operation, Idle
<1> QED BY ZenonT(30), <1>1, <1>2, <1>3, <1>4 DEF Steps, retained

(* Load accepts the stored document as the first one.                        *)
LEMMA LoadStep ==
    ASSUME TypesInv, OwnerInv, NEW p \in Procs, Load(p)
    PROVE  TypesInv' /\ Commits(p) /\ ~live.loaded
<1> DEFINE o == Operation({}, "lock", Apps, Apps, FALSE)
           r == [o EXCEPT !.enabled = Enabled(live)]
           n == live'
<1> /\ p \in Clients /\ At(p, "idle") /\ ~live.loaded /\ ~live.closing /\ live.active = Nobody
    /\ SameHost /\ SameAssets /\ proc' = [proc EXCEPT ![p] = r]
  BY Zenon DEF Load, SameHost, SameAssets, OwnerInv
<1>1. n = AcceptDocument(live, live.doc)
  BY Zenon DEF Load
<1> live \in LiveState /\ proc \in [Procs -> Process] /\ live.epoch \in Nat /\ live.doc \in Document
    /\ live.version \in Nat /\ NoCandidate.revision = 0
  BY ReconcilerAssumption DEF TypesInv, LiveState, NoCandidate
<1>2. Prepared(r) /\ r.pc = "lock"
  <2>1. {} \in SUBSET Apps /\ Apps \in SUBSET Apps /\ Enabled(live) \in SUBSET Apps
    BY DEF Enabled
  <2>2. Prepared(o)
    BY Zenon, <2>1, OperationPrepared
  <2>3. o.pc = "lock"
    BY DEF Operation, Idle
  <2> HIDE DEF o
  <2> QED BY Zenon, <2>1, <2>2, <2>3, EditPrepared
<1> HIDE DEF r, n
<1>3. proc' \in [Procs -> Process] /\ proc'[p] = r /\ OnlyMoves(p)
  BY Zenon, <1>2, OneProcess DEF Prepared
<1>4. Cancels(p)
  BY <1>3, ProcIs DEF Cancels, OnlyMoves
<1>5. Accepting(live, live.doc, n)
  BY ZenonT(30), <1>1, AcceptedDocument
<1>6. live' \in LiveState /\ live'.version >= live.version
  BY <1>5 DEF Accepting, n
<1>7. AcceptsDocument
  BY ZenonT(30), <1>5, <1>6 DEF AcceptsDocument, Accepting, n
<1> QED BY Zenon, <1>2, <1>3, <1>4, <1>6, <1>7 DEF Commits, Prepared, TypesInv, SameHost, SameAssets

(* A commit raises the version, and gives its app the new generation.        *)
LEMMA CommitStep ==
    ASSUME TypesInv, NEW p \in Procs, NEW kind \in Kinds, NEW a \in Apps, Commit(p, kind, a)
    PROVE  TypesInv' /\ Commits(p) /\ live.loaded
<1> DEFINE version == live.version + 1
           l == [live EXCEPT !.version = version]
           entry == [generation |-> version,
                     enabled |-> IF kind = "enable" THEN TRUE
                                 ELSE IF kind \in {"disable", "delete"} THEN FALSE
                                 ELSE live.doc[a].enabled]
           doc == [live.doc EXCEPT ![a] = entry]
           e == Enabled([doc |-> doc])
           r == [Steps(kind, a) EXCEPT !.enabled = e]
           n == live'
<1>1. /\ p \in Clients /\ At(p, "idle") /\ live.loaded /\ ~live.closing /\ version <= MaxCommits
      /\ SameHost /\ assetMu' = assetMu /\ assets' \in {assets, assets \ {a}}
      /\ proc' = [CancelActive(proc) EXCEPT ![p] = r]
  BY Zenon DEF Commit, SameHost, Served
<1>2. n = AcceptDocument(l, doc)
  BY ZenonT(30) DEF Commit
<1> /\ live \in LiveState /\ live.epoch \in Nat /\ live.version \in 1 .. MaxCommits
    /\ live.doc \in Document /\ NoCandidate.revision = 0
  BY DEF TypesInv, LiveState, NoCandidate
<1>3. version \in 1 .. MaxCommits /\ version >= live.version
  BY <1>1, ReconcilerAssumption
<1>4. /\ doc \in Document /\ doc[a].generation = version
      /\ \A b \in Apps : doc[b].generation \in {live.doc[b].generation, version}
      /\ kind # "enable" => \A b \in Apps : doc[b].enabled => live.doc[b].enabled
  BY Zenon, <1>3 DEF Document
<1>5. l \in LiveState
  BY Zenon, <1>3 DEF LiveState
<1>6. /\ l.version = version /\ l.closing = live.closing /\ l.epoch = live.epoch
      /\ l.revisions = live.revisions /\ l.active = live.active /\ l.loaded = live.loaded
      /\ l.readiness = live.readiness /\ l.doc = live.doc
  BY ZenonT(30) DEF LiveState
<1>7. e \in SUBSET Apps
  BY DEF Enabled
<1>8. version = live.version + 1
  OBVIOUS
<1> HIDE DEF l, doc, e, version, n
<1>9. Prepared(r) /\ (kind = "enable" => r.pc = "lock")
  <2> DEFINE s == Steps(kind, a)
  <2>1. Prepared(s) /\ (kind = "enable" => s.pc = "lock")
    BY Zenon, StepsPrepared
  <2> HIDE DEF s
  <2>2. Prepared([s EXCEPT !.enabled = e]) /\ [s EXCEPT !.enabled = e].pc = s.pc
    BY Zenon, <1>7, <2>1, EditPrepared
  <2> QED BY Zenon, <2>1, <2>2 DEF s
<1> HIDE DEF r
<1>10. Accepting(l, doc, n)
  BY ZenonT(30), <1>2, <1>4, <1>5, AcceptedDocument
<1>11. live' \in LiveState /\ AcceptsDocument /\ live'.doc = doc
  BY ZenonT(30), <1>1, <1>3, <1>4, <1>6, <1>10 DEF AcceptsDocument, Accepting, n
<1>12. proc' \in [Procs -> Process] /\ proc'[p] = r /\ Cancels(p)
  BY Zenon, <1>1, <1>9, OneCancels DEF Prepared
<1>13. TypesInv'
  BY <1>1, <1>11, <1>12 DEF TypesInv, SameHost
<1> QED BY ZenonT(30), <1>1, <1>4, <1>8, <1>9, <1>11, <1>12, <1>13 DEF Commits, Prepared

----------------------------------------------------------------------------
(* Events, and all steps                                                     *)

(* These steps rest.                                                         *)
LEMMA RestStep ==
    ASSUME TypesInv, InvalidateConnection \/ DeviceEdge \/ Close \/ ClosePlugins \/ UNCHANGED vars
    PROVE  TypesInv' /\ Rests
<1> live \in LiveState /\ proc \in [Procs -> Process] /\ live.epoch + 1 \in Nat
    /\ live.active \in Procs \cup {Nobody}
  BY DEF TypesInv, LiveState
<1>1. CASE InvalidateConnection \/ DeviceEdge \/ UNCHANGED vars
  <2>1. /\ live' = live /\ proc' = proc /\ assetMu' = assetMu /\ UNCHANGED <<host, stopped, quiesced>>
        /\ assets' \subseteq Apps
    BY <1>1 DEF InvalidateConnection, DeviceEdge, vars, TypesInv
  <2> QED BY ZenonT(30), <2>1 DEF Rests, TypesInv, Stays, Keeps, SamePlan, SameEpoch
<1>2. CASE Close
  <2>1. /\ live' = [live EXCEPT !.closing = TRUE, !.epoch = live.epoch + 1] /\ proc' = CancelActive(proc)
        /\ UNCHANGED <<host, assets, assetMu, stopped, quiesced>>
    BY Zenon, <1>2 DEF Close
  <2>2. live' \in LiveState
    BY Zenon, <2>1 DEF LiveState
  <2>3. /\ SamePlan /\ live'.readiness = live.readiness /\ live'.generations = live.generations
        /\ live'.correction = live.correction /\ live'.active = live.active
        /\ live'.loaded = live.loaded /\ live'.closing /\ live'.epoch = live.epoch + 1
    BY <2>1 DEF LiveState, SamePlan
  <2>4. /\ proc' \in [Procs -> Process]
        /\ \A q \in Procs : Stays(q) /\ (proc[q].cancelled => proc'[q].cancelled)
    BY <2>1, CancelActiveTyped DEF Stays, Keeps
  <2> QED BY <2>1, <2>2, <2>3, <2>4 DEF Rests, TypesInv
<1>3. CASE ClosePlugins
  <2>1. /\ live' = [live EXCEPT !.hostClosed = TRUE] /\ live.closing /\ host' = Nothing /\ proc' = proc
        /\ UNCHANGED <<assets, assetMu, stopped, quiesced>>
    BY Zenon, <1>3 DEF ClosePlugins
  <2>2. live' \in LiveState
    BY Zenon, <2>1 DEF LiveState
  <2>3. /\ SamePlan /\ live'.readiness = live.readiness /\ live'.generations = live.generations
        /\ live'.correction = live.correction /\ live'.active = live.active
        /\ live'.loaded = live.loaded /\ live'.closing /\ live'.epoch = live.epoch
    BY <2>1 DEF LiveState, SamePlan
  <2> QED BY <2>1, <2>2, <2>3, StartTyped DEF Rests, TypesInv, Stays, Keeps
<1> QED BY <1>1, <1>2, <1>3

(* The steps of a process are quiet, of asset I/O, or of an attempt.         *)
LEMMA StepKinds ==
    ASSUME TypesInv, OwnerInv, NEW p \in Procs, Step(p)
    PROVE  Passes(p) \/ LockAssets(p) \/ UploadAssets(p) \/ (TypesInv' /\ Attempts(p))
<1>1. CASE QuiesceRead(p) \/ QuiesceApply(p) \/ QuiesceSettle(p) \/ Finalize(p) \/ Report(p)
  BY Zenon, <1>1, QuiesceReadStep, QuiesceApplyStep, QuiesceSettleStep, FinalizeStep, ReportStep
<1>2. CASE BeginAttempt(p) \/ StagePlan(p) \/ CheckAttempt(p)
  BY Zenon, <1>2, BeginAttemptStep, StagePlanStep, CheckAttemptStep DEF Attempts
<1>3. CASE ApplyPlan(p) \/ SettleAttempt(p) \/ FinishAttempt(p)
  BY Zenon, <1>3, ApplyPlanStep, SettleAttemptStep, FinishAttemptStep DEF Attempts
<1> QED BY Zenon, <1>1, <1>2, <1>3 DEF Step

(* All steps: the loops are quiet, and commits and events are kinds of their *)
(* own.                                                                      *)
LEMMA NextKinds ==
    ASSUME TypesInv, OwnerInv, [Next]_vars
    PROVE  \/ TypesInv' /\ Rests
           \/ \E p \in Procs : \/ Passes(p) \/ LockAssets(p) \/ UploadAssets(p)
                               \/ TypesInv' /\ (Attempts(p) \/ Commits(p))
<1> Clients \subseteq Procs
  BY ProcIs
<1>1. ASSUME NEW p \in Clients, Load(p) \/ Leave(p)
      PROVE  Passes(p) \/ (TypesInv' /\ Commits(p))
  BY Zenon, <1>1, LoadStep, LeaveStep
<1>2. ASSUME NEW p \in Clients, NEW kind \in Kinds, NEW a \in Apps, Commit(p, kind, a)
      PROVE  TypesInv' /\ Commits(p)
  BY Zenon, <1>2, CommitStep
<1>3. CASE RetryLoop \/ AssetLoop
  BY Zenon, <1>3, RunDueRetryStep, AssetLoopStep, ProcIs DEF RetryLoop
<1>4. CASE InvalidateConnection \/ DeviceEdge \/ Close \/ ClosePlugins \/ UNCHANGED vars
  BY Zenon, <1>4, RestStep
<1> QED BY Zenon, <1>1, <1>2, <1>3, <1>4, StepKinds DEF Next

----------------------------------------------------------------------------
(* The theorems                                                              *)

(* Before Load nothing is planned, hosted or accepted.                       *)
LEMMA InitIInv == Init => IInv
<1> SUFFICES ASSUME Init
             PROVE  IInv
  OBVIOUS
<1>1. TypesInv
  <2> DEFINE doc == [a \in Apps |-> [generation |-> 1, enabled |-> a \in InitiallyEnabled]]
             readiness == [a \in Apps |-> Status("disabled", FALSE, FALSE)]
  <2>1. doc \in Document /\ 1 \in 1 .. MaxCommits
    BY ReconcilerAssumption DEF Document
  <2>2. readiness \in Readiness
    BY DEF Status, Phases, Readiness
  <2>3. live = [loaded |-> FALSE, closing |-> FALSE, version |-> 1, epoch |-> 0, doc |-> doc,
                generations |-> Nothing, specs |-> Nothing, readiness |-> readiness,
                active |-> Nobody, candidate |-> NoCandidate, revisions |-> 0,
                accepted |-> 0, finalized |-> 0, correction |-> 0, hostClosed |-> FALSE]
    BY ZenonT(30) DEF Init
  <2> HIDE DEF doc, readiness
  <2>4. live \in LiveState
    BY ZenonT(30), <2>1, <2>2, <2>3, StartTyped DEF LiveState
  <2>5. proc \in [Procs -> Process]
    BY ZenonT(30), StartTyped DEF Init
  <2> QED BY ZenonT(30), <2>4, <2>5, StartTyped DEF Init, TypesInv
<1>2. live.loaded = FALSE /\ live.active = Nobody /\ live.epoch = 0 /\ live.revisions = 0
      /\ live.candidate = NoCandidate /\ live.correction = 0 /\ live.version = 1
      /\ live.generations = Nothing /\ quiesced = FALSE /\ assetMu = Nobody
      /\ \A p \in Procs : proc[p] = Idle
  BY ZenonT(30) DEF Init
<1>3. \A p \in Procs : /\ proc[p].pc = "idle" /\ proc[p].after = "begin" /\ proc[p].epoch = 0
                       /\ proc[p].revision = 0 /\ ~proc[p].replace
  <2>1. Idle.pc = "idle" /\ Idle.after = "begin" /\ Idle.epoch = 0 /\ Idle.revision = 0 /\ ~Idle.replace
    BY ZenonT(30) DEF Idle
  <2> QED BY ZenonT(30), <1>2, <2>1
<1>4. \A a \in Apps : live.doc[a].generation = 1 /\ live.readiness[a].phase = "disabled"
  BY ZenonT(30) DEF Init, Status
<1>5. OwnerInv
  <2>1. \A p \in Procs : /\ ~Attempting(p) /\ At(p, "idle") /\ proc[p].epoch <= live.epoch
                         /\ proc[p].pc \notin Quiescing
    BY <1>2, <1>3 DEF Attempting, At, Quiescing
  <2> QED BY ZenonT(30), <1>2, <2>1, ProcIs DEF OwnerInv
<1>6. PlanInv
  <2>1. NoCandidate.revision = 0
    BY DEF NoCandidate
  <2> QED BY <1>2, <1>4, <2>1 DEF PlanInv
<1>7. AttemptInv /\ CommitInv
  BY <1>2, <1>3 DEF AttemptInv, AttemptOf, CommitInv, At
<1>8. AssetInv
  BY ZenonT(30), <1>2, <1>3, ProcIs DEF AssetInv, AssetOf, At, Quiescing
<1>9. PlanIsHosted /\ GenerationsCurrent
  BY <1>2, <1>4 DEF PlanIsHosted, GenerationsCurrent, Hosted, Nothing
<1> QED BY <1>1, <1>5, <1>6, <1>7, <1>8, <1>9 DEF IInv, Agreement

(* Every kind of step keeps the invariant.                                   *)
LEMMA NextIInv == IInv /\ [Next]_vars => IInv'
<1> SUFFICES ASSUME TypesInv, Agreement, OwnerInv, AssetInv, [Next]_vars
             PROVE  TypesInv' /\ Agreement' /\ AssetInv'
  BY DEF IInv, Agreement
<1>1. ASSUME NEW p \in Procs, Passes(p)
      PROVE  TypesInv' /\ Agreement' /\ AssetInv'
  <2>1. /\ TypesInv' /\ Quiet(p) /\ Apart(p) /\ OthersStay(p)
        /\ live'.doc = live.doc /\ live'.epoch = live.epoch
    BY Zenon, <1>1 DEF Passes, Quiet, OnlyReports, SameEpoch, SamePlan, Proceeds, OnlyMoves
  <2> QED BY Zenon, <2>1, QuietKeeps, AssetKept
<1>2. ASSUME NEW p \in Procs, LockAssets(p) \/ UploadAssets(p)
      PROVE  TypesInv' /\ Agreement' /\ AssetInv'
  BY Zenon, <1>2, LockAssetsStep, UploadAssetsStep, QuietKeeps, LockKeeps, UploadKeeps
<1>3. ASSUME NEW p \in Procs, TypesInv', Attempts(p)
      PROVE  TypesInv' /\ Agreement' /\ AssetInv'
  BY Zenon, <1>3, AttemptsKeep, AssetKept
<1>4. ASSUME NEW p \in Procs, TypesInv', Commits(p)
      PROVE  TypesInv' /\ Agreement' /\ AssetInv'
  BY Zenon, <1>4, CommitsKeeps, CommitAssets
<1>5. CASE TypesInv' /\ Rests
  BY Zenon, <1>5, RestKeeps, RestAssets
<1> QED BY ZenonT(30), <1>1, <1>2, <1>3, <1>4, <1>5, NextKinds

(* PlanAgrees for every set of apps and callers and every number of commits  *)
(* and disturbances: in every state the types hold and assetMu has one       *)
(* holder, what is reported ready runs with its current generation unless    *)
(* quiescing or a failed attempt came after the last accepted plan, what is  *)
(* accepted is current, and at rest no enabled app is forgotten.             *)
THEOREM PlanAlwaysAgrees == Spec => []PlanAgrees
<1>1. Init => IInv
  BY InitIInv
<1>2. IInv /\ [Next]_vars => IInv'
  BY NextIInv
<1>3. IInv => PlanAgrees
  BY IInvAgrees
<1> QED BY <1>1, <1>2, <1>3, PTL DEF Spec

(* KeepsAssets on every step: assets are removed under a document that still *)
(* enables their app only when the device reconnects, or when the operation  *)
(* that enabled it still waits for assetMu and will upload them again.       *)
THEOREM AssetsAlwaysKept == Spec => AssetsKept
<1>1. IInv /\ [Next]_vars => KeepsAssets
  <2> SUFFICES ASSUME IInv, [Next]_vars, NEW a \in Apps, a \in assets, a \notin assets',
                      live.doc[a].enabled, live'.doc = live.doc, proc' # proc
               PROVE  \E p \in Procs : At(p, "lock") /\ proc[p].after = "begin"
    BY DEF KeepsAssets
  <2> TypesInv /\ Agreement /\ OwnerInv /\ AssetInv /\ ~SameAssets /\ assets' # assets
    BY DEF IInv, Agreement, SameAssets
  <2>1. ASSUME NEW p \in Procs, UploadAssets(p)
        PROVE  \E q \in Procs : At(q, "lock") /\ proc[q].after = "begin"
    <3>1. At(p, "upload") /\ proc[p].drops /\ a \notin proc[p].enabled
      BY <2>1, UploadAssetsStep
    <3> QED BY ZenonT(30), <3>1 DEF AssetInv, AssetOf, Enabled
  <2>2. ASSUME NEW p \in Procs
        PROVE  ~Passes(p) /\ ~LockAssets(p) /\ ~(TypesInv' /\ Attempts(p))
    BY Zenon, LockAssetsStep, AttemptsKeep DEF Passes, Apart
  <2>3. ASSUME NEW p \in Procs
        PROVE  ~Commits(p)
    <3>1. \A b \in Apps : live.doc[b].generation # live.version + 1
      BY Numbers, Generations
    <3> QED BY ZenonT(30), <3>1 DEF Commits
  <2>4. ~Rests
    BY DEF Rests
  <2> QED BY ZenonT(30), <2>1, <2>2, <2>3, <2>4, NextKinds
<1>2. Init => IInv
  BY InitIInv
<1>3. IInv /\ [Next]_vars => IInv'
  BY NextIInv
<1> QED BY <1>1, <1>2, <1>3, PTL DEF Spec, AssetsKept
============================================================================
