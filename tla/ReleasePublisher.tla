---------------------------- MODULE ReleasePublisher ----------------------------
(***************************************************************************)
(* `releasectl publish-releases` (cmd/releasectl/publish*.go): it brings    *)
(* the GitHub releases of every plugin and of the core to the assets of one *)
(* build and one signed catalog.  GitHub has no transaction over several    *)
(* releases, so a publication may end anywhere and is run again, possibly   *)
(* with another build or with a newly signed catalog.                       *)
(*                                                                         *)
(* Publications exclude each other (the workflow's concurrency group), a    *)
(* request may fail with or without its effect, and the job may be killed   *)
(* between any two requests.  The content of an archive is the build it     *)
(* comes from; a catalog names the archives of a build and has a sequence   *)
(* number; an upload that broke off leaves an asset whose content is Broken.*)
(***************************************************************************)
EXTENDS Integers, Sequences, SequencesExt

CONSTANTS Plugins, Core, Builds, Broken, PriorSequence, MaxSequence, MaxRuns, MaxFaults

VARIABLES
    remote,    \* the release of every tag, as GitHub has it
    job,       \* the publication in progress, or how the last one ended
    runs,      \* publications so far
    faults     \* failed requests so far

vars == <<remote, job, runs, faults>>

Tags == Plugins \cup {Core}
Absent == [kind |-> "absent", assets |-> <<>>]
Draft(assets) == [kind |-> "draft", assets |-> assets]

Catalogs == [build: Builds, sequence: 1..MaxSequence]

(* buildReleaseSpecs: every component has the archives of the build, and the *)
(* core release also carries the catalog and its signature.                 *)
SpecAssets(catalog, tag) ==
    IF tag = Core
    THEN [n \in {"archive", "catalog.json", "catalog.sig"} |->
              IF n = "archive" THEN catalog.build ELSE catalog]
    ELSE [n \in {"arm64", "amd64"} |-> catalog.build]

CoreFirst == <<Core>> \o SetToSeq(Plugins)
PluginsFirst == Append(SetToSeq(Plugins), Core)

(* The order in which every phase visits the releases: the core last.       *)
Order == PluginsFirst

Ended(outcome, catalog) == [step |-> outcome, catalog |-> catalog]

(* verifyCatalogPublicationSequence: the first catalog has sequence one; a  *)
(* later one exceeds the sequence of its published predecessor.             *)
Advances(catalog) ==
    IF PriorSequence = 0 THEN catalog.sequence = 1 ELSE catalog.sequence > PriorSequence

----------------------------------------------------------------------------
(* What the publisher makes of a release it read.                           *)

Names(assets) == DOMAIN assets

Mismatched(assets, wanted) ==
    {n \in Names(assets) : n \notin Names(wanted) \/ assets[n] # wanted[n]}

(* validateRemoteRelease, missingReleaseAssets.                             *)
Missing(assets, wanted) == Names(wanted) \ Names(assets)
Exact(assets, wanted) == Mismatched(assets, wanted) = {} /\ Missing(assets, wanted) = {}

(* inspectDraftRelease: a draft of the core may hold another catalog or     *)
(* signature, which are replaced; any other difference is a conflict.       *)
Refreshable(tag) == IF tag = Core THEN {"catalog.json", "catalog.sig"} ELSE {}
Conflicting(tag, release, wanted) ==
    IF release.kind = "draft"
    THEN ~(Mismatched(release.assets, wanted) \subseteq Refreshable(tag))
    ELSE ~Exact(release.assets, wanted)

----------------------------------------------------------------------------
(* Requests.  A failed one ends the publication; the effect may or may not  *)
(* have happened.                                                           *)

Tag == Head(job.todo)
Wanted == SpecAssets(job.catalog, Tag)

(* The phase goes on with the next release, or the next phase begins.       *)
Advance(next) ==
    job' = IF Len(job.todo) > 1 THEN [job EXCEPT !.todo = Tail(@)]
           ELSE [job EXCEPT !.step = next, !.todo = Order]

Refuse == job' = Ended("failed", job.catalog)

Fails ==
    /\ faults < MaxFaults
    /\ faults' = faults + 1
    /\ Refuse

Ok == UNCHANGED faults

Without(assets, name) == [n \in Names(assets) \ {name} |-> assets[n]]
With(assets, name, content) ==
    [n \in Names(assets) \cup {name} |-> IF n = name THEN content ELSE assets[n]]

(* Get: the published release of the tag, or else its draft.                *)
Get(step) == job.step = step /\ UNCHANGED <<remote, runs>>
GetFails == job.step \in {"inspect", "refreshed", "verify", "confirm"} /\ Fails /\ UNCHANGED <<remote, runs>>

CreateDraft ==
    \/ /\ remote' = [remote EXCEPT ![Tag] = Draft(<<>>)]
       /\ (Ok /\ job' = [job EXCEPT !.seen[Tag] = Draft(<<>>)]) \/ Fails
    \/ Fails /\ UNCHANGED remote

DeleteAsset(name) ==
    \/ /\ remote' = [remote EXCEPT ![Tag].assets = Without(@, name)]
       /\ \/ /\ Ok
             /\ job' = [job EXCEPT !.replace[Tag] = @ \ {name},
                                   !.step = IF job.replace[Tag] = {name} THEN "refreshed" ELSE @]
          \/ Fails
    \/ Fails /\ UNCHANGED remote

UploadAsset(name) ==
    \/ /\ remote' = [remote EXCEPT ![Tag].assets = With(@, name, Wanted[name])]
       /\ \/ Ok /\ job' = [job EXCEPT !.seen[Tag].assets = With(@, name, Wanted[name])]
          \/ Fails
    \/ Fails /\ remote' = [remote EXCEPT ![Tag].assets = With(@, name, Broken)]
    \/ Fails /\ UNCHANGED remote

Publish ==
    \/ /\ remote' = [remote EXCEPT ![Tag].kind = "published"]
       /\ (Ok /\ Advance("confirm")) \/ Fails
    \/ Fails /\ UNCHANGED remote

----------------------------------------------------------------------------
(* reconcileReleases, phase by phase.                                       *)

Init ==
    /\ remote = [t \in Tags |-> Absent]
    /\ job = [step |-> "idle"]
    /\ runs = 0 /\ faults = 0

Start(catalog) ==
    /\ job.step \in {"idle", "failed", "succeeded"}
    /\ runs < MaxRuns
    /\ runs' = runs + 1
    /\ Advances(catalog)
    /\ job' = [step |-> "inspect", catalog |-> catalog, todo |-> Order,
               seen |-> [t \in Tags |-> Absent], replace |-> [t \in Tags |-> {}]]
    /\ UNCHANGED <<remote, faults>>

(* Every release is read, and a conflict found, before anything is changed. *)
Inspect ==
    /\ Get("inspect") /\ Ok
    /\ LET release == remote[Tag]
           read == [job EXCEPT
                       !.seen[Tag] = release,
                       !.replace[Tag] = IF release.kind # "draft" THEN {}
                                        ELSE Mismatched(release.assets, Wanted)]
       IN IF release.kind # "absent" /\ Conflicting(Tag, release, Wanted)
          THEN Refuse
          ELSE job' = IF Len(job.todo) > 1 THEN [read EXCEPT !.todo = Tail(@)]
                      ELSE [read EXCEPT !.step = "stage", !.todo = Order]

(* A missing draft is created, the catalog of an earlier publication is     *)
(* taken out of the draft of the core, and what is missing is uploaded.     *)
Stage ==
    /\ job.step = "stage"
    /\ UNCHANGED runs
    /\ \/ job.seen[Tag].kind = "absent" /\ CreateDraft
       \/ job.seen[Tag].kind = "published" /\ Advance("verify") /\ UNCHANGED remote /\ Ok
       \/ /\ job.seen[Tag].kind = "draft"
          /\ \E name \in job.replace[Tag] : DeleteAsset(name)
       \/ /\ job.seen[Tag].kind = "draft" /\ job.replace[Tag] = {}
          /\ \/ \E name \in Missing(job.seen[Tag].assets, Wanted) : UploadAsset(name)
             \/ /\ Missing(job.seen[Tag].assets, Wanted) = {}
                /\ Advance("verify") /\ UNCHANGED remote /\ Ok

(* The draft is read again after its catalog was taken out.                 *)
Refreshed ==
    /\ Get("refreshed") /\ Ok
    /\ IF remote[Tag].kind = "draft" /\ Mismatched(remote[Tag].assets, Wanted) = {}
       THEN job' = [job EXCEPT !.step = "stage", !.seen[Tag] = remote[Tag]]
       ELSE Refuse

(* Every staged release is read back and compared before the first is       *)
(* published.                                                               *)
VerifyStaged ==
    /\ Get("verify") /\ Ok
    /\ IF remote[Tag].kind # "absent" /\ Exact(remote[Tag].assets, Wanted)
       THEN job' = IF Len(job.todo) > 1
                   THEN [job EXCEPT !.todo = Tail(@), !.seen[Tag] = remote[Tag]]
                   ELSE [job EXCEPT !.step = "publish", !.todo = Order, !.seen[Tag] = remote[Tag]]
       ELSE Refuse

PublishNext ==
    /\ job.step = "publish"
    /\ UNCHANGED runs
    /\ IF job.seen[Tag].kind = "draft" THEN Publish
       ELSE Advance("confirm") /\ UNCHANGED remote /\ Ok

Confirm ==
    /\ Get("confirm") /\ Ok
    /\ IF remote[Tag].kind = "published" /\ Exact(remote[Tag].assets, Wanted)
       THEN job' = IF Len(job.todo) > 1 THEN [job EXCEPT !.todo = Tail(@)]
                   ELSE Ended("succeeded", job.catalog)
       ELSE Refuse

(* The job is cancelled, or its runner dies.                                *)
Killed ==
    /\ job.step \notin {"idle", "failed", "succeeded"}
    /\ Refuse
    /\ UNCHANGED <<remote, runs, faults>>

Next ==
    \/ \E catalog \in Catalogs : Start(catalog)
    \/ Inspect \/ Stage \/ Refreshed \/ VerifyStaged \/ PublishNext \/ Confirm
    \/ GetFails \/ Killed

Spec == Init /\ [][Next]_vars

----------------------------------------------------------------------------
(* A published core release carries one signed catalog, newer than its      *)
(* predecessor, and everything that catalog names is already public with    *)
(* the very bytes it names, whatever publications broke off before; and a   *)
(* publication that reports success published exactly its own assets        *)
(* (docs/release.md: the core is published last "so its catalog cannot      *)
(* point to plugin releases that are still private").                       *)
CatalogResolves ==
    /\ remote[Core].kind = "published" =>
         \E catalog \in Catalogs :
            /\ Advances(catalog)
            /\ \A t \in Tags : remote[t].kind = "published"
                                 /\ remote[t].assets = SpecAssets(catalog, t)
    /\ job.step = "succeeded" =>
         \A t \in Tags : remote[t].kind = "published"
                           /\ remote[t].assets = SpecAssets(job.catalog, t)

=============================================================================
