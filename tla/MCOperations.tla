---------------------------- MODULE MCOperations ----------------------------
(* What is kept on disk, on the device and on GitHub, and survives          *)
(* failures there: the configuration file, the checkpoints, the installer,  *)
(* the assets of packages, the login service, the setup command and the     *)
(* publication of a release, on small instances. A behaviour is one of a    *)
(* single component; the checkpoints rest in their initial state while      *)
(* another one runs.                                                        *)
EXTENDS Checkpoints

CONSTANTS Parts,   \* the components that run
          Local, r1, r2, r3, broken

VARIABLES
    part,      \* the component that runs
    v1, v2, v3, v4, v5, v6, v7, v8, v9   \* the variables of the others

----------------------------------------------------------------------------
(* A catalog, another one with the same sequence, and a later one.          *)
ThreeCatalogs ==
    {[sequence |-> 1, sha256 |-> "a", plugins |-> {r1, r2}],
     [sequence |-> 1, sha256 |-> "b", plugins |-> {r2}],
     [sequence |-> 2, sha256 |-> "c", plugins |-> {r3}]}

Config == INSTANCE ConfigStore WITH
    Apps <- {"a1"}, Configs <- {"c1"}, Packages <- {"p1", "p2"},
    Tokens <- {"t1", "t2"}, MaxGeneration <- 4, MaxFaults <- 1,
    MaxCrashes <- 1,
    file <- v1, writer <- v2, used <- v3, accepted <- v4, held <- v5,
    excepted <- v6

Installer == INSTANCE Installer WITH
    Releases <- {r1, r2, r3}, Catalogs <- ThreeCatalogs,
    maxInstalledReleases <- 2,
    files <- v1, older <- v2, packages <- v3, damaged <- v4, unsynced <- v5,
    phase <- v6, job <- v7, relied <- v8, expected <- v9

Service == INSTANCE LaunchAgent WITH
    Definitions <- {"d1", "d2"}, Edited <- "edited", Missing <- "missing",
    MaxFaults <- 3, MaxEdits <- 2, MaxOperations <- 3,
    plist <- v1, loaded <- v2, op <- v3, answer <- v4, used <- v5, lost <- v6

Setup == INSTANCE Setup WITH
    Runs <- {"r1", "r2"}, Apps <- {"x", "y"}, MaxFaults <- 3,
    world <- v1, run <- v2, faults <- v3, late <- v4

Assets == INSTANCE PackageAssets WITH
    Assets <- {"a", "b"}, Manifests <- {{}, {"a"}, {"a", "b"}, {"b"}},
    MaxFaults <- 3,
    rec <- v1, op <- v2, files <- v3, stale <- v4, faults <- v5,
    unanswered <- v6

Publisher == INSTANCE ReleasePublisher WITH
    Plugins <- {"p1", "p2"}, Core <- "core", Builds <- {"b1", "b2"},
    Broken <- broken, PriorSequence <- 1, MaxSequence <- 3, MaxRuns <- 3,
    MaxFaults <- 2,
    remote <- v1, job <- v2, runs <- v3, faults <- v4

(* The variables that a component leaves alone.                             *)
Idle6 == v7 = 0 /\ v8 = 0 /\ v9 = 0
Idle4 == v5 = 0 /\ v6 = 0 /\ Idle6
Idle0 == v1 = 0 /\ v2 = 0 /\ v3 = 0 /\ v4 = 0 /\ Idle4

Rest6 == <<v7, v8, v9>>
Rest4 == <<v5, v6, Rest6>>
Rest0 == <<v1, v2, v3, v4, Rest4>>
all == <<part, vars, Rest0>>

(* The bounds of these components let them come to a stop.                  *)
MayStop == {"Config", "Checkpoints", "Service", "Setup", "Assets", "Publisher"}

MCInit ==
    /\ part \in Parts /\ Init
    /\ \/ part = "Checkpoints" /\ Idle0
       \/ part = "Config" /\ Config!Init /\ Idle6
       \/ part = "Installer" /\ Installer!Init
       \/ part = "Service" /\ Service!Init /\ Idle6
       \/ part = "Setup" /\ Setup!Init /\ Idle4
       \/ part = "Assets" /\ Assets!Init /\ Idle6
       \/ part = "Publisher" /\ Publisher!Init /\ Idle4

MCNext ==
    /\ UNCHANGED part
    /\ \/ part = "Checkpoints" /\ Next /\ UNCHANGED Rest0
       \/ /\ UNCHANGED vars
          /\ \/ part = "Config" /\ Config!Next /\ UNCHANGED Rest6
             \/ part = "Installer" /\ Installer!Next
             \/ part = "Service" /\ Service!Next /\ UNCHANGED Rest6
             \/ part = "Setup" /\ Setup!Next /\ UNCHANGED Rest4
             \/ part = "Assets" /\ Assets!Next /\ UNCHANGED Rest6
             \/ part = "Publisher" /\ Publisher!Next /\ UNCHANGED Rest4
       \/ part \in MayStop /\ UNCHANGED all

MCSpec == MCInit /\ [][MCNext]_all

ASSUME CheckpointAssumption /\ Installer!InstallerAssumption

----------------------------------------------------------------------------
(* The generation of an app identifies its configuration and its package.   *)
GenerationIdentifies == part = "Config" => Config!GenerationIdentifies

(* Wherever an installation was interrupted, its packages are there,        *)
(* recovery can tell which way it went, configuration and install state     *)
(* agree afterwards, and what was reported as done stays done.              *)
InstallSurvives ==
    part = "Installer" =>
        /\ Installer!TypeOK
        /\ Installer!PackagesKept
        /\ Installer!Recoverable
        /\ Installer!Agreement
        /\ Installer!SuccessKept

(* An operation on the login service answers what it did, and destroys no   *)
(* edit that it did not read.                                               *)
AnswersTrue == part = "Service" => Service!AnswersTrue

(* Setup reports every effect that it leaves behind.                        *)
SetupTruthful == part = "Setup" => Setup!SetupTruthful

(* An app whose assets are ready finds them on the device, except for a     *)
(* file whose removal took effect and was not answered.                     *)
ReadyIsStored == part = "Assets" => Assets!ReadyIsStoredIfAnswered

(* A published catalog resolves to published plugin releases.               *)
CatalogResolves == part = "Publisher" => Publisher!CatalogResolves
=============================================================================
