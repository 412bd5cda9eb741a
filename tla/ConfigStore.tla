----------------------------- MODULE ConfigStore -----------------------------
(***************************************************************************)
(* The configuration document (internal/config/store.go): a file that is   *)
(* replaced as a whole, from generation g to g + 1, by a writer that has   *)
(* found it at g.  A Store serializes the writers of one process by a      *)
(* mutex; the daemon has one and the setup command, a process of its own   *)
(* that runs beside the daemon (cmd/bsbctl/setup.go), has another.         *)
(*                                                                         *)
(* A document has a generation, the device's token reference, the version  *)
(* of the plugin package, and per app its configuration with the           *)
(* generation it got it in (None: no such app).                            *)
(***************************************************************************)
EXTENDS Integers, FiniteSets

CONSTANTS Apps, Configs, Packages, Tokens, MaxGeneration, MaxFaults, MaxCrashes, None

VARIABLES
    file,       \* content: the document that is read now; durable: those a crash may leave
    writer,     \* process -> the replacement between its check and its rename, or None
    used,       \* faults and crashes so far
    accepted,   \* ghost: every <<app, generation, configuration, package>> ever in force
    held,       \* process -> the document it holds in memory, None for none
    excepted    \* ghost: what made generations unreliable, "crash" or "overtaken"

vars == <<file, writer, used, accepted, held, excepted>>

Processes == {"daemon", "setup"}

InForce(document) ==
    {<<a, document.apps[a].generation, document.apps[a].config, document.package>> :
        a \in {b \in Apps : document.apps[b] # None}}

Init ==
    \E p \in Packages, t \in Tokens :
       LET document == [generation |-> 1, token |-> t, package |-> p, apps |-> [a \in Apps |-> None]] IN
       /\ file = [content |-> document, durable |-> {document}]
       /\ writer = [p_ \in Processes |-> None]
       /\ used = [faults |-> 0, crashes |-> 0]
       /\ held = [p_ \in Processes |-> IF p_ = "daemon" THEN document ELSE None]
       /\ accepted = {} /\ excepted = {}

----------------------------------------------------------------------------
(* assignAppGenerations: an app keeps its generation when neither it nor    *)
(* its plugin package changed.                                              *)
UnchangedApp(old, new, a) ==
    old.apps[a] # None /\ old.apps[a].config = new.apps[a]
Unchanged(old, new, a) ==
    /\ old.apps[a] # None
    /\ old.apps[a].config = new.apps[a]
    /\ old.package = new.package
Assigned(old, new) ==
    [generation |-> old.generation + 1, token |-> new.token, package |-> new.package,
     apps |-> [a \in Apps |->
        IF new.apps[a] = None THEN None
        ELSE [config |-> new.apps[a],
              generation |-> IF Unchanged(old, new, a) THEN old.apps[a].generation
                             ELSE old.generation + 1]]]

Wanted(document) == [token |-> document.token, package |-> document.package,
                     apps |-> [a \in Apps |-> IF document.apps[a] = None THEN None
                                              ELSE document.apps[a].config]]

(* What the daemon's operations ask for: an app created, changed or        *)
(* deleted, or its package replaced.                                       *)
Mutations(document) ==
    LET wanted == Wanted(document) IN
    {[wanted EXCEPT !.apps[a] = c] : a \in Apps, c \in Configs \cup {None}}
       \cup {[wanted EXCEPT !.package = p] : p \in Packages}

(* Update: the file must be at the generation of the document the daemon   *)
(* runs with; the mutation is applied to what the file holds.              *)
Update ==
    /\ writer["daemon"] = None
    /\ held["daemon"].generation = file.content.generation
    /\ file.content.generation < MaxGeneration
    /\ \E wanted \in Mutations(file.content) :
          /\ wanted # Wanted(file.content)
          /\ writer' = [writer EXCEPT !["daemon"] = [expected |-> file.content.generation,
                                                     next |-> Assigned(file.content, wanted)]]
    /\ UNCHANGED <<file, used, accepted, held, excepted>>

(* ensureSetupConfiguration: setup reads the document, provisions the      *)
(* token, and replaces the document it read, with the other reference.     *)
SetupLoad ==
    /\ writer["setup"] = None /\ held["setup"] = None
    /\ held' = [held EXCEPT !["setup"] = file.content]
    /\ UNCHANGED <<file, writer, used, accepted, excepted>>

(* replaceLocked: the check of the generation, or the conflict.            *)
SetupReplace ==
    /\ writer["setup"] = None /\ held["setup"] # None
    /\ held' = [held EXCEPT !["setup"] = None]
    /\ \/ /\ held["setup"].generation # file.content.generation
          /\ UNCHANGED writer
       \/ /\ held["setup"].generation = file.content.generation
          /\ file.content.generation < MaxGeneration
          /\ \E t \in Tokens \ {held["setup"].token} :
                writer' = [writer EXCEPT !["setup"] =
                   [expected |-> held["setup"].generation,
                    next |-> Assigned(file.content, [Wanted(held["setup"]) EXCEPT !.token = t])]]
    /\ UNCHANGED <<file, used, accepted, excepted>>

(* write: the rename and the sync of the directory.  The daemon goes on    *)
(* with what it committed (acceptDocument).                                *)
Commit(p, next, durable) ==
    /\ file' = [content |-> next, durable |-> durable]
    /\ accepted' = accepted \cup InForce(next)
    /\ held' = IF p = "daemon" THEN [held EXCEPT ![p] = next] ELSE held
    /\ excepted' = excepted \cup
          IF file.content.generation = writer[p].expected THEN {} ELSE {"overtaken"}

Write(p) ==
    /\ writer[p] # None
    /\ \/ Commit(p, writer[p].next, {writer[p].next}) /\ UNCHANGED used
       \/ /\ used.faults < MaxFaults /\ used' = [used EXCEPT !.faults = @ + 1]
          /\ \/ UNCHANGED <<file, accepted, held, excepted>>
             \/ Commit(p, writer[p].next, file.durable \cup {writer[p].next})
    /\ writer' = [writer EXCEPT ![p] = None]

(* The daemon is restarted (setup does so itself) and loads the document.  *)
Restart ==
    /\ writer["daemon"] = None /\ held["daemon"] # file.content
    /\ held' = [held EXCEPT !["daemon"] = file.content]
    /\ UNCHANGED <<file, writer, used, accepted, excepted>>

Crash ==
    /\ used.crashes < MaxCrashes /\ used' = [used EXCEPT !.crashes = @ + 1]
    /\ \E document \in file.durable :
          /\ file' = [content |-> document, durable |-> {document}]
          /\ held' = [p \in Processes |-> IF p = "daemon" THEN document ELSE None]
          /\ excepted' = excepted \cup IF document = file.content THEN {} ELSE {"crash"}
    /\ writer' = [p \in Processes |-> None]
    /\ UNCHANGED accepted

Next == Update \/ SetupLoad \/ SetupReplace \/ (\E p \in Processes : Write(p)) \/ Restart \/ Crash

Spec == Init /\ [][Next]_vars

----------------------------------------------------------------------------
(* The generation of an app identifies what it runs with: over every        *)
(* sequence of replacements by the daemon and by setup, two documents that  *)
(* give an app the same generation give it the same configuration and the   *)
(* same package (checkpoints, observations and acknowledgements are kept    *)
(* under that generation).  Excepted are a crash that brings an older       *)
(* document back, after a replacement whose durability was not confirmed,   *)
(* and a replacement overtaken by one of the other process, which undoes it *)
(* (ReplacesExpected).                                                      *)
GenerationIdentifies ==
    excepted = {} => \A x, y \in accepted : x[1] = y[1] /\ x[2] = y[2] => x = y

(* "ReplaceWithOutcome persists next only when the current generation       *)
(* equals expected" (internal/config/store.go:157): no replacement is made  *)
(* over a document other than the one it was derived from.                  *)
ReplacesExpected == "overtaken" \notin excepted
=============================================================================
