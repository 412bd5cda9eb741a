--------------------------- MODULE DaemonRunProofs ---------------------------
(***************************************************************************)
(* Proofs about DaemonRun, for every set of processes and every bound.      *)
(***************************************************************************)
EXTENDS DaemonRun, TLAPS

Stages == {"gone", "recover", "own", "device", "load", "probe", "bind", "serve", "peers",
           "calls", "unwind"}

(* What a process still has to undo is always an initial part of this list.  *)
Phases == <<"lease", "device", "logs", "service", "relays">>
UndoTo(n) == [i \in 1 .. n |-> Phases[i]]
Undos == {UndoTo(n) : n \in 0 .. 5}

Flag == BOOLEAN
Count == {0, 1}
Overruns == SUBSET {"device", "service"}

Process ==
    [stage : Stages, undo : Undos, inflight : Flag, output : Flag, listening : Flag,
     peers : Count, calls : Count, closing : Flag, plugins : Flag, overran : Overruns]

(* The process holds what phase n of the list undoes.                        *)
Holds(r, n) == \E m \in n .. 5 : r.undo = UndoTo(m)

(* What is registered to be undone follows from the stage, and what a       *)
(* process holds from what is registered.                                   *)
StageUndo(r) ==
    /\ r.stage \in {"gone", "recover", "own"} => r.undo = UndoTo(0)
    /\ r.stage = "device" => r.undo = UndoTo(1)
    /\ r.stage \in {"load", "probe", "bind", "serve", "peers", "calls"} => r.undo = UndoTo(5)
HeldPhases(r) ==
    /\ r.output => Holds(r, 2)
    /\ r.inflight => Holds(r, 2) \/ "device" \in r.overran
    /\ r.plugins => Holds(r, 4) \/ "service" \in r.overran
Calls(r) ==
    /\ r.stage \notin {"serve", "peers"} => r.peers = 0
    /\ r.stage \notin {"serve", "peers", "calls"} => r.calls = 0

ProcessInv(r) == r \in Process /\ StageUndo(r) /\ HeldPhases(r) /\ Calls(r)

DaemonInv ==
    /\ proc \in [Procs -> Process]
    /\ \A p \in Procs :
         /\ ProcessInv(proc[p])
         /\ Holds(proc[p], 1) => lease = p
         /\ At(p, "serve") => socket = p

----------------------------------------------------------------------------
(* The list of what is to be undone                                          *)

LEMMA UndoLists ==
    /\ UndoTo(0) = <<>>
    /\ UndoTo(0) \o <<"lease">> = UndoTo(1)
    /\ UndoTo(1) \o <<"device", "logs", "service", "relays">> = UndoTo(5)
BY DEF UndoTo, Phases

LEMMA UndoEntries ==
    ASSUME NEW n \in 0 .. 5
    PROVE  /\ Len(UndoTo(n)) = n
           /\ \A i \in 1 .. n : UndoTo(n)[i] = Phases[i]
BY DEF UndoTo, Phases

LEMMA UndoTyped == \A n \in 0 .. 5 : UndoTo(n) \in Undos
BY DEF Undos

LEMMA Typed ==
    /\ TRUE \in Flag /\ FALSE \in Flag /\ 0 \in Count /\ 1 \in Count /\ {} \in Overruns
    /\ \A s \in {"gone", "recover", "own", "device", "load", "probe", "bind", "serve", "peers",
                  "calls", "unwind"} : s \in Stages
    /\ \A o \in Overruns : o \cup {"device"} \in Overruns /\ o \cup {"service"} \in Overruns
    /\ UndoTo(0) \in Undos /\ UndoTo(1) \in Undos /\ UndoTo(5) \in Undos
BY UndoTyped DEF Flag, Count, Overruns, Stages

LEMMA UndoDistinct == \A m, n \in 0 .. 5 : UndoTo(m) = UndoTo(n) => m = n
BY UndoEntries

LEMMA HoldsUpTo ==
    ASSUME NEW r, NEW n \in 0 .. 5, r.undo = UndoTo(n)
    PROVE  (Holds(r, 1) <=> 1 <= n) /\ (Holds(r, 2) <=> 2 <= n) /\ (Holds(r, 4) <=> 4 <= n)
BY UndoDistinct DEF Holds

LEMMA HoldsSame ==
    ASSUME NEW r, NEW s, s.undo = r.undo
    PROVE  (Holds(s, 1) <=> Holds(r, 1)) /\ (Holds(s, 2) <=> Holds(r, 2))
             /\ (Holds(s, 4) <=> Holds(r, 4))
BY DEF Holds

LEMMA GoneTyped == Gone \in Process /\ Gone.undo = UndoTo(0)
<1>1. UndoTo(0) \in Undos
  BY Typed
<1>. QED
  BY Zenon, <1>1, Typed, UndoLists DEF Gone, Process

(* Undoing the latest phase leaves the list of those before it.              *)
LEMMA UndoLatest ==
    ASSUME NEW n \in 1 .. 5
    PROVE  SubSeq(UndoTo(n), 1, Len(UndoTo(n)) - 1) = UndoTo(n - 1)
BY UndoEntries DEF UndoTo, Phases

(* Undoing a phase of an unwinding process.                                  *)
LEMMA UndoneSteps ==
    ASSUME NEW p \in Procs, NEW phase, DaemonInv, Doing(p, phase)
    PROVE  \E n \in 1 .. 5 :
              /\ phase = Phases[n] /\ proc[p].undo = UndoTo(n)
              /\ Undone(p) = [proc[p] EXCEPT !.undo = UndoTo(n - 1)]
<1>1. proc[p] \in Process
  BY DEF DaemonInv
<1>2. PICK n \in 0 .. 5 : proc[p].undo = UndoTo(n)
  BY <1>1 DEF Process, Undos
<1>3. n # 0
  BY <1>2, UndoLists DEF Doing
<1>4. phase = Phases[n]
  <2>0. n \in 1 .. n
    BY <1>3
  <2>1. Len(UndoTo(n)) = n /\ UndoTo(n)[n] = Phases[n]
    BY Zenon, <2>0, UndoEntries
  <2>. QED
    BY <1>2, <2>1 DEF Doing, Latest
<1>5. Undone(p) = [proc[p] EXCEPT !.undo = UndoTo(n - 1)]
  <2>1. SubSeq(proc[p].undo, 1, Len(proc[p].undo) - 1) = UndoTo(n - 1)
    <3>1. n \in 1 .. 5
      BY <1>3
    <3>. QED
      BY <1>2, <3>1, UndoLatest, Zenon
  <2>. QED
    BY <2>1, Zenon DEF Undone
<1>. QED
  BY <1>2, <1>3, <1>4, <1>5

----------------------------------------------------------------------------
(* A step of a process keeps what is claimed of that process                 *)

Kept(p) ==
    /\ ProcessInv(proc[p])
    /\ Holds(proc[p], 1) => lease = p
    /\ At(p, "serve") => socket = p

(* A step that leaves what is to be undone, and one that leaves the list n. *)
LEMMA SameUndo ==
    ASSUME NEW p \in Procs, proc[p] \in Process, proc'[p].undo = proc[p].undo
    PROVE  /\ Holds(proc'[p], 1) <=> Holds(proc[p], 1)
           /\ Holds(proc'[p], 2) <=> Holds(proc[p], 2)
           /\ Holds(proc'[p], 4) <=> Holds(proc[p], 4)
BY HoldsSame

LEMMA NewUndo ==
    ASSUME NEW p \in Procs, NEW n \in 0 .. 5, proc'[p].undo = UndoTo(n)
    PROVE  /\ Holds(proc'[p], 1) <=> 1 <= n
           /\ Holds(proc'[p], 2) <=> 2 <= n
           /\ Holds(proc'[p], 4) <=> 4 <= n
BY HoldsUpTo

LEMMA OldUndo ==
    ASSUME NEW p \in Procs, NEW n \in 0 .. 5, proc[p].undo = UndoTo(n)
    PROVE  /\ Holds(proc[p], 1) <=> 1 <= n
           /\ Holds(proc[p], 2) <=> 2 <= n
           /\ Holds(proc[p], 4) <=> 4 <= n
BY HoldsUpTo

(* An error of a stage: the process unwinds what it has.                     *)
LEMMA Failing ==
    ASSUME NEW p \in Procs, proc \in [Procs -> Process], Kept(p), proc' = Unwind(p),
           ~At(p, "serve"), proc[p].peers = 0, proc[p].calls = 0, UNCHANGED lease
    PROVE  Kept(p)'
<1>1. /\ proc'[p] = [proc[p] EXCEPT !.stage = "unwind"]
      /\ proc'[p] \in Process /\ proc'[p].undo = proc[p].undo
  BY Typed DEF Unwind, Process
<1>2. /\ Holds(proc'[p], 1) <=> Holds(proc[p], 1)
      /\ Holds(proc'[p], 2) <=> Holds(proc[p], 2)
      /\ Holds(proc'[p], 4) <=> Holds(proc[p], 4)
  BY Zenon, <1>1, SameUndo
<1>. QED
  BY <1>1, <1>2 DEF At, Kept, ProcessInv, Process, StageUndo, HeldPhases, Calls

SameWork(t, r) ==
    /\ t.inflight = r.inflight /\ t.output = r.output /\ t.plugins = r.plugins
    /\ t.overran = r.overran /\ t.peers = r.peers /\ t.calls = r.calls

LEMMA Forward ==
    ASSUME NEW p \in Procs, DaemonInv,
           Start(p) \/ Recover(p) \/ Acquire(p) \/ OpenDevice(p) \/ Load(p) \/ Probe(p)
             \/ Bind(p) \/ Stop(p) \/ JoinPeers(p) \/ JoinCalls(p)
    PROVE  Kept(p)'
<1>1. proc \in [Procs -> Process] /\ Kept(p)
  BY DEF DaemonInv, Kept
<1>2. /\ At(p, "own") \/ At(p, "recover") => proc[p].undo = UndoTo(0)
      /\ At(p, "device") => proc[p].undo = UndoTo(1)
      /\ At(p, "load") \/ At(p, "bind") => proc[p].undo = UndoTo(5)
      /\ At(p, "recover") \/ At(p, "own") \/ At(p, "device") \/ At(p, "load")
           \/ At(p, "probe") \/ At(p, "bind") => proc[p].peers = 0 /\ proc[p].calls = 0
  BY <1>1 DEF At, Kept, ProcessInv, StageUndo, Calls
<1>3. CASE Start(p)
  <2>1. proc'[p] = [Gone EXCEPT !.stage = "recover"]
    BY <1>1, <1>3 DEF Start
  <2>2. proc'[p] \in Process /\ proc'[p].undo = UndoTo(0)
    BY <2>1, GoneTyped, Typed DEF Process
  <2>3. ~Holds(proc'[p], 1) /\ ~Holds(proc'[p], 2) /\ ~Holds(proc'[p], 4)
    BY <2>2, NewUndo
  <2>. QED
    BY <2>1, <2>2, <2>3 DEF Gone, At, Kept, ProcessInv, StageUndo, HeldPhases, Calls
<1>4. CASE Recover(p)
  <2>1. CASE proc' = [proc EXCEPT ![p].stage = "own"]
    <3>1. proc'[p] = [proc[p] EXCEPT !.stage = "own"]
      BY <1>1, <1>2, <1>4, <2>1 DEF Recover
    <3>2. proc'[p] \in Process /\ proc'[p].undo = proc[p].undo
      BY <1>1, <3>1, Typed DEF Process
    <3>3. /\ Holds(proc'[p], 1) <=> Holds(proc[p], 1)
          /\ Holds(proc'[p], 2) <=> Holds(proc[p], 2)
          /\ Holds(proc'[p], 4) <=> Holds(proc[p], 4)
      BY <1>1, <3>2, SameUndo
    <3>. QED
      BY <1>1, <1>2, <1>4, <2>1, <3>1, <3>2, <3>3
      DEF Recover, At, Kept, ProcessInv, Process, StageUndo, HeldPhases, Calls
  <2>2. CASE Fails(p)
    BY <1>1, <1>2, <1>4, <2>2, Failing DEF Recover, Fails, At
  <2>. QED
    BY <1>4, <2>1, <2>2 DEF Recover, Fails
<1>5. CASE Acquire(p)
  <2>1. CASE Lock(p) /\ proc' = [proc EXCEPT ![p] = To(p, "device", <<"lease">>)]
    <3>1. proc'[p] = [proc[p] EXCEPT !.stage = "device", !.undo = UndoTo(1)]
      BY Zenon, <1>1, <1>2, <1>5, <2>1, UndoLists DEF Acquire, To, Process
    <3>0. "device" \in Stages /\ UndoTo(1) \in Undos
      BY Typed
    <3>2. proc'[p] \in Process /\ proc'[p].undo = UndoTo(1) /\ proc'[p].stage = "device"
      BY Zenon, <1>1, <3>0, <3>1 DEF Process
    <3>4. SameWork(proc'[p], proc[p])
      BY <1>1, <3>1 DEF Process, SameWork
    <3>5. ~Holds(proc[p], 1) /\ ~Holds(proc[p], 2) /\ ~Holds(proc[p], 4)
      BY <1>2, <1>5, OldUndo DEF Acquire
    <3>3. Holds(proc'[p], 1) /\ ~Holds(proc'[p], 2) /\ ~Holds(proc'[p], 4)
      BY <3>2, NewUndo
    <3>. QED
      BY <1>1, <1>2, <1>5, <2>1, <3>2, <3>3, <3>4, <3>5
      DEF Acquire, Lock, At, SameWork, Kept, ProcessInv, StageUndo, HeldPhases, Calls
  <2>2. CASE proc' = Unwind(p) /\ UNCHANGED lease
    BY <1>1, <1>2, <1>5, <2>2, Failing DEF Acquire, At
  <2>. QED
    BY <1>5, <2>1, <2>2 DEF Acquire, Fails
<1>6. CASE OpenDevice(p)
  <2>1. CASE 
           proc' = [proc EXCEPT ![p] = [To(p, "load", <<"device", "logs", "service", "relays">>)
                                          EXCEPT !.output = TRUE]]
    <3>1. proc'[p] = [proc[p] EXCEPT !.stage = "load", !.undo = UndoTo(5), !.output = TRUE]
      BY Zenon, <1>1, <1>2, <1>6, <2>1, UndoLists DEF OpenDevice, To, Process
    <3>2. proc'[p] \in Process /\ proc'[p].undo = UndoTo(5)
      BY Zenon, <1>1, <3>1, Typed DEF Process
    <3>3. Holds(proc'[p], 1) /\ Holds(proc'[p], 2) /\ Holds(proc'[p], 4)
      BY <3>2, NewUndo
    <3>4. /\ proc'[p].stage = "load" /\ proc'[p].peers = 0 /\ proc'[p].calls = 0
          /\ Holds(proc[p], 1) /\ lease' = lease
      BY <1>1, <1>2, <1>6, <3>1, OldUndo DEF OpenDevice, Process
    <3>. QED
      BY <1>1, <3>2, <3>3, <3>4 DEF At, Kept, ProcessInv, StageUndo, HeldPhases, Calls
  <2>2. CASE Fails(p)
    BY <1>1, <1>2, <1>6, <2>2, Failing DEF OpenDevice, Fails, At
  <2>. QED
    BY <1>6, <2>1, <2>2 DEF OpenDevice, Fails
<1>7. CASE Load(p)
  <2>1. PICK s \in {"probe", "unwind"} : proc'[p] = [proc[p] EXCEPT !.stage = s, !.plugins = TRUE]
    BY Zenon, <1>1, <1>7 DEF Load, Unwind
  <2>2. proc'[p] \in Process /\ proc'[p].undo = UndoTo(5)
    BY ZenonT(30), <1>1, <1>2, <1>7, <2>1, Typed DEF Load, Process
  <2>3. Holds(proc'[p], 1) /\ Holds(proc'[p], 2) /\ Holds(proc'[p], 4) /\ Holds(proc[p], 1)
    BY <1>2, <1>7, <2>2, NewUndo, OldUndo DEF Load
  <2>. QED
    BY <1>1, <1>2, <1>7, <2>1, <2>2, <2>3
    DEF Load, At, Kept, ProcessInv, Process, StageUndo, HeldPhases, Calls
<1>8. CASE Probe(p)
  <2>1. CASE proc' = [proc EXCEPT ![p].stage = "bind"]
    <3>1. proc'[p] = [proc[p] EXCEPT !.stage = "bind"]
      BY <1>1, <1>2, <1>8, <2>1 DEF Probe
    <3>2. proc'[p] \in Process /\ proc'[p].undo = proc[p].undo
      BY <1>1, <3>1, Typed DEF Process
    <3>3. /\ Holds(proc'[p], 1) <=> Holds(proc[p], 1)
          /\ Holds(proc'[p], 2) <=> Holds(proc[p], 2)
          /\ Holds(proc'[p], 4) <=> Holds(proc[p], 4)
      BY <1>1, <3>2, SameUndo
    <3>. QED
      BY <1>1, <1>2, <1>8, <2>1, <3>1, <3>2, <3>3
      DEF Probe, At, Kept, ProcessInv, Process, StageUndo, HeldPhases, Calls
  <2>2. CASE proc' = Unwind(p)
    BY <1>1, <1>2, <1>8, <2>2, Failing DEF Probe, At
  <2>. QED
    BY <1>8, <2>1, <2>2 DEF Probe, Fails
<1>9. CASE Bind(p)
  <2>1. CASE proc' = [proc EXCEPT ![p].stage = "serve", ![p].listening = TRUE] /\ socket' = p
    <3>1. proc'[p] = [proc[p] EXCEPT !.stage = "serve", !.listening = TRUE]
      BY <1>1, <1>2, <1>9, <2>1 DEF Bind
    <3>2. proc'[p] \in Process /\ proc'[p].undo = proc[p].undo
      BY ZenonT(30), <1>1, <3>1, Typed DEF Process
    <3>3. /\ Holds(proc'[p], 1) <=> Holds(proc[p], 1)
          /\ Holds(proc'[p], 2) <=> Holds(proc[p], 2)
          /\ Holds(proc'[p], 4) <=> Holds(proc[p], 4)
      BY <1>1, <3>2, SameUndo
    <3>. QED
      BY <1>1, <1>2, <1>9, <2>1, <3>1, <3>2, <3>3
      DEF Bind, At, Kept, ProcessInv, Process, StageUndo, HeldPhases, Calls
  <2>2. CASE Fails(p)
    BY <1>1, <1>2, <1>9, <2>2, Failing DEF Bind, Fails, At
  <2>. QED
    BY <1>9, <2>1, <2>2 DEF Bind, Fails
<1>10. CASE Stop(p)
  <2>1. proc'[p] = [proc[p] EXCEPT !.stage = "peers", !.listening = FALSE]
    BY <1>1, <1>10 DEF Stop
  <2>2. proc'[p] \in Process /\ proc'[p].undo = proc[p].undo
    BY Zenon, <1>1, <2>1, Typed DEF Process
  <2>3. /\ Holds(proc'[p], 1) <=> Holds(proc[p], 1)
        /\ Holds(proc'[p], 2) <=> Holds(proc[p], 2)
        /\ Holds(proc'[p], 4) <=> Holds(proc[p], 4)
    BY <1>1, <2>2, SameUndo
  <2>. QED
    BY <1>1, <1>2, <1>10, <2>1, <2>2, <2>3
    DEF Stop, At, Kept, ProcessInv, Process, StageUndo, HeldPhases, Calls
<1>11. CASE JoinPeers(p)
  <2>1. proc'[p] = [proc[p] EXCEPT !.stage = "calls", !.closing = TRUE]
    BY <1>1, <1>11 DEF JoinPeers
  <2>2. proc'[p] \in Process /\ proc'[p].undo = proc[p].undo
    BY ZenonT(30), <1>1, <2>1, Typed DEF Process
  <2>3. /\ Holds(proc'[p], 1) <=> Holds(proc[p], 1)
        /\ Holds(proc'[p], 2) <=> Holds(proc[p], 2)
        /\ Holds(proc'[p], 4) <=> Holds(proc[p], 4)
    BY <1>1, <2>2, SameUndo
  <2>. QED
    BY <1>1, <1>2, <1>11, <2>1, <2>2, <2>3
    DEF JoinPeers, At, Kept, ProcessInv, Process, StageUndo, HeldPhases, Calls
<1>12. CASE JoinCalls(p)
  <2>1. proc[p].peers = 0 /\ proc[p].calls = 0 /\ ~At(p, "serve")
    BY <1>1, <1>12 DEF JoinCalls, At, Kept, ProcessInv, Calls
  <2>. QED
    BY <1>1, <1>12, <2>1, Failing DEF JoinCalls
<1>. QED
  BY <1>3, <1>4, <1>5, <1>6, <1>7, <1>8, <1>9, <1>10, <1>11, <1>12

LEMMA Serving ==
    ASSUME NEW p \in Procs, DaemonInv,
           BeginOperation(p) \/ EndOperation(p) \/ Connect(p) \/ BeginCall(p) \/ EndCall(p)
             \/ Disconnect(p)
    PROVE  Kept(p)'
<1>1. proc \in [Procs -> Process] /\ Kept(p)
  BY DEF DaemonInv, Kept
<1>2. lease' = lease /\ socket' = socket
  BY DEF BeginOperation, EndOperation, Connect, BeginCall, EndCall, Disconnect
<1>3. CASE BeginOperation(p)
  <2>1. proc'[p] = [proc[p] EXCEPT !.inflight = TRUE]
    BY <1>1, <1>3 DEF BeginOperation
  <2>2. proc'[p] \in Process /\ proc'[p].undo = proc[p].undo
    BY Zenon, <1>1, <2>1, Typed DEF Process
  <2>3. /\ Holds(proc'[p], 1) <=> Holds(proc[p], 1)
        /\ Holds(proc'[p], 2) <=> Holds(proc[p], 2)
        /\ Holds(proc'[p], 4) <=> Holds(proc[p], 4)
    BY <1>1, <2>2, SameUndo
  <2>. QED
    BY <1>1, <1>2, <1>3, <2>1, <2>2, <2>3
    DEF BeginOperation, At, Kept, ProcessInv, Process, StageUndo, HeldPhases, Calls
<1>4. CASE EndOperation(p)
  <2>1. proc'[p] = [proc[p] EXCEPT !.inflight = FALSE]
    BY <1>1, <1>4 DEF EndOperation
  <2>2. proc'[p] \in Process /\ proc'[p].undo = proc[p].undo
    BY ZenonT(30), <1>1, <2>1, Typed DEF Process
  <2>3. /\ Holds(proc'[p], 1) <=> Holds(proc[p], 1)
        /\ Holds(proc'[p], 2) <=> Holds(proc[p], 2)
        /\ Holds(proc'[p], 4) <=> Holds(proc[p], 4)
    BY <1>1, <2>2, SameUndo
  <2>. QED
    BY <1>1, <1>2, <1>4, <2>1, <2>2, <2>3
    DEF EndOperation, At, Kept, ProcessInv, Process, StageUndo, HeldPhases, Calls
<1>5. CASE Connect(p)
  <2>1. proc'[p] = [proc[p] EXCEPT !.peers = 1]
    BY <1>1, <1>5 DEF Connect
  <2>2. proc'[p] \in Process /\ proc'[p].undo = proc[p].undo
    BY <1>1, <2>1, Typed DEF Process
  <2>3. /\ Holds(proc'[p], 1) <=> Holds(proc[p], 1)
        /\ Holds(proc'[p], 2) <=> Holds(proc[p], 2)
        /\ Holds(proc'[p], 4) <=> Holds(proc[p], 4)
    BY <1>1, <2>2, SameUndo
  <2>. QED
    BY <1>1, <1>2, <1>5, <2>1, <2>2, <2>3
    DEF Connect, At, Kept, ProcessInv, Process, StageUndo, HeldPhases, Calls
<1>6. CASE BeginCall(p)
  <2>1. proc'[p] = [proc[p] EXCEPT !.calls = 1]
    BY <1>1, <1>6 DEF BeginCall
  <2>2. proc'[p] \in Process /\ proc'[p].undo = proc[p].undo
    BY <1>1, <2>1, Typed DEF Process
  <2>3. /\ Holds(proc'[p], 1) <=> Holds(proc[p], 1)
        /\ Holds(proc'[p], 2) <=> Holds(proc[p], 2)
        /\ Holds(proc'[p], 4) <=> Holds(proc[p], 4)
    BY <1>1, <2>2, SameUndo
  <2>. QED
    BY <1>1, <1>2, <1>6, <2>1, <2>2, <2>3
    DEF BeginCall, At, Kept, ProcessInv, Process, StageUndo, HeldPhases, Calls
<1>7. CASE EndCall(p)
  <2>1. proc'[p] = [proc[p] EXCEPT !.calls = 0]
    BY <1>1, <1>7 DEF EndCall
  <2>2. proc'[p] \in Process /\ proc'[p].undo = proc[p].undo
    BY <1>1, <2>1, Typed DEF Process
  <2>3. /\ Holds(proc'[p], 1) <=> Holds(proc[p], 1)
        /\ Holds(proc'[p], 2) <=> Holds(proc[p], 2)
        /\ Holds(proc'[p], 4) <=> Holds(proc[p], 4)
    BY <1>1, <2>2, SameUndo
  <2>. QED
    BY <1>1, <1>2, <1>7, <2>1, <2>2, <2>3
    DEF EndCall, At, Kept, ProcessInv, Process, StageUndo, HeldPhases, Calls
<1>8. CASE Disconnect(p)
  <2>1. proc'[p] = [proc[p] EXCEPT !.peers = 0]
    BY <1>1, <1>8 DEF Disconnect
  <2>2. proc'[p] \in Process /\ proc'[p].undo = proc[p].undo
    BY <1>1, <2>1, Typed DEF Process
  <2>3. /\ Holds(proc'[p], 1) <=> Holds(proc[p], 1)
        /\ Holds(proc'[p], 2) <=> Holds(proc[p], 2)
        /\ Holds(proc'[p], 4) <=> Holds(proc[p], 4)
    BY <1>1, <2>2, SameUndo
  <2>. QED
    BY <1>1, <1>2, <1>8, <2>1, <2>2, <2>3
    DEF Disconnect, At, Kept, ProcessInv, Process, StageUndo, HeldPhases, Calls
<1>. QED
  BY <1>3, <1>4, <1>5, <1>6, <1>7, <1>8

(* A phase is done: what remains to be undone is the list of those before.   *)
LEMMA UndoStep ==
    ASSUME NEW p \in Procs, DaemonInv, At(p, "unwind"), NEW n \in 1 .. 5,
           proc[p].undo = UndoTo(n), proc'[p] \in Process, proc'[p].stage = "unwind",
           proc'[p].undo = UndoTo(n - 1), HeldPhases(proc'[p]),
           proc'[p].peers = proc[p].peers, proc'[p].calls = proc[p].calls,
           UNCHANGED lease \/ n = 1
    PROVE  Kept(p)'
<1>1. Kept(p)
  BY DEF DaemonInv, Kept
<1>2. (Holds(proc[p], 1) <=> 1 <= n) /\ (Holds(proc'[p], 1) <=> 1 <= n - 1)
  BY OldUndo, NewUndo
<1>. QED
  BY <1>1, <1>2 DEF At, Kept, ProcessInv, StageUndo, Calls

LEMMA Unwinding ==
    ASSUME NEW p \in Procs, DaemonInv,
           Simple(p) \/ CloseService(p) \/ CloseOutput(p) \/ JoinOutput(p) \/ Release(p)
             \/ Exit(p) \/ Killed(p)
    PROVE  Kept(p)'
<1>1. proc \in [Procs -> Process] /\ Kept(p) /\ proc[p] \in Process
  BY DEF DaemonInv, Kept
<1>2. CASE Simple(p)
  <2>1. PICK phase \in {"relays", "logs"} : Doing(p, phase)
    BY <1>2 DEF Simple
  <2>2. PICK n \in 1 .. 5 :
           /\ phase = Phases[n] /\ proc[p].undo = UndoTo(n)
           /\ Undone(p) = [proc[p] EXCEPT !.undo = UndoTo(n - 1)]
    BY <2>1, UndoneSteps
  <2>3. n \in {3, 5} /\ UndoTo(n - 1) \in Undos
    BY <2>1, <2>2, UndoTyped DEF Phases
  <2>4. proc'[p] = [proc[p] EXCEPT !.undo = UndoTo(n - 1)]
    BY <1>1, <1>2, <2>2 DEF Simple
  <2>5. /\ proc'[p] \in Process /\ proc'[p].undo = UndoTo(n - 1)
        /\ proc'[p].stage = proc[p].stage /\ SameWork(proc'[p], proc[p])
    BY <1>1, <2>3, <2>4 DEF Process, SameWork
  <2>6. /\ Holds(proc'[p], 2) <=> Holds(proc[p], 2)
        /\ Holds(proc'[p], 4) <=> Holds(proc[p], 4)
    BY <2>2, <2>3, <2>5, OldUndo, NewUndo
  <2>7. HeldPhases(proc'[p])
    BY <1>1, <2>5, <2>6 DEF Kept, ProcessInv, HeldPhases, SameWork
  <2>. QED
    BY <1>2, <2>1, <2>2, <2>5, <2>7, UndoStep DEF Simple, Doing, At, SameWork
<1>3. CASE CloseService(p)
  <2>1. PICK n \in 1 .. 5 :
           /\ "service" = Phases[n] /\ proc[p].undo = UndoTo(n)
           /\ Undone(p) = [proc[p] EXCEPT !.undo = UndoTo(n - 1)]
    BY <1>3, UndoneSteps DEF CloseService
  <2>2. n = 4 /\ UndoTo(3) \in Undos
    BY <2>1, UndoTyped DEF Phases
  <2>3. FALSE \in Flag /\ \A o \in Overruns : o \cup {"service"} \in Overruns
    BY Zenon, Typed
  <2>5. /\ proc'[p] \in Process /\ proc'[p].undo = UndoTo(3) /\ proc'[p].stage = proc[p].stage
        /\ ~proc'[p].plugins \/ "service" \in proc'[p].overran
        /\ proc'[p].inflight = proc[p].inflight /\ proc'[p].output = proc[p].output
        /\ proc'[p].peers = proc[p].peers /\ proc'[p].calls = proc[p].calls
    <3>1. CASE proc' = [proc EXCEPT ![p] = [Undone(p) EXCEPT !.plugins = FALSE]]
      <4>1. proc'[p] = [[proc[p] EXCEPT !.undo = UndoTo(3)] EXCEPT !.plugins = FALSE]
        BY <1>1, <2>1, <2>2, <3>1
      <4>. QED
        BY Zenon, <1>1, <2>2, <2>3, <4>1 DEF Process
    <3>2. CASE proc' = [proc EXCEPT ![p] = Overran(p, "service")]
      <4>1. PICK o \in Overruns : o = proc[p].overran \cup {"service"}
        BY Zenon, <1>1, <2>3 DEF Process
      <4>2. proc'[p] = [[proc[p] EXCEPT !.undo = UndoTo(3)] EXCEPT !.overran = o]
        BY <1>1, <2>1, <2>2, <3>2, <4>1 DEF Overran, Process
      <4>3. /\ proc'[p] \in Process /\ proc'[p].undo = UndoTo(3)
            /\ proc'[p].stage = proc[p].stage /\ proc'[p].overran = o
            /\ proc'[p].inflight = proc[p].inflight /\ proc'[p].output = proc[p].output
            /\ proc'[p].plugins = proc[p].plugins
            /\ proc'[p].peers = proc[p].peers /\ proc'[p].calls = proc[p].calls
        BY Zenon, <1>1, <2>2, <4>2 DEF Process
      <4>. QED
        BY <4>1, <4>3
    <3>. QED
      BY <1>3, <3>1, <3>2 DEF CloseService
  <2>6. Holds(proc'[p], 2)
    BY <2>5, NewUndo
  <2>7. HeldPhases(proc'[p])
    BY <2>5, <2>6 DEF HeldPhases
  <2>. QED
    BY <1>3, <2>1, <2>2, <2>5, <2>7, UndoStep DEF CloseService, Doing, At
<1>4. CASE CloseOutput(p)
  <2>1. proc'[p] = [proc[p] EXCEPT !.output = FALSE]
    BY <1>1, <1>4 DEF CloseOutput
  <2>2. /\ proc'[p] \in Process /\ proc'[p].undo = proc[p].undo /\ proc'[p].stage = proc[p].stage
        /\ proc'[p].output = FALSE
        /\ proc'[p].plugins = proc[p].plugins /\ proc'[p].overran = proc[p].overran
        /\ proc'[p].inflight = proc[p].inflight
        /\ proc'[p].peers = proc[p].peers /\ proc'[p].calls = proc[p].calls
    BY Zenon, <1>1, <2>1, Typed DEF Process
  <2>3. /\ Holds(proc'[p], 1) <=> Holds(proc[p], 1)
        /\ Holds(proc'[p], 2) <=> Holds(proc[p], 2)
        /\ Holds(proc'[p], 4) <=> Holds(proc[p], 4)
    BY <1>1, <2>2, SameUndo
  <2>. QED
    BY <1>1, <1>4, <2>2, <2>3
    DEF CloseOutput, Doing, At, Kept, ProcessInv, StageUndo, HeldPhases, Calls
<1>5. CASE JoinOutput(p)
  <2>1. PICK n \in 1 .. 5 :
           /\ "device" = Phases[n] /\ proc[p].undo = UndoTo(n)
           /\ Undone(p) = [proc[p] EXCEPT !.undo = UndoTo(n - 1)]
    BY <1>5, UndoneSteps DEF JoinOutput
  <2>2. n = 2 /\ UndoTo(1) \in Undos
    BY <2>1, UndoTyped DEF Phases
  <2>3. \A o \in Overruns : o \cup {"device"} \in Overruns
    BY Zenon, Typed
  <2>4. /\ proc'[p] \in Process /\ proc'[p].undo = UndoTo(1) /\ proc'[p].stage = proc[p].stage
        /\ ~proc'[p].inflight \/ "device" \in proc'[p].overran
        /\ proc[p].overran \subseteq proc'[p].overran
        /\ proc'[p].plugins = proc[p].plugins /\ proc'[p].output = proc[p].output
        /\ proc'[p].peers = proc[p].peers /\ proc'[p].calls = proc[p].calls
    <3>1. CASE ~proc[p].inflight /\ proc' = [proc EXCEPT ![p] = Undone(p)]
      <4>1. proc'[p] = [proc[p] EXCEPT !.undo = UndoTo(1)]
        BY <1>1, <2>1, <2>2, <3>1
      <4>. QED
        BY <1>1, <2>2, <3>1, <4>1 DEF Process
    <3>2. CASE proc' = [proc EXCEPT ![p] = Overran(p, "device")]
      <4>1. PICK o \in Overruns : o = proc[p].overran \cup {"device"}
        BY Zenon, <1>1, <2>3 DEF Process
      <4>2. proc'[p] = [[proc[p] EXCEPT !.undo = UndoTo(1)] EXCEPT !.overran = o]
        BY <1>1, <2>1, <2>2, <3>2, <4>1 DEF Overran, Process
      <4>3. /\ proc'[p] \in Process /\ proc'[p].undo = UndoTo(1)
            /\ proc'[p].stage = proc[p].stage /\ proc'[p].overran = o
            /\ proc'[p].inflight = proc[p].inflight /\ proc'[p].output = proc[p].output
            /\ proc'[p].plugins = proc[p].plugins
            /\ proc'[p].peers = proc[p].peers /\ proc'[p].calls = proc[p].calls
        BY Zenon, <1>1, <2>2, <4>2 DEF Process
      <4>. QED
        BY <4>1, <4>3
    <3>. QED
      BY <1>5, <3>1, <3>2 DEF JoinOutput
  <2>5. ~Holds(proc[p], 4)
    BY <2>1, <2>2, OldUndo
  <2>6. HeldPhases(proc'[p])
    BY <1>1, <1>5, <2>4, <2>5 DEF JoinOutput, HeldPhases, Kept, ProcessInv
  <2>. QED
    BY <1>5, <2>1, <2>2, <2>4, <2>6, UndoStep DEF JoinOutput, Doing, At
<1>6. CASE Release(p)
  <2>1. PICK n \in 1 .. 5 :
           /\ "lease" = Phases[n] /\ proc[p].undo = UndoTo(n)
           /\ Undone(p) = [proc[p] EXCEPT !.undo = UndoTo(n - 1)]
    BY <1>6, UndoneSteps DEF Release
  <2>2. n = 1 /\ UndoTo(0) \in Undos
    BY <2>1, UndoTyped DEF Phases
  <2>3. proc'[p] = [proc[p] EXCEPT !.undo = UndoTo(0)]
    BY <1>1, <1>6, <2>1, <2>2 DEF Release
  <2>4. /\ proc'[p] \in Process /\ proc'[p].undo = UndoTo(0)
        /\ proc'[p].stage = proc[p].stage /\ SameWork(proc'[p], proc[p])
    BY <1>1, <2>2, <2>3 DEF Process, SameWork
  <2>5. ~Holds(proc[p], 2) /\ ~Holds(proc[p], 4)
    BY <2>1, <2>2, OldUndo
  <2>6. HeldPhases(proc'[p])
    BY <1>1, <2>4, <2>5 DEF HeldPhases, Kept, ProcessInv, SameWork
  <2>. QED
    BY <1>6, <2>1, <2>2, <2>4, <2>6, UndoStep DEF Release, Doing, At, SameWork
<1>7. CASE Exit(p) \/ Killed(p)
  <2>1. proc'[p] = Gone
    BY <1>1, <1>7 DEF Exit, Killed
  <2>2. proc'[p] \in Process /\ proc'[p].undo = UndoTo(0)
    BY <2>1, GoneTyped
  <2>3. ~Holds(proc'[p], 1) /\ ~Holds(proc'[p], 2) /\ ~Holds(proc'[p], 4)
    BY <2>2, NewUndo
  <2>. QED
    BY <2>1, <2>2, <2>3 DEF Gone, At, Kept, ProcessInv, StageUndo, HeldPhases, Calls
<1>. QED
  BY <1>2, <1>3, <1>4, <1>5, <1>6, <1>7

----------------------------------------------------------------------------
(* A step of a process leaves what is claimed of the others.  It takes the   *)
(* lease only when nobody has it and gives up only its own; and it binds the *)
(* socket holding the lease, which no other process that serves can hold.    *)

StepOf(p) ==
    \/ Start(p) \/ Steps(p) \/ Stop(p) \/ Killed(p) \/ BeginOperation(p) \/ EndOperation(p)
    \/ Connect(p) \/ BeginCall(p) \/ EndCall(p) \/ Disconnect(p)

LEMMA OwnStep ==
    ASSUME NEW p \in Procs, DaemonInv, StepOf(p)
    PROVE  Kept(p)'
BY Forward, Serving, Unwinding DEF StepOf, Steps

LEMMA OtherUnchanged ==
    ASSUME NEW p \in Procs, DaemonInv, StepOf(p)
    PROVE  /\ proc' = [q \in Procs |-> proc'[q]]
           /\ \A q \in Procs \ {p} : proc'[q] = proc[q]
<1>1. proc \in [Procs -> Process]
  BY DEF DaemonInv
<1>2. CASE Start(p) \/ Recover(p) \/ Acquire(p) \/ OpenDevice(p) \/ Load(p) \/ Probe(p)
             \/ Bind(p) \/ Stop(p) \/ JoinPeers(p) \/ JoinCalls(p)
  BY <1>1, <1>2
  DEF Start, Recover, Acquire, OpenDevice, Load, Probe, Bind, Stop, JoinPeers, JoinCalls, Fails, Unwind
<1>3. CASE BeginOperation(p) \/ EndOperation(p) \/ Connect(p) \/ BeginCall(p) \/ EndCall(p)
             \/ Disconnect(p)
  BY <1>1, <1>3 DEF BeginOperation, EndOperation, Connect, BeginCall, EndCall, Disconnect
<1>4. CASE Simple(p) \/ CloseService(p) \/ CloseOutput(p) \/ JoinOutput(p) \/ Release(p)
             \/ Exit(p) \/ Killed(p)
  BY <1>1, <1>4 DEF Simple, CloseService, CloseOutput, JoinOutput, Release, Exit, Killed
<1>. QED
  BY <1>2, <1>3, <1>4 DEF StepOf, Steps

LEMMA LeaseMoves ==
    ASSUME NEW p \in Procs, DaemonInv, StepOf(p)
    PROVE  lease' = lease \/ lease = None \/ lease = p
<1>1. CASE Release(p)
  <2>1. PICK n \in 1 .. 5 : proc[p].undo = UndoTo(n)
    BY <1>1, UndoneSteps DEF Release
  <2>2. Holds(proc[p], 1)
    BY <2>1, OldUndo
  <2>. QED
    BY <2>2 DEF DaemonInv
<1>2. CASE ~Release(p)
  BY <1>2
  DEF StepOf, Steps, Start, Recover, Acquire, Lock, OpenDevice, Load, Probe, Bind, Stop, JoinPeers,
      JoinCalls, BeginOperation, EndOperation, Connect, BeginCall, EndCall, Disconnect, Simple,
      CloseService, CloseOutput, JoinOutput, Exit, Killed
<1>. QED
  BY <1>1, <1>2

LEMMA SocketMoves ==
    ASSUME NEW p \in Procs, DaemonInv, StepOf(p)
    PROVE  socket' = socket \/ socket = p \/ Holds(proc[p], 1)
<1>1. CASE Bind(p)
  <2>1. proc[p].undo = UndoTo(5)
    BY <1>1 DEF Bind, At, DaemonInv, ProcessInv, StageUndo
  <2>. QED
    BY <2>1, OldUndo
<1>2. CASE ~Bind(p)
  BY <1>2
  DEF StepOf, Steps, Start, Recover, Acquire, OpenDevice, Load, Probe, Stop, JoinPeers,
      JoinCalls, BeginOperation, EndOperation, Connect, BeginCall, EndCall, Disconnect, Simple,
      CloseService, CloseOutput, JoinOutput, Release, Exit, Killed
<1>. QED
  BY <1>1, <1>2

LEMMA OtherStep ==
    ASSUME DaemonAssumption, NEW p \in Procs, NEW q \in Procs, q # p, DaemonInv, StepOf(p)
    PROVE  Kept(q)'
<1>1. proc'[q] = proc[q] /\ Kept(q)
  BY OtherUnchanged DEF DaemonInv, Kept
<1>2. Holds(proc[q], 1) => lease' = q
  BY LeaseMoves DEF DaemonInv, DaemonAssumption
<1>3. At(q, "serve") => socket' = q
  <2>1. SUFFICES ASSUME At(q, "serve") PROVE socket' = q
    OBVIOUS
  <2>2. proc[q].undo = UndoTo(5)
    BY <1>1, <2>1 DEF At, Kept, ProcessInv, StageUndo
  <2>3. Holds(proc[q], 1)
    BY <2>2, OldUndo
  <2>. QED
    BY <2>1, <2>3, SocketMoves DEF DaemonInv
<1>. QED
  BY <1>1, <1>2, <1>3 DEF Kept, At

----------------------------------------------------------------------------
LEMMA DaemonInit == Init => DaemonInv
<1>1. SUFFICES ASSUME Init PROVE DaemonInv
  OBVIOUS
<1>2. proc = [p \in Procs |-> Gone] /\ proc \in [Procs -> Process]
  BY <1>1, GoneTyped DEF Init
<1>3. SUFFICES ASSUME NEW p \in Procs PROVE Kept(p)
  BY <1>2 DEF DaemonInv, Kept
<1>4. proc[p] = Gone /\ proc[p] \in Process /\ proc[p].undo = UndoTo(0)
  BY <1>2, GoneTyped
<1>5. ~Holds(proc[p], 1)
  BY <1>4, OldUndo
<1>. QED
  BY <1>4, <1>5 DEF Gone, At, Kept, ProcessInv, StageUndo, HeldPhases, Calls

LEMMA DaemonStep ==
    ASSUME DaemonAssumption, DaemonInv, [Next]_vars
    PROVE  DaemonInv'
<1>1. CASE Next
  <2>1. PICK p \in Procs : StepOf(p)
    BY <1>1 DEF Next, StepOf
  <2>2. \A q \in Procs : Kept(q)'
    BY <2>1, OwnStep, OtherStep
  <2>3. proc' = [q \in Procs |-> proc'[q]]
    BY <2>1, OtherUnchanged
  <2>. QED
    BY <2>2, <2>3 DEF DaemonInv, Kept, ProcessInv
<1>2. CASE UNCHANGED vars
  BY <1>2 DEF vars, DaemonInv, ProcessInv, At
<1>. QED
  BY <1>1, <1>2

(* One daemon at a time (DaemonRun.DaemonExclusive), for every number of     *)
(* processes, starts and faults: whoever drives the display, or may begin    *)
(* to, holds the lease; no call runs in a daemon that unwinds; a serving one *)
(* is the one at the socket; and plugins outlive the lease only when their   *)
(* end ran out of its budget.                                                *)
THEOREM OneDaemonDrives ==
    ASSUME DaemonAssumption
    PROVE  Spec => []DaemonExclusive
<1>1. DaemonInv => DaemonExclusive
  <2>1. SUFFICES ASSUME DaemonInv, NEW p \in Procs
                 PROVE  /\ proc[p].output \/ (proc[p].inflight /\ "device" \notin proc[p].overran)
                             => lease = p
                        /\ proc[p].plugins => lease = p \/ "service" \in proc[p].overran
                        /\ At(p, "unwind") => proc[p].calls = 0
                        /\ At(p, "serve") => socket = p
    BY Zenon DEF DaemonExclusive
  <2>2. Holds(proc[p], 2) \/ Holds(proc[p], 4) => Holds(proc[p], 1)
    BY DEF Holds
  <2>. QED
    BY <2>1, <2>2 DEF DaemonInv, ProcessInv, HeldPhases, Calls, At
<1>. QED
  BY <1>1, DaemonInit, DaemonStep, PTL DEF Spec

=============================================================================
