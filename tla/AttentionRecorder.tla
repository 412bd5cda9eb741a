-------------------------- MODULE AttentionRecorder --------------------------
(***************************************************************************)
(* The attention ledger (internal/attention/recorder.go): a bounded list   *)
(* of decisions in memory, and on disk an active file that is archived and *)
(* truncated when it is full.  Append holds the recorder's mutex, so the   *)
(* one thing that can come between its steps is the end of the process;    *)
(* every file operation may fail.                                          *)
(*                                                                         *)
(* A line of the ledger is a record [sequence, key], key standing for the  *)
(* material part of a trace (materialKey).  Sizes are counted in lines.    *)
(* A process that is killed loses no write the kernel has accepted.        *)
(***************************************************************************)
EXTENDS Integers, Sequences, SequencesExt, FiniteSets

CONSTANTS Keys, Capacity, MaxLines, Retained, MaxSequence, MaxFaults, MaxCrashes, None

VARIABLES
    disk,      \* archives (generation -> lines), active (lines), partial (a torn last line)
    ledger,    \* the Recorder, or None when the process has none
    op,        \* the step of the Append in progress, and its key
    used       \* the faults and the crashes so far

vars == <<disk, ledger, op, used>>

Idle == [at |-> "idle", key |-> None]

(* Every operation on a file may fail, within a budget.                    *)
Ok == UNCHANGED used
Fails == used.faults < MaxFaults /\ used' = [used EXCEPT !.faults = @ + 1]

Generations == DOMAIN disk.archives
Newest == Max(Generations)
Sorted(S) == SetToSortSeq(S, <)

(* The archives in order, then the active file: what restoreLedger reads.  *)
Lines(d) == FlattenSeq([i \in 1..Cardinality(DOMAIN d.archives) |->
                           d.archives[Sorted(DOMAIN d.archives)[i]]]) \o d.active
Contiguous(lines) ==
    \A i \in 1..Len(lines) : /\ lines[i].sequence # 0
                             /\ i > 1 => lines[i].sequence = lines[i - 1].sequence + 1
Latest(lines) == SubSeq(lines, IF Len(lines) > Capacity THEN Len(lines) - Capacity + 1 ELSE 1,
                        Len(lines))

Init ==
    /\ disk = [archives |-> <<>>, active |-> <<>>, partial |-> FALSE]
    /\ ledger = None
    /\ op = Idle
    /\ used = [faults |-> 0, crashes |-> 0]

----------------------------------------------------------------------------
(* newRecorder *)

(* An archive that was committed while the active file was not truncated   *)
(* is recognized by its content.                                           *)
NeverAwaiting(d) == FALSE
AwaitingTruncate(d) ==
    /\ d.active # <<>> /\ DOMAIN d.archives # {}
    /\ ~d.partial
    /\ d.active = d.archives[Max(DOMAIN d.archives)]

Truncated(d) == IF AwaitingTruncate(d) THEN [d EXCEPT !.active = <<>>] ELSE d

(* cleanupArchives removes the oldest archives beyond the retained ones.   *)
Excess(generations) == {g \in generations : Cardinality({h \in generations : h >= g}) > Retained}
Cleaned(d) == [d EXCEPT !.archives =
                  [g \in DOMAIN d.archives \ Excess(DOMAIN d.archives) |-> d.archives[g]]]

Restored(d, pending) ==
    LET lines == Lines(d) IN
    [values |-> Latest(lines),
     next |-> IF lines = <<>> THEN 0 ELSE Last(lines).sequence,
     lastKey |-> IF lines = <<>> THEN None ELSE Last(lines).key,
     nextArchive |-> IF DOMAIN d.archives = {} THEN 1 ELSE Max(DOMAIN d.archives) + 1,
     pendingArchive |-> FALSE, cleanupPending |-> pending, recovery |-> FALSE]

(* A failure other than one of the cleanup leaves the daemon without a     *)
(* recorder (and the files where they are); a torn last line is cut.       *)
Open ==
    /\ ledger = None
    /\ LET truncated == Truncated(disk)
           excess == Excess(DOMAIN truncated.archives) # {} IN
       \E failedCleanup \in IF excess THEN BOOLEAN ELSE {FALSE} :
          LET cleaned == IF failedCleanup THEN truncated ELSE Cleaned(truncated) IN
          /\ IF failedCleanup THEN Fails ELSE Ok
          /\ IF Contiguous(Lines(cleaned))
             THEN /\ disk' = [cleaned EXCEPT !.partial = FALSE]
                  /\ ledger' = Restored(cleaned, failedCleanup)
             ELSE disk' = cleaned /\ UNCHANGED ledger
    /\ UNCHANGED op

----------------------------------------------------------------------------
(* Append *)

Goto(step) == op' = [op EXCEPT !.at = step]
Return == op' = Idle

(* What is still pending from an earlier failure comes first.              *)
AppendTrace(key) ==
    /\ ledger # None /\ op = Idle
    /\ ledger.next < MaxSequence
    /\ op' = [at |-> IF ledger.recovery THEN "recover"
                     ELSE IF ledger.pendingArchive THEN "truncate"
                     ELSE IF ledger.cleanupPending THEN "cleanup" ELSE "encode",
              key |-> key]
    /\ UNCHANGED <<disk, ledger, used>>

RecoverPartialWrite ==
    /\ op.at = "recover"
    /\ \/ /\ disk' = [disk EXCEPT !.partial = FALSE]
          /\ ledger' = [ledger EXCEPT !.recovery = FALSE]
          /\ Goto(IF ledger.pendingArchive THEN "truncate"
                  ELSE IF ledger.cleanupPending THEN "cleanup" ELSE "encode")
          /\ Ok
       \/ Fails /\ Return /\ UNCHANGED <<disk, ledger>>

(* A trace with the material key of the last one is not recorded.          *)
Encode ==
    /\ op.at = "encode"
    /\ IF op.key = ledger.lastKey THEN Return
       ELSE Goto(IF disk.active # <<>> /\ Len(disk.active) + 1 > MaxLines THEN "archive" ELSE "write")
    /\ UNCHANGED <<disk, ledger, used>>

(* rotate: the archive is complete before it has its name.                 *)
Archive ==
    /\ op.at = "archive"
    /\ \/ /\ IF Retained > 0
             THEN /\ disk' = [disk EXCEPT !.archives =
                                 [g \in Generations \cup {ledger.nextArchive} |->
                                     IF g = ledger.nextArchive THEN disk.active ELSE @[g]]]
                  /\ ledger' = [ledger EXCEPT !.nextArchive = @ + 1, !.pendingArchive = TRUE]
             ELSE UNCHANGED <<disk, ledger>>
          /\ Goto("truncate") /\ Ok
       \/ Fails /\ Return /\ UNCHANGED <<disk, ledger>>

TruncateActive ==
    /\ op.at = "truncate"
    /\ \/ /\ disk' = [disk EXCEPT !.active = <<>>]
          /\ ledger' = [ledger EXCEPT !.pendingArchive = FALSE]
          /\ Goto("cleanup") /\ Ok
       \/ Fails /\ Return /\ UNCHANGED <<disk, ledger>>

CleanupArchives ==
    /\ op.at = "cleanup"
    /\ \/ /\ disk' = Cleaned(disk)
          /\ ledger' = [ledger EXCEPT !.cleanupPending = FALSE]
          /\ Goto("encode") /\ Ok
       \/ /\ Fails /\ Return
          /\ ledger' = [ledger EXCEPT !.cleanupPending = TRUE]
          /\ UNCHANGED disk

(* A short or failed write is rolled back; when that fails too, the next   *)
(* Append begins with it.                                                  *)
Write ==
    /\ op.at = "write"
    /\ LET line == [sequence |-> ledger.next + 1, key |-> op.key] IN
       \/ /\ disk' = [disk EXCEPT !.active = Append(@, line)]
          /\ ledger' = [ledger EXCEPT !.next = line.sequence, !.lastKey = op.key,
                                      !.values = Latest(Append(@, line))]
          /\ Ok
       \/ Fails /\ UNCHANGED <<disk, ledger>>
       \/ /\ Fails
          /\ disk' = [disk EXCEPT !.partial = TRUE]
          /\ ledger' = [ledger EXCEPT !.recovery = TRUE]
    /\ Return

(* The process is killed, in the middle of a write too.                    *)
Killed ==
    /\ ledger # None
    /\ used.crashes < MaxCrashes /\ used' = [used EXCEPT !.crashes = @ + 1]
    /\ ledger' = None /\ op' = Idle
    /\ disk' \in {disk} \cup IF op.at = "write" THEN {[disk EXCEPT !.partial = TRUE]} ELSE {}

Next ==
    \/ Open \/ \E key \in Keys : AppendTrace(key)
    \/ RecoverPartialWrite \/ Encode \/ Archive \/ TruncateActive \/ CleanupArchives \/ Write
    \/ Killed

Spec == Init /\ [][Next]_vars

----------------------------------------------------------------------------
(* Wherever the process is killed, the ledger can be opened again and holds *)
(* every trace that was recorded: the archives and the active file read     *)
(* without a gap or a repetition, they end with the last trace appended,    *)
(* and what History answers from memory is what they hold.                  *)
LedgerOpens ==
    LET lines == Lines(Truncated(disk)) IN
    /\ Contiguous(lines)
    /\ ledger # None => /\ (lines = <<>> <=> ledger.next = 0)
                        /\ lines # <<>> => Last(lines).sequence = ledger.next
                        /\ \A v \in Range(ledger.values) :
                              v.sequence >= lines[1].sequence => v \in Range(lines)
=============================================================================
