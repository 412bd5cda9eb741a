--------------------------- MODULE SlackMembership --------------------------
(***************************************************************************)
(* Which channel messages the Slack plugin may keep (plugins/slack/         *)
(* worker.go).  A message of a channel is admitted on a proof that the user *)
(* is a member: cached, given by a join or leave event, or looked up by a   *)
(* resolver goroutine while the message waits.  Lookups are numbered by the *)
(* channel's epoch, which every join or leave advances.  That messages wait *)
(* is itself saved, so that a crash is known to have lost some.             *)
(***************************************************************************)
EXTENDS Integers, Sequences, FiniteSetsExt

CONSTANTS
    Channels, MaxMessages,  \* messages 1 .. MaxMessages of each channel
    MaxPending, QueueSize,  \* maxPendingMembership, membershipQueueSize
    MaxLifecycle,           \* join and leave events, bound
    MaxCrashes, None

VARIABLES
    w,          \* the worker's fields under mu
    resolving,  \* the request of the resolver's call, or None
    disk,       \* the saved flags
    seen        \* history: what was delivered, and what is known of it

vars == <<w, resolving, disk, seen>>

Messages == Channels \X (1 .. MaxMessages)
Of(c, S) == {m \in S : m[1] = c}

Fresh ==
    [proof |-> [c \in Channels |-> "none"], epoch |-> [c \in Channels |-> 0], next |-> 0,
     inFlight |-> [c \in Channels |-> 0], retry |-> [c \in Channels |-> FALSE],
     queue |-> <<>>, pending |-> {}, accepted |-> {}, content |-> {},
     unresolved |-> FALSE, coverage |-> FALSE, gap |-> FALSE, dirty |-> FALSE,
     authRequired |-> FALSE]

Init ==
    /\ w = Fresh /\ resolving = None
    /\ disk = [unresolved |-> FALSE, coverage |-> FALSE]
    /\ seen = [got |-> {}, judged |-> {}, left |-> {}, stale |-> FALSE,
               excused |-> FALSE, lifecycle |-> 0, crashes |-> 0]

----------------------------------------------------------------------------
(* Helpers of the worker; each takes and returns its fields                 *)

\* saveLocked.  A failed save stays dirty and the ticker tries again.
Saved(x) == [x EXCEPT !.dirty = FALSE]
SaveLocked(x) ==
    \/ w' = Saved(x) /\ disk' = [unresolved |-> x.unresolved, coverage |-> x.coverage]
    \/ w' = [x EXCEPT !.dirty = TRUE] /\ UNCHANGED disk
NoSave(x) == w' = x /\ UNCHANGED disk

\* applyNormalized: a callback is applied once.
Apply(x, ms) == [x EXCEPT !.accepted = @ \union ms, !.content = @ \union (ms \ x.accepted)]

QueueMembershipLookup(x, c) ==
    IF x.authRequired \/ x.inFlight[c] # 0 \/ x.retry[c] THEN x
    ELSE LET next == IF x.epoch[c] = 0 THEN x.next + 1 ELSE x.next
             epoch == IF x.epoch[c] = 0 THEN next ELSE x.epoch[c]
             y == [x EXCEPT !.next = next, !.epoch[c] = epoch]
         IN IF Len(x.queue) < QueueSize
            THEN [y EXCEPT !.queue = Append(@, [channel |-> c, epoch |-> epoch]),
                           !.inFlight[c] = epoch]
            ELSE [y EXCEPT !.retry[c] = TRUE]

\* discardPendingMembershipLocked
Discard(x, c) == [x EXCEPT !.pending = @ \ Of(c, @)]
RemoveChannel(x, c) == [x EXCEPT !.content = @ \ Of(c, @)]

\* settlePendingMembershipLocked: nothing waits any more.
Settle(x) ==
    IF x.pending # {} \/ ~x.unresolved THEN NoSave(x)
    ELSE SaveLocked([x EXCEPT !.unresolved = FALSE])

Admit(x, c) == Apply(Discard([x EXCEPT !.proof[c] = "member"], c), Of(c, x.pending))
Refuse(x, c) == RemoveChannel(Discard([x EXCEPT !.proof[c] = "not_member"], c), c)

----------------------------------------------------------------------------
(* reduce                                                                   *)

\* admitByMembershipLocked
ReduceMessage(m) ==
    LET c == m[1]
        known == m \in w.pending \union w.accepted
        full == Cardinality(w.pending) = MaxPending
        waiting == QueueMembershipLookup(
                       [w EXCEPT !.pending = @ \union {m}, !.unresolved = TRUE], c)
    IN
    /\ seen' = [seen EXCEPT !.got = @ \union {m},
                            !.judged = IF w.proof[c] = "not_member" THEN @ \union {m} ELSE @]
    /\ UNCHANGED resolving
    /\ CASE w.proof[c] = "member" -> NoSave(Apply(w, {m}))
         [] w.proof[c] = "not_member" -> NoSave(w)
         [] w.proof[c] = "none" /\ known -> NoSave(w)
         [] w.proof[c] = "none" /\ ~known /\ full -> NoSave([w EXCEPT !.gap = TRUE])
         [] w.proof[c] = "none" /\ ~known /\ ~full ->
              IF w.unresolved THEN NoSave(waiting) ELSE SaveLocked(waiting)

\* applyMembershipLifecycleLocked.  Whatever a lookup under way answers, it
\* belongs to an epoch that is over.
Advance(x, c) ==
    [x EXCEPT !.next = @ + 1, !.epoch[c] = x.next + 1, !.inFlight[c] = 0, !.retry[c] = FALSE]

Lifecycle(c, joined) ==
    /\ seen.lifecycle < MaxLifecycle
    /\ seen' = [seen EXCEPT !.lifecycle = @ + 1,
                            !.left = IF joined THEN @ \ {c} ELSE @ \union {c},
                            !.judged = IF joined THEN @ ELSE @ \union Of(c, w.pending \union w.content),
                            !.stale = @ \/ (resolving # None /\ resolving.channel = c)]
    /\ IF joined THEN Settle(Admit(Advance(w, c), c)) ELSE Settle(Refuse(Advance(w, c), c))
    /\ UNCHANGED resolving

----------------------------------------------------------------------------
(* runMembershipResolver                                                    *)

TakeRequest ==
    /\ resolving = None /\ w.queue # <<>>
    /\ LET r == Head(w.queue)
       IN IF w.authRequired
          THEN /\ w' = [w EXCEPT !.queue = Tail(@),
                                 !.inFlight[r.channel] = IF @ = r.epoch THEN 0 ELSE @]
               /\ UNCHANGED resolving
          ELSE w' = [w EXCEPT !.queue = Tail(@)] /\ resolving' = r
    /\ seen' = [seen EXCEPT !.stale = FALSE] /\ UNCHANGED disk

\* resolveMembership after the call to Slack has returned.
ResolveAnyEpoch(answer) ==
    /\ resolving # None /\ resolving' = None
    /\ LET c == resolving.channel
           x == [w EXCEPT !.inFlight[c] = IF @ = resolving.epoch THEN 0 ELSE @]
       IN /\ seen' = [seen EXCEPT !.left = IF answer = "member" /\ ~seen.stale THEN @ \ {c} ELSE @,
                                  !.judged = IF answer = "not_member"
                                             THEN @ \union Of(c, w.pending \union w.content) ELSE @]
          /\ CASE answer = "not_member" -> Settle(Refuse([x EXCEPT !.retry[c] = FALSE], c))
               [] answer = "member" -> Settle(Admit([x EXCEPT !.retry[c] = FALSE], c))
               [] answer = "auth_required" -> NoSave([x EXCEPT !.retry[c] = FALSE, !.authRequired = TRUE])
               [] answer = "failed" -> NoSave([x EXCEPT !.retry[c] = TRUE])

ResolveMembership(answer) ==
    /\ resolving # None /\ resolving' = None
    /\ LET c == resolving.channel
           x == [w EXCEPT !.inFlight[c] = IF @ = resolving.epoch THEN 0 ELSE @]
           late == resolving.epoch # w.epoch[c]
       IN /\ seen' = [seen EXCEPT
                        !.left = IF answer = "member" /\ ~seen.stale THEN @ \ {c} ELSE @,
                        !.judged = IF answer = "not_member" /\ ~late
                                   THEN @ \union Of(c, w.pending \union w.content) ELSE @]
          /\ CASE late -> NoSave(IF Of(c, w.pending) = {} THEN x ELSE QueueMembershipLookup(x, c))
               [] ~late /\ answer = "not_member" ->
                     Settle(Refuse([x EXCEPT !.retry[c] = FALSE], c))
               [] ~late /\ answer = "member" -> Settle(Admit([x EXCEPT !.retry[c] = FALSE], c))
               [] ~late /\ answer = "auth_required" ->
                     NoSave([x EXCEPT !.retry[c] = FALSE, !.authRequired = TRUE])
               [] ~late /\ answer = "failed" -> NoSave([x EXCEPT !.retry[c] = TRUE])

----------------------------------------------------------------------------
(* Time                                                                     *)

\* The one-second ticker: retries are due, and a dirty state is saved.
QueueMembershipRetries(x) ==
    FoldSet(LAMBDA c, y : IF Of(c, x.pending) = {} THEN y ELSE QueueMembershipLookup(y, c),
            x, Channels)

Tick ==
    /\ \E due \in SUBSET Channels :
         LET x == QueueMembershipRetries([w EXCEPT !.retry = [c \in Channels |-> @[c] /\ c \notin due]])
         IN IF w.dirty THEN SaveLocked(x) ELSE NoSave(x)
    /\ UNCHANGED <<resolving, seen>>

ProofExpires(c) ==
    /\ w.proof[c] # "none" /\ w' = [w EXCEPT !.proof[c] = "none"]
    /\ UNCHANGED <<resolving, disk, seen>>

\* newWorker after a crash.  What was retained or waited is gone; a saved mark
\* that messages were waiting becomes a lasting gap in coverage.
RestoreForgetting ==
    [Fresh EXCEPT !.coverage = disk.coverage, !.gap = disk.coverage]
Restore ==
    LET lost == disk.unresolved \/ disk.coverage
    IN [Fresh EXCEPT !.coverage = lost, !.gap = lost, !.dirty = disk.unresolved]

Crash ==
    /\ seen.crashes < MaxCrashes /\ w' = Restore /\ resolving' = None /\ UNCHANGED disk
    /\ seen' = [seen EXCEPT !.crashes = @ + 1, !.stale = FALSE, !.got = w.pending,
                            !.left = {},
                            !.excused = @ \/ (w.dirty /\ w.unresolved /\ ~disk.unresolved)]

Next ==
    \/ \E m \in Messages : ReduceMessage(m)
    \/ \E c \in Channels, joined \in BOOLEAN : Lifecycle(c, joined)
    \/ TakeRequest
    \/ \E answer \in {"member", "not_member", "auth_required", "failed"} : ResolveMembership(answer)
    \/ Tick \/ \E c \in Channels : ProofExpires(c)
    \/ Crash

Spec == Init /\ [][Next]_vars

\* After a leave event nothing of the channel is kept until the user joins
\* again or a lookup that began after the leave says that the user is a
\* member: an answer from before the leave never counts.
LeftChannelsEmpty == \A c \in seen.left : Of(c, w.content) = {}

\* No message disappears silently.  One that Slack delivered was applied, is
\* waiting, was refused on proof that the user is no member, or the status
\* says that coverage is incomplete; one that was waiting when the plugin crashed
\* is covered by that status too, unless the mark that messages were waiting
\* could not be saved.
MessagesAccounted ==
    \/ seen.excused \/ w.gap
    \/ seen.got \subseteq w.accepted \union w.pending \union seen.judged
=============================================================================
