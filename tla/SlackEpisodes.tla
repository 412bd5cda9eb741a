---------------------------- MODULE SlackEpisodes ---------------------------
(***************************************************************************)
(* The reducer of the Slack plugin for one thread (plugins/slack/state.go,  *)
(* checkpoint.go; handleLocked, openedLocked and saveLocked of worker.go).  *)
(* Messages arrive in any order and more than once.  The retained ones form *)
(* an item, whose fingerprint names the episode and whose revision changes  *)
(* with every update.  The user acknowledges the episode that the panel     *)
(* shows; acknowledgements and seen versions are saved, messages are not.   *)
(***************************************************************************)
EXTENDS Integers, SequencesExt

CONSTANTS
    Replies,        \* the replies of the thread; its first message is Root
    Root, None,
    MaxVersion,     \* versions of a message, bound
    MaxRetained,
    MaxRevision, MaxCrashes     \* bounds

VARIABLES
    s,          \* the state of the reducer
    dirty,      \* worker.dirty
    disk,       \* the checkpoint
    panel,      \* the item that the panel shows: what execute will act on
    seen        \* history: versions shown, and versions acknowledged

vars == <<s, dirty, disk, panel, seen>>

Keys == Replies \union {Root}
Events == [key : Keys, version : 1 .. MaxVersion, kind : {"plain", "mention", "own", "deleted"}]
Stamp(e) == <<e.key, e.version>>

Empty ==
    [revision |-> 0, messages |-> <<>>, fingerprints |-> <<>>, item |-> None, handled |-> <<>>,
     watched |-> FALSE, truncated |-> FALSE]

\* checkpoint: neither the messages nor their item are written.
Checkpoint(x) == [x EXCEPT !.messages = <<>>, !.item = None]

Init ==
    /\ s = Empty /\ disk = Checkpoint(Empty) /\ dirty = FALSE /\ panel = None
    /\ seen = [shown |-> {}, acked |-> {}, saved |-> {}, crashes |-> 0]

----------------------------------------------------------------------------
(* Helpers of the reducer                                                   *)

Find(seq, key) == SelectSeq(seq, LAMBDA r : r.key = key)
Drop(seq, key) == SelectSeq(seq, LAMBDA r : r.key # key)
Has(seq, key) == Find(seq, key) # <<>>

\* remember: the version last accepted of a message, at most MaxRetained.
Remember(x, e) ==
    LET fps == Append(Drop(x.fingerprints, e.key), [key |-> e.key, version |-> e.version])
    IN IF Len(fps) > MaxRetained
       THEN [x EXCEPT !.fingerprints = Tail(fps), !.truncated = TRUE]
       ELSE [x EXCEPT !.fingerprints = fps]

\* rebuild: the item of the thread from its retained messages.  A new episode
\* extends the chain of fingerprints by what triggered it.
Rebuild(x, newEpisode, trigger) ==
    LET old == IF x.item = None THEN <<>> ELSE x.item.fingerprint
    IN [x EXCEPT !.revision = @ + 1,
                 !.item = IF x.messages = <<>> THEN None
                          ELSE [fingerprint |-> IF newEpisode THEN Append(old, trigger) ELSE old,
                                revision |-> x.revision + 1]]

\* boundMessages: the message that was updated first goes.
BoundMessages(x) ==
    IF Len(x.messages) <= MaxRetained THEN x
    ELSE [Rebuild([x EXCEPT !.messages = Tail(@)], FALSE, None) EXCEPT !.truncated = TRUE]

Handled(x) == x.item # None /\ Contains(x.handled, x.item.fingerprint)

\* applyNormalized, after acceptCallback and prune.  A version not newer than
\* the last one seen is ignored, also when the message itself is forgotten.
NewerThanRetained(x, e) ==
    LET old == Find(x.messages, e.key) IN old # <<>> => e.version > old[1].version

Newer(x, e) ==
    LET fp == Find(x.fingerprints, e.key)
        old == Find(x.messages, e.key)
    IN /\ fp # <<>> => e.version > fp[1].version
       /\ fp = <<>> /\ old # <<>> => e.version > old[1].version

Deleted(x, e) ==
    LET y == Remember(x, e)
    IN IF Has(x.messages, e.key)
       THEN Rebuild([y EXCEPT !.messages = Drop(@, e.key)], FALSE, None) ELSE y

\* A message of the user, or a mention, starts a watch on the thread; a reply
\* counts while it is watched, was retained as one, or mentions the user.
Watched(x, e) ==
    x.watched \/ e.kind = "own" \/ e.kind = "mention" \/ (Has(x.messages, e.key) /\ e.key \in Replies)

Updated(x, e) ==
    LET existed == Has(x.messages, e.key)
        kept == e.key = Root \/ Watched(x, e)
        newEpisode == ~existed \/ (e.kind = "mention" /\ ~Find(x.messages, e.key)[1].mention)
        y == Remember([x EXCEPT !.watched = Watched(x, e)], e)
        rest == Drop(y.messages, e.key)
    IN CASE e.kind = "own" -> [x EXCEPT !.watched = TRUE]
         [] e.kind # "own" /\ ~kept /\ ~existed -> x
         [] e.kind # "own" /\ ~kept /\ existed -> Rebuild([y EXCEPT !.messages = rest], FALSE, None)
         [] e.kind # "own" /\ kept ->
              BoundMessages(Rebuild([y EXCEPT !.messages = Append(rest,
                                [key |-> e.key, version |-> e.version, mention |-> e.kind = "mention"])],
                                    newEpisode, Stamp(e)))

Applied(x, e) == IF ~Newer(x, e) THEN x ELSE IF e.kind = "deleted" THEN Deleted(x, e) ELSE Updated(x, e)

----------------------------------------------------------------------------
(* The worker                                                               *)

\* One delivery; the same one may come again, in another order.  The bounded
\* list of callback ids, which drops some repetitions early, is left out.
Reduce(e) ==
    /\ s.revision < MaxRevision
    /\ s' = Applied(s, e) /\ dirty' = (dirty \/ s' # s)
    /\ UNCHANGED <<disk, panel, seen>>

\* saveLocked of the ticker: the state written is the state kept.
Save ==
    /\ dirty
    /\ \/ /\ disk' = Checkpoint(s) /\ dirty' = FALSE
          /\ seen' = [seen EXCEPT !.saved = seen.acked]
       \/ UNCHANGED <<disk, dirty, seen>>
    /\ UNCHANGED <<s, panel>>

\* The panel shows the item; the session acts on exactly this view of it.
Show ==
    /\ s.item # None /\ ~Handled(s) /\ panel' = s.item
    /\ seen' = [seen EXCEPT !.shown = @ \union {Stamp(s.messages[i]) : i \in DOMAIN s.messages}]
    /\ UNCHANGED <<s, dirty, disk>>

\* proposeHandle: the item must be the one that was shown, to the revision.
SameEpisode(x, target) == x.item # None /\ x.item.fingerprint = target.fingerprint
Current(x, target) == x.item # None /\ x.item = target

ProposeHandle(x) ==
    LET handled == Append(SelectSeq(x.handled, LAMBDA f : f # x.item.fingerprint), x.item.fingerprint)
        full == Len(handled) > MaxRetained
    IN [x EXCEPT !.revision = @ + 1, !.item.revision = x.revision + 1,
                 !.handled = IF full THEN Tail(handled) ELSE handled,
                 !.truncated = @ \/ full]

Acked == seen.acked \union {Stamp(s.messages[i]) : i \in DOMAIN s.messages}

\* handleLocked: the acknowledgement counts only once it is saved.
Handle ==
    /\ panel # None /\ panel' = None
    /\ IF ~Current(s, panel) THEN UNCHANGED <<s, dirty, disk, seen>>
       ELSE \/ /\ s' = ProposeHandle(s) /\ disk' = Checkpoint(s') /\ dirty' = FALSE
               /\ seen' = [seen EXCEPT !.acked = Acked, !.saved = Acked]
            \/ UNCHANGED <<s, dirty, disk, seen>>

\* openedLocked: Slack has been opened, so the episode is hidden at once; what
\* could not be saved is saved by the ticker.
Opened ==
    /\ panel # None /\ panel' = None
    /\ IF ~Current(s, panel) THEN UNCHANGED <<s, dirty, disk, seen>>
       ELSE /\ s' = ProposeHandle(s)
            /\ \/ /\ disk' = Checkpoint(s') /\ dirty' = FALSE
                  /\ seen' = [seen EXCEPT !.acked = Acked, !.saved = Acked]
               \/ /\ dirty' = TRUE /\ UNCHANGED disk
                  /\ seen' = [seen EXCEPT !.acked = Acked]

\* prune: an acknowledgement lasts a week, a watch three days.
Expire ==
    /\ \/ s.watched /\ s' = [s EXCEPT !.watched = FALSE] /\ UNCHANGED seen
       \/ /\ s.handled # <<>> /\ s.revision < MaxRevision
          /\ LET y == [s EXCEPT !.handled = Tail(@)]
             IN s' = IF s.item # None /\ s.item.fingerprint = Head(s.handled)
                     THEN [y EXCEPT !.revision = @ + 1, !.item.revision = s.revision + 1] ELSE y
          /\ seen' = [seen EXCEPT !.acked = {}, !.saved = {}]
    /\ dirty' = TRUE /\ UNCHANGED <<disk, panel>>

\* restoreCheckpoint in a new process.
Crash ==
    /\ seen.crashes < MaxCrashes
    /\ s' = disk /\ dirty' = FALSE /\ panel' = None /\ UNCHANGED disk
    /\ seen' = [seen EXCEPT !.acked = seen.saved, !.crashes = @ + 1]

Next ==
    \/ \E e \in Events : Reduce(e)
    \/ Save \/ Show \/ Handle \/ Opened \/ Expire \/ Crash

Spec == Init /\ [][Next]_vars

\* What the user acknowledged is what the user saw: every version that an
\* acknowledgement covers had been on the panel, whatever arrived between the
\* display and the key.
AckedWasShown == seen.acked \subseteq seen.shown

\* An acknowledged message never interrupts again.  No delivery, however late
\* or repeated, starts an episode with a version that an acknowledgement still
\* in force covers, also after a crash - unless the bounded records overflowed,
\* which the state admits to.
AckedStaysQuiet ==
    s.item # None /\ ~Handled(s) /\ ~s.truncated
        => s.item.fingerprint = <<>> \/ Last(s.item.fingerprint) \notin seen.acked
=============================================================================
