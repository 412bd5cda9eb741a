------------------------- MODULE GitHubNotifications -------------------------
(***************************************************************************)
(* The GitHub notifications plugin (plugins/githubnotifications: state.go,   *)
(* interaction.go, provider.go, the worker of handler.go).  The collector    *)
(* reads the inbox page by page without the worker's lock and applies the    *)
(* result under it; the panel marks a thread read under the lock, while the  *)
(* inbox may change at any time.  A write whose outcome is unknown hides the *)
(* thread behind a marker that is kept in the checkpoint.                    *)
(***************************************************************************)
EXTENDS Integers, FiniteSets, FiniteSetsExt

CONSTANTS
    Threads,
    MaxClock,       \* changes of the inbox, bound
    MaxRevision,    \* revisions of the worker's state, bound
    MaxCrashes,     \* restarts of the plugin, bound
    None

VARIABLES
    inbox,      \* GitHub: version and unread flag of each thread, and its clock
    fetch,      \* the fetch under way, or None; old when writeEpoch went past it
    s,          \* the worker's state
    session,    \* the panel's session: the item it selected, or None
    disk,       \* the markers of the stored checkpoint
    crashes,
    ghost       \* agree, changed: see InboxAgrees; unknown: see UncertainHidden

vars == <<inbox, fetch, s, session, disk, crashes, ghost>>

None2 == [t \in Threads |-> None]

\* newState and restore
NewState(handled) ==
    [items |-> None2, handled |-> handled, baseline |-> FALSE, lastModified |-> 0,
     fresh |-> FALSE, dirty |-> TRUE, revision |-> 0]

Init ==
    /\ inbox = [version |-> [t \in Threads |-> 0], unread |-> {}, clock |-> 1]
    /\ fetch = None /\ s = NewState(None2) /\ disk = None2 /\ crashes = 0
    /\ session = None /\ ghost = [agree |-> FALSE, changed |-> FALSE, unknown |-> {}]

----------------------------------------------------------------------------
(* GitHub, external: a thread gets new activity, or is read elsewhere.  The  *)
(* inbox lists the unread threads, the latest first, one to a page.          *)

InboxChanges ==
    /\ inbox.clock < MaxClock
    /\ \E t \in Threads :
        \/ inbox' = [inbox EXCEPT !.version[t] = inbox.clock + 1, !.unread = @ \cup {t}, !.clock = @ + 1]
        \/ t \in inbox.unread /\ inbox' = [inbox EXCEPT !.unread = @ \ {t}, !.clock = @ + 1]
    /\ ghost' = [ghost EXCEPT !.agree = FALSE, !.changed = TRUE]
    /\ UNCHANGED <<fetch, s, session, disk, crashes>>

Listed(k) == {t \in inbox.unread : Cardinality({u \in inbox.unread : inbox.version[u] > inbox.version[t]}) = k}

----------------------------------------------------------------------------
(* The collector                                                            *)

\* The start of a cycle: under the lock it notes the condition and the epoch.
StartFetch ==
    /\ fetch = None
    /\ fetch' = [modified |-> s.lastModified, old |-> FALSE, page |-> 0, read |-> None2,
                 stamp |-> 0, end |-> None]
    /\ ghost' = [ghost EXCEPT !.changed = FALSE]
    /\ UNCHANGED <<inbox, s, session, disk, crashes>>

\* get, and the loop of fetch over the pages.
FetchPage ==
    /\ fetch # None /\ fetch.end = None
    /\ fetch' =
        IF fetch.page = 0 /\ fetch.modified = inbox.clock THEN [fetch EXCEPT !.end = "notModified"]
        ELSE LET read == [t \in Threads |-> IF t \in Listed(fetch.page) THEN inbox.version[t] ELSE fetch.read[t]]
             IN [fetch EXCEPT !.page = @ + 1, !.read = read,
                              !.stamp = IF fetch.page = 0 THEN inbox.clock ELSE @,
                              !.end = IF Cardinality(inbox.unread) <= fetch.page + 1 THEN "complete" ELSE None]
    /\ UNCHANGED <<inbox, s, session, disk, crashes, ghost>>

FetchFails ==
    /\ fetch # None /\ fetch.end = None /\ fetch' = [fetch EXCEPT !.end = "failed"]
    /\ UNCHANGED <<inbox, s, session, disk, crashes, ghost>>

\* apply, one notification that was read: an older version is ignored, new
\* activity takes the marker away, a marker of this version hides it.
Marker(x, handled) == IF x = None \/ handled = None \/ handled.v # x THEN FALSE ELSE TRUE
Merge(st, t, v) ==
    LET old == st.items[t]
        newer == old # None /\ v > old.v
        marker == IF newer THEN None ELSE st.handled[t]
        next == [v |-> v, handled |-> Marker(v, marker), revision |-> st.revision + 1]
    IN IF old # None /\ v < old.v THEN st
       ELSE [st EXCEPT !.handled[t] = marker, !.dirty = @ \/ marker # st.handled[t],
                       !.revision = IF old # None /\ old.v = v /\ old.handled = next.handled THEN @ ELSE @ + 1,
                       !.items[t] = IF old # None /\ old.v = v /\ old.handled = next.handled THEN old ELSE next]

\* Only a complete read without a condition settles an unknown write.
SettlesAlways(st, how) == [st EXCEPT !.handled = None2, !.dirty = TRUE]
Settle(st, how) ==
    IF how = "complete" /\ \E t \in Threads : st.handled[t] # None
    THEN [st EXCEPT !.handled = None2, !.dirty = TRUE] ELSE st

\* reconcileHandling: an item whose marker is gone shows again.
Reconciled(st) ==
    LET shown == {t \in Threads : st.items[t] # None /\ st.items[t].handled /\ st.handled[t] = None}
    IN IF shown = {} THEN st
       ELSE [st EXCEPT !.revision = @ + 1,
                       !.items = [t \in Threads |-> IF t \in shown THEN [st.items[t] EXCEPT !.handled = FALSE,
                                                                        !.revision = st.revision + 1]
                                                    ELSE st.items[t]]]

MergeAll(st, read, ts) == FoldSet(LAMBDA t, x : Merge(x, t, read[t]), st, ts)

\* apply: what was not listed is gone, but only if the read was complete.
Apply(f, conflicted) ==
    LET how == IF conflicted # {} THEN "conflict" ELSE IF f.end = "notModified" /\ ~s.baseline THEN "failed" ELSE f.end
        merged == MergeAll(Settle(s, how), f.read, {t \in Threads \ conflicted : f.read[t] # None})
        kept == [t \in Threads |-> IF f.read[t] = None THEN None ELSE merged.items[t]]
    IN CASE how = "complete" -> [merged EXCEPT !.items = kept, !.lastModified = f.stamp, !.baseline = TRUE,
                                               !.fresh = TRUE]
         [] how = "notModified" -> [merged EXCEPT !.fresh = TRUE]
         [] how = "failed" -> merged
         [] how = "conflict" -> [merged EXCEPT !.lastModified = 0]

\* renewBackground: the checkpoint if it is due, which may fail.
Saved(st, ok) == IF st.dirty /\ ok THEN [st EXCEPT !.dirty = FALSE] ELSE st
Attention(st) == {t \in Threads : st.fresh /\ st.items[t] # None /\ ~st.items[t].handled}

\* A result read under an older epoch is dropped.
AdmitsAll(f) == TRUE
Admitted(f) == ~f.old
ApplyFetch ==
    /\ fetch # None /\ fetch.end # None /\ fetch' = None
    /\ IF ~Admitted(fetch) THEN UNCHANGED <<s, disk, ghost>>
       ELSE \E conflicted \in {{}} \cup {{t} : t \in {u \in Threads : s.items[u] # None /\ fetch.read[u] = s.items[u].v}},
               save \in BOOLEAN :
            LET st == Reconciled(Apply(fetch, conflicted))
                good == conflicted = {} /\ fetch.end \in {"complete", "notModified"} /\ (s.baseline \/ fetch.end = "complete")
            IN /\ s' = Saved(st, save) /\ st.revision <= MaxRevision
               /\ disk' = IF st.dirty /\ save THEN st.handled ELSE disk
               /\ ghost' = [ghost EXCEPT !.agree = @ \/ (good /\ ~ghost.changed),
                                         !.unknown = IF good /\ fetch.end = "complete" THEN {} ELSE @]
    /\ UNCHANGED <<inbox, session, crashes>>

\* The ticker renews, what was read goes stale, an old marker is pruned.
Tick ==
    /\ \E st \in {s, [s EXCEPT !.fresh = FALSE]} \cup {Reconciled([s EXCEPT !.handled[t] = None, !.dirty = TRUE]) :
                                                       t \in {u \in Threads : s.handled[u] # None}},
          save \in BOOLEAN :
        /\ s' = Saved(st, save) /\ disk' = (IF st.dirty /\ save THEN st.handled ELSE disk)
        /\ st.revision <= MaxRevision
        /\ ghost' = [ghost EXCEPT !.unknown = {x \in @ : st.handled[x[1]] # None \/ s.handled[x[1]] = None}]
    /\ UNCHANGED <<inbox, fetch, session, crashes>>

----------------------------------------------------------------------------
(* The panel                                                                *)

\* StartSession: on the item of a card, or on any item from the launcher.
StartSession ==
    /\ session = None
    /\ \E t \in Threads : s.items[t] # None /\ session' = [t |-> t, revision |-> s.items[t].revision]
    /\ UNCHANGED <<inbox, fetch, s, disk, crashes, ghost>>

\* HandleSessionInput: a rotation selects an item as it is now; START opens
\* or executes what was selected.
Navigate ==
    /\ session # None
    /\ \E t \in Threads : s.items[t] # None /\ session' = [t |-> t, revision |-> s.items[t].revision]
    /\ UNCHANGED <<inbox, fetch, s, disk, crashes, ghost>>

EndSession ==
    /\ session # None /\ session' = None
    /\ UNCHANGED <<inbox, fetch, s, disk, crashes, ghost>>

\* selectionCurrent
SelectionCurrent(x) ==
    /\ s.items[x.t] # None /\ s.handled[x.t] = None
    /\ s.items[x.t].revision = x.revision /\ s.fresh

\* executeSelection holds the lock from the check to the end.  markRead tells
\* that the thread was read, that it was not, or nothing.
MarkRead(t, outcome) ==
    IF outcome \in {"read", "unknownRead"} THEN [inbox EXCEPT !.unread = @ \ {t}] ELSE inbox
Marked(st, t, outcome) ==
    LET reset == [st EXCEPT !.lastModified = 0]
    IN CASE outcome = "read" -> [reset EXCEPT !.items[t] = None, !.handled[t] = None,
                                              !.revision = @ + 1, !.dirty = TRUE]
         [] outcome = "denied" -> reset
         [] OTHER -> [reset EXCEPT !.handled[t] = [v |-> st.items[t].v], !.revision = @ + 1, !.dirty = TRUE,
                                   !.items[t] = [st.items[t] EXCEPT !.handled = TRUE, !.revision = st.revision + 1]]
ExecuteSelection ==
    /\ session # None /\ SelectionCurrent(session) /\ s.revision < MaxRevision
    /\ \E outcome \in {"read", "denied", "unknownRead", "unknownKept"}, save \in BOOLEAN :
        LET t == session.t
            st == Marked(s, t, outcome)
        IN /\ inbox' = MarkRead(t, outcome) /\ s' = Saved(st, save)
           /\ disk' = IF st.dirty /\ save THEN st.handled ELSE disk
           /\ session' = None /\ fetch' = IF fetch = None THEN None ELSE [fetch EXCEPT !.old = TRUE]
           /\ ghost' = [agree |-> ghost.agree /\ outcome \in {"read", "denied"}, changed |-> TRUE,
                        unknown |-> IF outcome \in {"unknownRead", "unknownKept"}
                                    THEN ghost.unknown \cup {<<t, s.items[t].v>>} ELSE ghost.unknown]
    /\ UNCHANGED crashes

----------------------------------------------------------------------------
(* Restarts                                                                 *)

\* ReplaceInstances with a worker that was retiring: the state is handed on.
Rejoin ==
    /\ (fetch # None \/ session # None) /\ fetch' = None /\ session' = None
    /\ UNCHANGED <<inbox, s, disk, crashes, ghost>>

\* The process ends; what is stored is restored.
Crash ==
    /\ crashes < MaxCrashes /\ crashes' = crashes + 1
    /\ fetch' = None /\ s' = NewState(disk)
    /\ session' = None /\ ghost' = [ghost EXCEPT !.agree = FALSE, !.changed = FALSE,
                              !.unknown = {x \in @ : disk[x[1]] # None /\ disk[x[1]].v = x[2]}]
    /\ UNCHANGED <<inbox, disk>>

Next ==
    \/ InboxChanges \/ StartFetch \/ FetchPage \/ FetchFails \/ ApplyFetch \/ Tick
    \/ StartSession \/ Navigate \/ EndSession \/ ExecuteSelection \/ Rejoin \/ Crash

Spec == Init /\ [][Next]_vars

----------------------------------------------------------------------------
\* The items are the inbox: once a cycle during which the inbox did not change
\* is applied, and until the inbox changes again, the worker holds exactly the
\* unread threads at their latest versions; reading a thread from the panel
\* keeps it so, whatever fetch was under way.
InboxAgrees ==
    ghost.agree => \A t \in Threads :
        IF t \in inbox.unread THEN s.items[t] # None /\ s.items[t].v = inbox.version[t] ELSE s.items[t] = None

\* A thread whose read could not be confirmed does not ask for attention again
\* before a complete read, made after it, has told whether it was: not after a
\* failed or unmodified cycle, nor after a restart that finds its marker.
UncertainHidden ==
    \A x \in ghost.unknown : s.items[x[1]] # None /\ s.items[x[1]].v = x[2] => x[1] \notin Attention(s)
=============================================================================
