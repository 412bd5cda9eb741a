----------------------------- MODULE MCPlugins -----------------------------
(* The plugins and the calls between a plugin and the daemon, on small      *)
(* instances. A behaviour is one of a single component; the peer rests in   *)
(* its initial state while a plugin runs.                                   *)
EXTENDS RpcPeer

CONSTANTS Parts   \* the components that run

VARIABLES
    part,      \* the component that runs
    v1, v2, v3, v4, v5, v6, v7, v8, v9, v10, v11   \* the variables of the others

----------------------------------------------------------------------------
Transport == INSTANCE SlackTransport WITH
    MaxSessions <- 3, MaxEvents <- 2, QueueCapacity <- 1,
    loop <- v1, readers <- v2, events <- v3, worker <- v4

Membership == INSTANCE SlackMembership WITH
    Channels <- {"c"}, MaxMessages <- 2, MaxPending <- 2, QueueSize <- 1,
    MaxLifecycle <- 2, MaxCrashes <- 1,
    w <- v1, resolving <- v2, disk <- v3, seen <- v4

Episodes == INSTANCE SlackEpisodes WITH
    Replies <- {"reply"}, Root <- "root", MaxVersion <- 2, MaxRetained <- 2,
    MaxRevision <- 4, MaxCrashes <- 1,
    s <- v1, dirty <- v2, disk <- v3, panel <- v4, seen <- v5

Panel == INSTANCE SlackPanel WITH
    Tokens <- {"t1"}, MaxRevision <- 2, MaxPanel <- 3,
    item <- v1, fresh <- v2, panel <- v3, copy <- v4, current <- v5,
    host <- v6, slot <- v7, call <- v8, effects <- v9

Codex == INSTANCE CodexSession WITH
    MaxConnections <- 2, MaxTurns <- 2, MaxTokens <- 1, MaxEvents <- 2,
    server <- v1, events <- v2, reducer <- v3, published <- v4, session <- v5,
    call <- v6, loop <- v7, details <- v8, tokens <- v9, sent <- v10,
    late <- v11

Thread == INSTANCE CodexThread WITH
    MaxTurns <- 3, MaxItems <- 3, MaxLog <- 3, MaxLosses <- 2,
    real <- v1, log <- v2, attached <- v3, t <- v4, losses <- v5

GitHub == INSTANCE GitHubNotifications WITH
    Threads <- {"t1", "t2"}, MaxClock <- 3, MaxRevision <- 3, MaxCrashes <- 1,
    inbox <- v1, fetch <- v2, s <- v3, session <- v4, disk <- v5,
    crashes <- v6, ghost <- v7

(* The variables that a component leaves alone.                             *)
Idle9 == v10 = 0 /\ v11 = 0
Idle7 == v8 = 0 /\ v9 = 0 /\ Idle9
Idle5 == v6 = 0 /\ v7 = 0 /\ Idle7
Idle4 == v5 = 0 /\ Idle5
Idle0 == v1 = 0 /\ v2 = 0 /\ v3 = 0 /\ v4 = 0 /\ Idle4

Rest9 == <<v10, v11>>
Rest7 == <<v8, v9, Rest9>>
Rest5 == <<v6, v7, Rest7>>
Rest4 == <<v5, Rest5>>
Rest0 == <<v1, v2, v3, v4, Rest4>>
all == <<part, vars, Rest0>>

MCInit ==
    /\ part \in Parts /\ Init
    /\ \/ part = "Peer" /\ Idle0
       \/ part = "Transport" /\ Transport!Init /\ Idle4
       \/ part = "Membership" /\ Membership!Init /\ Idle4
       \/ part = "Episodes" /\ Episodes!Init /\ Idle5
       \/ part = "Panel" /\ Panel!Init /\ Idle9
       \/ part = "Codex" /\ Codex!Init
       \/ part = "Thread" /\ Thread!Init /\ Idle5
       \/ part = "GitHub" /\ GitHub!Init /\ Idle7

MCNext ==
    /\ UNCHANGED part
    /\ \/ part = "Peer" /\ Next /\ UNCHANGED Rest0
       \/ /\ UNCHANGED vars
          /\ \/ part = "Transport" /\ Transport!Next /\ UNCHANGED Rest4
             \/ part = "Membership" /\ Membership!Next /\ UNCHANGED Rest4
             \/ part = "Episodes" /\ Episodes!Next /\ UNCHANGED Rest5
             \/ part = "Panel" /\ Panel!Next /\ UNCHANGED Rest9
             \/ part = "Codex" /\ Codex!Next
             \/ part = "Thread" /\ Thread!Next /\ UNCHANGED Rest5
             \/ part = "GitHub" /\ GitHub!Next /\ UNCHANGED Rest7

MCSpec == MCInit /\ [][MCNext]_all

ASSUME PeerAssumption

----------------------------------------------------------------------------
(* A Slack message is never lost without notice: a transport that ended is  *)
(* tried again or reported, and every message is visible, pending or inside *)
(* a reported gap, in a channel the user is still in.                       *)
SlackDelivers ==
    /\ part = "Transport" => Transport!TransportAlive
    /\ part = "Membership" => Membership!LeftChannelsEmpty /\ Membership!MessagesAccounted

(* A Slack item is acknowledged only when that very content was shown, and  *)
(* stays quiet afterwards.                                                  *)
SlackAcksExact == part = "Episodes" => Episodes!AckedWasShown /\ Episodes!AckedStaysQuiet

(* The Slack panel on the device is one the worker tracks, and a press      *)
(* opens one item once.                                                     *)
PanelTracked == part = "Panel" => Panel!HeldIsTracked /\ Panel!LaunchedOnce

(* An answer given on the device reaches the very request it was given for, *)
(* the session closes with its request, and the card of a thread states     *)
(* what the thread does.                                                    *)
CodexExact ==
    /\ part = "Codex" => Codex!AnswersExact /\ Codex!SessionsCurrent
    /\ part = "Thread" => Thread!CardsTrue

(* The plugin's inbox is GitHub's as of the last fetch and its own writes,  *)
(* and what it is unsure of is not shown.                                   *)
GitHubAgrees == part = "GitHub" => GitHub!InboxAgrees /\ GitHub!UncertainHidden
=============================================================================
