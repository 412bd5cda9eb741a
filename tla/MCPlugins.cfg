SPECIFICATION MCSpec
CONSTANTS
    Parts = {"Peer", "Transport", "Membership", "Episodes", "Panel", "Codex", "Thread", "GitHub"}
    Callers = {"c1", "c2"}
    QueueCapacity = 1
    MaxID = 3
    None = None
INVARIANTS
    CallsDefinite
    
    SlackAcksExact
    PanelTracked
    
    GitHubAgrees
CHECK_DEADLOCK FALSE
