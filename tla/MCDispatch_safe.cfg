CONSTANTS
    p = p
    a = a
    b = b
    c = c
    Terminals = {p, a}
    Chats = {b, c}
    Bursts <- Seconds
    MaxMsg = 2
    Quotable = {a}
    Principal = p
    NoTerminal = NoTerminal
    NoTurn = NoTurn
    Boss = {b}
    Confirmed = {c}
    Exclusive <- ToAgent
    Routed <- NoAgent
    Limit = 3
    MaxRedispatch = 2
    Debounce = 1
    MaxDebounce = 2
    SwampedAt = 2
    SwampedWindow = 0
    NoticeAfter = 1
    Slots <- AgentCalls
    MaxNow = 3
    Trouble = {"late", "fail", "down", "fault"}
    MaxTrouble = 1
    NoMsg = NoMsg
    NoCall = NoCall
    NoTime = NoTime
SPECIFICATION Spec
INVARIANTS TypeOK OneAnswerPerTurn ClosedOnlySeen
CHECK_DEADLOCK FALSE
