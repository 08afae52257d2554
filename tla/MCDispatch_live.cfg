CONSTANTS
    p = p
    a = a
    b = b
    c = c
    Terminals = {p, a}
    Chats = {b, c}
    Bursts <- Seconds
    MaxMsg = 2
    Quotable = {}
    Principal = p
    NoTerminal = NoTerminal
    NoTurn = NoTurn
    Boss = {b}
    Confirmed = {}
    Exclusive <- ToAgent
    Routed <- NoAgent
    Limit = 3
    MaxRedispatch = 1
    Debounce = 1
    MaxDebounce = 2
    SwampedAt = 2
    SwampedWindow = 0
    NoticeAfter = 1
    Slots <- AgentCalls
    MaxNow = 3
    Trouble = {"late", "fail", "rewire", "down", "fault"}
    MaxTrouble = 1
    NoMsg = NoMsg
    NoCall = NoCall
    NoTime = NoTime
SPECIFICATION FairSpec
PROPERTIES EventuallySeen
CHECK_DEADLOCK FALSE
