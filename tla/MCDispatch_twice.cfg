CONSTANTS
    p = p
    a = a
    b = b
    c = c
    Terminals = {p, a}
    Chats = {b, c}
    Bursts <- Seconds
    MaxMsg = 1
    Quotable = {}
    Principal = p
    NoTerminal = NoTerminal
    NoTurn = NoTurn
    Boss = {b}
    Confirmed = {}
    Exclusive <- ToAgent
    Routed <- NoAgent
    Limit = 3
    MaxRedispatch = 1
    Debounce = 1
    MaxDebounce = 2
    SwampedAt = 2
    SwampedWindow = 0
    NoticeAfter = 1
    Slots <- TwoCalls
    MaxNow = 3
    Trouble = {}
    MaxTrouble = 0
    NoMsg = NoMsg
    NoCall = NoCall
    NoTime = NoTime
SPECIFICATION Spec
INVARIANTS OneAnswerPerTurn
CHECK_DEADLOCK FALSE
