CONSTANTS
    Terminals = {t1, t2}
    Chats = {c1}
    Nonces = {n1, n2}
    Tokens = {k1, k2}
    Bursts = {1}
    Ids = {i1, i2, i3}
    MaxStale = 1
    NoId = NoId
    NoTurn = NoTurn
    NoToken = NoToken
    NoDispatch = NoDispatch
SPECIFICATION NoncesReused
PROPERTIES SilentTerminalFreed
