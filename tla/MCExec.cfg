SPECIFICATION ExecSpec
CONSTANTS
    c1 = c1  c2 = c2  c3 = c3
    ip1 = ip1  ip2 = ip2
    Conns <- MCConns
    IPs <- MCIPs
    MaxExecSessions = 1
    MaxExecHandshakesPerIP = 2
    MaxFrames = 6
    Length <- MCLength
    stdinFrameOverheadBytes = 1
    stdinBufferLimit = 6
INVARIANTS SlotAccounting GateAccounting StdinIntact StagedExact EOFAfterInput
PROPERTIES RefusedOnlyWhenFull PoolsImplemented HandshakeEnds PumpEnds
