SPECIFICATION DeviceSpec
CONSTANTS
  Tries = 3
  Locks = {l1, l2}
  NoLock = NoLock
  Supported = TRUE
  stun = stun
  turn = turn
  tcp = tcp
  other = other
  Invitations <- MCInvitations
  Allowlist = {stun, turn, tcp}
  Relays = {turn, tcp, other}
  TcpSpelled = {tcp}
  NoServers = NoServers
INVARIANTS DeviceInv ScreensAreLive ChecksItsOwnWords HonestEndings NothingLeaks
PROPERTIES AbortedRunsAreMute EverythingEnds
