SPECIFICATION Spec
CONSTANTS
  Slots = {s1, s2}
  Events = {file, receipt, longer}
  Torrents = {file}
  Pools = {receipt, longer}
  Shared = {file, receipt}
  Payload <- OnePayload
  None = None
INVARIANTS ShownFits PeersFit
PROPERTY WithdrawnLeaves
