SPECIFICATION CeremonySpec
CONSTANTS
  Devices = {p, d, v}
  Publisher = p
  Downloader = d
  Blobs = {b1, b2}
  Slips = 1
INVARIANT EvidenceIsTrue
PROPERTY StopEnds
CHECK_DEADLOCK FALSE
