SPECIFICATION Spec
CONSTANTS
  Slots = {s1, s2, s3}
  Service = Service
  Orphan = Orphan
  None = None
INVARIANTS PublicationFits ConsentStands SigningFits
VIEW View
