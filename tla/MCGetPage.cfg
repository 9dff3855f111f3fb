SPECIFICATION Spec
CONSTANT Tries = 4
INVARIANTS PageFits ReplyMeansSaved
PROPERTY CallsEnd
