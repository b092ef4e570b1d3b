SPECIFICATION FairSpec
INVARIANTS WholeMessage SentIsWritten StreamIsClosed
PROPERTY CallersReturn
CHECK_DEADLOCK FALSE
