SPECIFICATION FairSpec
CONSTANT N <- Items4
PROPERTY QuietAfterReturn ImplementsOrderedMap Terminates
CHECK_DEADLOCK FALSE
