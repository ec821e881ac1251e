\* Batches of one leaf and of three, whose odd node pairs with itself below the root.
\* A person whose request is verified asks no more.
CHECK_DEADLOCK FALSE
SPECIFICATION FairSpec
CONSTANTS
    Sizes = {1, 3}
    NoRecord = NoRecord
INVARIANTS
    VerifiedIsCommitted
    FailureIsEvidence
PROPERTIES
    VerifiedInTheEnd
