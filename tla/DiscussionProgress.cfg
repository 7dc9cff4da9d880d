SPECIFICATION FairSpec
CONSTANTS
    Threads = {t1}
    Comments = {c1, c2}
    Requests <- CommentDeletions
    None = None
    MaxInFlight = 2
    Careful = FALSE
    Faults = {"database", "publish", "commit", "process"}
VIEW WithoutEvents
INVARIANTS DiscussionInv CountsNeverExceedListed DeadlocksNeedAParentRemoval
PROPERTY RequestsEnd
