\* One episode with leftovers of an earlier one; two errors end the drive.
SPECIFICATION FairSpec
CONSTANTS
    None = None
    MaxErrors = 2
    MaxPublished = 1
INVARIANTS EpisodeInv PoweredGated
PROPERTIES EveryRunEnds RestsAfterwards
CHECK_DEADLOCK FALSE
