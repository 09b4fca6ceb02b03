CONSTANTS
    Callbacks = {c1, c2, c3, c4}
    Inline = {c1, c2}
    Caller = caller
    Default = default
    Empty = empty
SPECIFICATION SyncSpec
INVARIANTS SyncTypeOK AnswerOrFallback DeadPromise SerialNeverThrows IgnoredOnlyIfTaken
PROPERTIES CallEnds
CHECK_DEADLOCK FALSE
