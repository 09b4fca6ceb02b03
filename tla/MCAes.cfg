CONSTANTS
    Jobs <- MCJobs
    Examples <- MCExamples
SPECIFICATION AesSpec
INVARIANTS AesTypeOK RoundsUnwind RoundTrip FollowsExamples
PROPERTY ResultFillsBuffer
CHECK_DEADLOCK FALSE
