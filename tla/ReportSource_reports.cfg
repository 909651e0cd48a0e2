\* One report after another, for each provider; the deadline leaves
\* time for a retry and for a child that is late, slow or silent.
SPECIFICATION FairSpec
CONSTANTS
    Deadline = 4
    Endpoints <- TwoEndpoints
INVARIANTS
    FetchBounded
    OneVoice
PROPERTIES
    EveryReportEnds
