\* Three runs and one repetition: a candidate, its promotion and what overtakes
\* either.  The second commit adopts fuzzing and changes the workflows, the third
\* starts a new base.  Two faults: an answer lost, an asset damaged or an attempt
\* stopped, twice.
SPECIFICATION MCSpec
CONSTANTS
    MaxCommit = 3
    MaxRuns = 3
    MaxReruns = 1
    MaxFaults = 2
    BaseOf <- MCBaseOf
    WorkflowsOf <- MCWorkflowsOf
    PolicyOf <- MCPolicyOf
    ChangelogOf <- MCChangelogOf
    BuildNumberFloor = 0
    Dispatched = {"rc", "stable"}
    Files = {"package"}
INVARIANTS
    PublicComplete
    PromotedAsAccepted
    OvertakenStaysDraft
PROPERTIES
    LedgerSpec
    PublicOrder
    NoCandidateAfterStable
CHECK_DEADLOCK FALSE
