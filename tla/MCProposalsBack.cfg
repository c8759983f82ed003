SPECIFICATION ProposalsSpec
CONSTANTS
    Items <- MCItems
INVARIANT ApprovalsReverted
CHECK_DEADLOCK FALSE
