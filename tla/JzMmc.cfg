CONSTANTS
    Requests <- MCRequests
    NoReq = NoReq
SPECIFICATION FairSpec
INVARIANTS
    NoWarning
    DmaIsOwn
    SuccessIsReal
    SilenceIsAnError
PROPERTIES
    SteadyRequestsReturn
    SteadySlotFollowsCard
