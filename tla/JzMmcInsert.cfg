CONSTANTS
    Requests <- MCRequests
    NoReq = NoReq
SPECIFICATION FairSpec
PROPERTIES
    RequestsReturn
