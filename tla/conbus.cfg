SPECIFICATION FairSpec
CONSTANTS
    Addr = {0, 1}
    CsrAddr = {0, 1}
    Lanes = {1, 2}
    Byte = {0, 1}
    NumMasters = 3
    Requests <- MCRequests
INVARIANTS TypeOK AckToOwner ReadsLastWrite BoundedOvertaking
PROPERTIES EveryAccessEnds
