CONSTANTS
    i1 = i1
    o1 = o1
    InEps <- MCInEps
    OutEps <- MCOutEps

SPECIFICATION Spec

INVARIANT TypeOK
INVARIANT  SinkInSync
PROPERTY ContractRefined
PROPERTY Ep0EventsMatch
