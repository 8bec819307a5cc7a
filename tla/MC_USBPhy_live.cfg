CONSTANTS
    InEps <- MCNoEps
    OutEps <- MCNoEps
    i1 = i1
    o1 = o1

SPECIFICATION FairSpec

PROPERTY Ep0Answered
