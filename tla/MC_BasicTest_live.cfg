CONSTANTS
    DetachDetectUs <- MCDetachDetectUs
    CaseSwitchUs <- MCCaseSwitchUs
    MaxResets <- MCMaxResets
    HostResets <- MCHostResets
SPECIFICATION FairSpec
PROPERTY TestCompletes
\* The test program ends; its last state has no successor.
CHECK_DEADLOCK FALSE
