CONSTANTS
    DetachDetectUs <- MCDetachDetectUs
    CaseSwitchUs <- MCCaseSwitchUs
    MaxResets <- MCMaxResets
    HostResets <- MCHostResets
SPECIFICATION Spec
INVARIANT TestAssertionsHold TestInv ResetInv
PROPERTY ReconnectAfterDetach
\* The test program ends; its last state has no successor.
CHECK_DEADLOCK FALSE
