----------------------------- MODULE BasicTest -----------------------------
(***************************************************************************)
(* The greentea test "usb_device/basic" (TESTS/usb_device/basic/main.cpp)  *)
(* run against a host.  The test thread executes the test cases as one    *)
(* program: pc indexes the sequence of its calls, with the loops unrolled.*)
(* Beside it run the device's deferred processing context (it handles a   *)
(* latched bus reset) and the host (the pyusb_basic script and its USB    *)
(* stack), which enumerates the device, resets it on request and answers  *)
(* each key/value request with "pass" or "fail".                           *)
(*                                                                         *)
(* Time is abstracted to the length of a detach: the host notices that the *)
(* device went off the bus only if the pull-up stayed off for at least     *)
(* DetachDetectUs, otherwise the reconnection goes unseen.                 *)
(***************************************************************************)
EXTENDS Naturals, Sequences, FiniteSets

CONSTANTS
    DetachDetectUs,  \* shortest detach the host controller notices (200 us)
    CaseSwitchUs,    \* time the harness spends between two test cases
    MaxResets,       \* most resets one USBTester counts in this test
    HostResets       \* requests the host answers with a bus reset

ASSUME BoundsAssumption ==
    /\ DetachDetectUs \in Nat \ {0}
    /\ CaseSwitchUs \in Nat
    /\ MaxResets \in Nat \ {0}
    /\ HostResets \in Nat

\* Mutant: a disconnect shorter than the host needs to notice it.
MIN_DISCONNECT_TIME_US_Short == 100

MIN_DISCONNECT_TIME_US == 1000

\* One call of the test thread.
Call(op, arg) == [op |-> op, arg |-> arg]
Send(name) == Call("send", name)
ParsePass == Call("parse", "pass")
Construct == Call("construct", "none")
Ready == Call("ready", "none")
Destruct == Call("destruct", "none")
Pause(us) == Call("wait", us)

\* The body of the four control tests: the host runs the transfers.
ControlTest(name) == <<Construct, Ready, Send(name), ParsePass, Destruct>>

control_basic_test == ControlTest("control_basic_test")
control_stall_test == ControlTest("control_stall_test")
control_sizes_test == ControlTest("control_sizes_test")
control_stress_test == ControlTest("control_stress_test")

\* Mutant: the reset count is cleared after the host has been asked to
\* reset, so a reset processed before the clear is forgotten.
ResetRoundClearLate ==
    <<Send("device_reset_test"), Call("clear", "none"),
      Call("waitReset", "none"), ParsePass, Call("waitConfigured", "none")>>

\* clear_reset_count; request a reset; spin until it was counted; wait for
\* the host's verdict; spin until the host has configured the device again.
ResetRound ==
    <<Call("clear", "none"), Send("device_reset_test"),
      Call("waitReset", "none"), ParsePass, Call("waitConfigured", "none")>>

ResetBody ==
    <<Construct, Ready>> \o ResetRound \o ResetRound \o ResetRound
    \o <<Send("device_reset_test"), ParsePass, Destruct>>

\* The host first says whether it can reset the device; if not, the body
\* is skipped.
device_reset_test ==
    <<Send("reset_support"), Call("parseSupport", Len(ResetBody))>> \o ResetBody

Reconnect ==
    <<Call("disconnect", "none"), Pause(MIN_DISCONNECT_TIME_US),
      Call("connect", "none")>>

ReconnectRound ==
    Reconnect \o <<Send("device_soft_reconnection_test"), ParsePass>>

device_soft_reconnection_test ==
    <<Construct, Ready, Send("device_soft_reconnection_test"), ParsePass>>
    \o ReconnectRound \o ReconnectRound \o ReconnectRound
    \o Reconnect \o Reconnect \o Reconnect
    \o <<Send("device_soft_reconnection_test"), ParsePass, Destruct>>

\* A USBTester in its own scope: constructed, checked configured, and with
\* a host round trip in the last three scopes; destroyed at the scope's end.
ConstructCheck(kv) ==
    <<Construct, Ready, Call("assertConfigured", "none")>>
    \o (IF kv THEN <<Send("repeated_construction_destruction_test"),
                     ParsePass>>
              ELSE <<>>)
    \o <<Destruct>>

repeated_construction_destruction_test ==
    ConstructCheck(FALSE) \o <<Pause(MIN_DISCONNECT_TIME_US)>>
    \o ConstructCheck(FALSE) \o <<Pause(MIN_DISCONNECT_TIME_US)>>
    \o ConstructCheck(FALSE) \o <<Pause(MIN_DISCONNECT_TIME_US)>>
    \o ConstructCheck(TRUE) \o <<Pause(MIN_DISCONNECT_TIME_US)>>
    \o ConstructCheck(TRUE) \o <<Pause(MIN_DISCONNECT_TIME_US)>>
    \o ConstructCheck(TRUE)

\* The cases run one after the other; utest reports each result to the host
\* between them.  SUSPEND_RESUME_TEST_SUPPORTED is not defined, so the
\* suspend/resume case is not among them.
CaseSwitch == <<Pause(CaseSwitchUs)>>

cases ==
    control_basic_test \o CaseSwitch \o control_stall_test \o CaseSwitch
    \o control_sizes_test \o CaseSwitch \o control_stress_test \o CaseSwitch
    \o device_reset_test \o CaseSwitch \o device_soft_reconnection_test
    \o CaseSwitch \o repeated_construction_destruction_test

Done == Len(cases) + 1

(* The resets USBTester's counter can hold when call i of the program is  *)
(* made: the one the host's enumeration after the constructor causes, one *)
(* after each connect() and one for each device_reset_test request,       *)
(* counted from the last call that zeroed the counter (the constructor or *)
(* clear_reset_count).                                                     *)
Zeroes == {"construct", "clear"}
Bump(c) == \/ c.op \in {"construct", "connect"}
           \/ c.op = "send" /\ c.arg = "device_reset_test"
\* Some call after call k and before call i zeroed the counter.
ZeroedBetween(k, i) == \E j \in (k + 1)..(i - 1) : cases[j].op \in Zeroes
ResetBudget(i) ==
    Cardinality({k \in 1..(i - 1) : Bump(cases[k]) /\ ~ZeroedBetween(k, i)})

\* MaxResets bounds what one USBTester of this program can count.
ASSUME ResetsAssumption == \A i \in 1..Done : ResetBudget(i) <= MaxResets

-----------------------------------------------------------------------------
\* The device's states as the USB specification names them.
DevStates == {"detached", "powered", "default", "addressed", "configured"}
Requests == {"reset_support", "control_basic_test", "control_stall_test",
             "control_sizes_test", "control_stress_test", "device_reset_test",
             "device_soft_reconnection_test",
             "repeated_construction_destruction_test"}
Replies == {"pass", "fail", "true", "false"}

VARIABLES
    pc,            \* next call of the test thread
    failed,        \* a TEST_ASSERT failed
    inited,        \* a USBTester exists (USBDevice::init .. deinit)
    conn,          \* the pull-up is on
    devState,      \* the device's state
    pendingReset,  \* a bus reset latched, not yet processed
    resetCount,    \* USBTester's reset counter
    gap,           \* how long the pull-up has been off, saturated
    session,       \* the host's view: "none", "enumerating", "enumerated"
    hostTask,      \* the request the host is working on, or "none"
    kvOut,         \* a key sent by the test and not yet read by the host
    kvIn,          \* the host's answer not yet parsed by the test
    resetSupported,\* the host's answer to reset_support
    resetsDone     \* device_reset_test requests the host answered with a reset

testVars == <<pc, failed>>
devVars == <<inited, conn, devState, pendingReset, resetCount, gap>>
hostVars == <<session, hostTask, kvOut, kvIn, resetSupported, resetsDone>>
vars == <<testVars, devVars, hostVars>>

Init ==
    /\ pc = 1 /\ failed = FALSE
    /\ inited = FALSE /\ conn = FALSE /\ devState = "detached"
    /\ pendingReset = FALSE /\ resetCount = 0 /\ gap = DetachDetectUs
    /\ session = "none" /\ hostTask = "none"
    /\ kvOut = "none" /\ kvIn = "none"
    /\ resetSupported \in BOOLEAN
    /\ resetsDone = 0

-----------------------------------------------------------------------------
(* The test thread.  Each action is one call at pc; a spin loop is a call   *)
(* that can only be taken once its condition holds.                       *)

Instr == cases[pc]

Next_pc == pc' = pc + 1

\* TEST_ASSERT: a failed assertion ends the run of the test program.
TestAssert(ok) ==
    /\ failed' = ~ok
    /\ pc' = IF ok THEN pc + 1 ELSE Done

greentea_send_kv ==
    /\ Instr.op = "send" /\ kvOut = "none"
    /\ kvOut' = Instr.arg
    /\ Next_pc
    /\ UNCHANGED <<failed, devVars, session, hostTask, kvIn, resetSupported,
                   resetsDone>>

\* greentea_parse_kv followed by TEST_ASSERT_EQUAL_STRING("pass", _key).
greentea_parse_kv ==
    /\ Instr.op = "parse" /\ kvIn # "none"
    /\ kvIn' = "none"
    /\ TestAssert(kvIn = "pass")
    /\ UNCHANGED <<devVars, session, hostTask, kvOut, resetSupported,
                   resetsDone>>

\* greentea_parse_kv, then if (strcmp(_value, "false") != 0) { ... }.
ParseResetSupport ==
    /\ Instr.op = "parseSupport" /\ kvIn \in {"true", "false"}
    /\ kvIn' = "none"
    /\ pc' = IF kvIn = "false" THEN pc + 1 + Instr.arg ELSE pc + 1
    /\ UNCHANGED <<failed, devVars, session, hostTask, kvOut, resetSupported,
                   resetsDone>>

\* The USBTester constructor: init(), connect(), with reset_count(0).
USBTester ==
    /\ Instr.op = "construct" /\ ~inited
    /\ inited' = TRUE /\ conn' = TRUE /\ devState' = "powered"
    /\ pendingReset' = FALSE /\ resetCount' = 0
    /\ Next_pc
    /\ UNCHANGED <<failed, gap, hostVars>>

\* The constructor then blocks until the host has configured the device.
WaitReady ==
    /\ Instr.op = "ready" /\ devState = "configured"
    /\ Next_pc
    /\ UNCHANGED <<failed, devVars, hostVars>>

\* The destructor at the end of the scope: deinit() takes the device off
\* the bus and drops what the hardware had latched.
USBTester_destroy ==
    /\ Instr.op = "destruct" /\ inited
    /\ inited' = FALSE /\ conn' = FALSE /\ devState' = "detached"
    /\ pendingReset' = FALSE /\ gap' = 0
    /\ Next_pc
    /\ UNCHANGED <<failed, resetCount, hostVars>>

\* Mutant: clear_reset_count leaves the counter as it was.
clear_reset_countKeeps ==
    /\ Instr.op = "clear"
    /\ resetCount' = resetCount
    /\ Next_pc
    /\ UNCHANGED <<failed, inited, conn, devState, pendingReset, gap, hostVars>>

clear_reset_count ==
    /\ Instr.op = "clear"
    /\ resetCount' = 0
    /\ Next_pc
    /\ UNCHANGED <<failed, inited, conn, devState, pendingReset, gap, hostVars>>

\* while(serial.get_reset_count() == 0);
get_reset_count ==
    /\ Instr.op = "waitReset" /\ resetCount # 0
    /\ Next_pc
    /\ UNCHANGED <<failed, devVars, hostVars>>

\* while(!serial.configured());
configured ==
    /\ Instr.op = "waitConfigured" /\ devState = "configured"
    /\ Next_pc
    /\ UNCHANGED <<failed, devVars, hostVars>>

\* TEST_ASSERT_EQUAL(true, serial.configured()).
AssertConfigured ==
    /\ Instr.op = "assertConfigured"
    /\ TestAssert(devState = "configured")
    /\ UNCHANGED <<devVars, hostVars>>

\* serial.disconnect(): the pull-up goes off and the device is no longer
\* addressed or configured.
disconnect ==
    /\ Instr.op = "disconnect" /\ inited /\ conn
    /\ conn' = FALSE /\ devState' = "powered" /\ gap' = 0
    /\ Next_pc
    /\ UNCHANGED <<failed, inited, pendingReset, resetCount, hostVars>>

connect ==
    /\ Instr.op = "connect" /\ inited /\ ~conn
    /\ conn' = TRUE
    /\ Next_pc
    /\ UNCHANGED <<failed, inited, devState, pendingReset, resetCount, gap,
                   hostVars>>

\* wait_us(us): time passes; if the pull-up has now been off for long
\* enough, the host controller has seen the device leave.
wait_us ==
    /\ Instr.op = "wait"
    /\ gap' = IF gap + Instr.arg < DetachDetectUs THEN gap + Instr.arg
                                                  ELSE DetachDetectUs
    /\ session' = IF ~conn /\ gap' = DetachDetectUs THEN "none" ELSE session
    /\ Next_pc
    /\ UNCHANGED <<failed, inited, conn, devState, pendingReset, resetCount,
                   hostTask, kvOut, kvIn, resetSupported, resetsDone>>

TestStep ==
    /\ pc < Done
    /\ \/ greentea_send_kv \/ greentea_parse_kv \/ ParseResetSupport
       \/ USBTester \/ WaitReady \/ USBTester_destroy
       \/ clear_reset_count \/ get_reset_count \/ configured
       \/ AssertConfigured \/ disconnect \/ connect \/ wait_us

-----------------------------------------------------------------------------
(* The device's deferred processing context.                               *)

\* process() hands the latched bus reset to USBDevice, which goes back to
\* the default state, and to USBTester's callback_reset, which counts it.
ProcessReset ==
    /\ inited /\ pendingReset
    /\ pendingReset' = FALSE /\ devState' = "default"
    /\ resetCount' = resetCount + 1
    /\ UNCHANGED <<testVars, inited, conn, gap, hostVars>>

-----------------------------------------------------------------------------
(* The host.                                                               *)

\* The host sees a new device on the bus and resets it to enumerate it.
HostAttach ==
    /\ inited /\ conn /\ session = "none"
    /\ session' = "enumerating" /\ pendingReset' = TRUE
    /\ UNCHANGED <<testVars, inited, conn, devState, resetCount, gap,
                   hostTask, kvOut, kvIn, resetSupported, resetsDone>>

\* SET_ADDRESS, once the reset has been processed.
HostSetAddress ==
    /\ session = "enumerating" /\ conn /\ ~pendingReset
    /\ devState = "default"
    /\ devState' = "addressed"
    /\ UNCHANGED <<testVars, inited, conn, pendingReset, resetCount, gap,
                   hostVars>>

\* SET_CONFIGURATION: the enumeration is complete.
HostSetConfiguration ==
    /\ session = "enumerating" /\ conn /\ devState = "addressed"
    /\ devState' = "configured" /\ session' = "enumerated"
    /\ UNCHANGED <<testVars, inited, conn, pendingReset, resetCount, gap,
                   hostTask, kvOut, kvIn, resetSupported, resetsDone>>

\* The host reads a key.  reset_support is answered at once; the first
\* HostResets device_reset_test requests are answered with a bus reset of
\* the enumerated device; every other request is served once the device
\* is enumerated.
HostServe ==
    /\ kvOut # "none" /\ hostTask = "none" /\ kvIn = "none"
    /\ kvOut' = "none"
    /\ \/ /\ kvOut = "reset_support"
          /\ kvIn' = IF resetSupported THEN "true" ELSE "false"
          /\ UNCHANGED <<session, hostTask, pendingReset, resetsDone>>
       \/ /\ kvOut = "device_reset_test" /\ resetsDone < HostResets
          /\ session = "enumerated" /\ conn
          /\ session' = "enumerating" /\ pendingReset' = TRUE
          /\ resetsDone' = resetsDone + 1
          /\ hostTask' = kvOut
          /\ UNCHANGED kvIn
       \/ /\ kvOut # "reset_support"
          /\ kvOut # "device_reset_test" \/ resetsDone = HostResets
          /\ hostTask' = kvOut
          /\ UNCHANGED <<session, kvIn, pendingReset, resetsDone>>
    /\ UNCHANGED <<testVars, inited, conn, devState, resetCount, gap,
                   resetSupported>>

\* The host has run its checks on the device it enumerated: they pass only
\* if that device is really on the bus and configured.
HostReply ==
    /\ hostTask # "none" /\ session = "enumerated"
    /\ kvIn' = IF conn /\ devState = "configured" THEN "pass" ELSE "fail"
    /\ hostTask' = "none"
    /\ UNCHANGED <<testVars, devVars, session, kvOut, resetSupported,
                   resetsDone>>

HostStep ==
    \/ HostAttach \/ HostSetAddress \/ HostSetConfiguration
    \/ HostServe \/ HostReply

-----------------------------------------------------------------------------
Next == TestStep \/ ProcessReset \/ HostStep

Spec == Init /\ [][Next]_vars

(* The test thread spins in its wait loops without blocking, the device's *)
(* event queue runs process() whenever a reset is latched, and the host    *)
(* script and USB stack act on what they see: each is weakly fair.        *)
FairSpec ==
    /\ Spec
    /\ WF_vars(TestStep) /\ WF_vars(ProcessReset)
    /\ WF_vars(HostAttach) /\ WF_vars(HostSetAddress)
    /\ WF_vars(HostSetConfiguration) /\ WF_vars(HostServe)
    /\ WF_vars(HostReply)

-----------------------------------------------------------------------------
(* Properties.                                                             *)

(* No TEST_ASSERT of main.cpp fails: after every disconnect()/connect()    *)
(* and every destruction and construction of USBTester the host sees the   *)
(* device leave and enumerates it again, so each "pass" is given and the   *)
(* device is configured whenever the test asserts it.                      *)
TestAssertionsHold == ~failed

(* connect() puts the pull-up back on only once the host has seen the     *)
(* device leave: the MIN_DISCONNECT_TIME_US wait after disconnect()        *)
(* outlasts the host's detach detection, so the host enumerates the device *)
(* afresh instead of keeping a session it still believes alive.           *)
ReconnectAfterDetach == [][pc < Done /\ connect => session = "none"]_vars

(* The test program runs to its end: no spin on get_reset_count() or       *)
(* configured(), no constructor waiting for configuration and no           *)
(* greentea_parse_kv waits forever.                                        *)
TestCompletes == <>(pc = Done)
=============================================================================
