# TLA+ models of the mbed-os USB device PHY contract and its basic test

This directory holds TLA+ models of two parts of the repository:

- the USB physical-layer contract `USBPhy` in `src/platform/USBPhy.h`;
- the greentea test `src/TESTS/usb_device/basic/main.cpp`.

For each part there are TLC runs on small instances and TLAPS proofs: for
every set of endpoints, and for every host timing under which the test's
disconnect wait is long enough. `PROJECT.json` lists the components, the
runs, the mutants that show each property can fail, the source lines behind
every definition, the hazards and the theorems.

## 1. The system

### Parts and how they interact

| Part | Source | Role |
|---|---|---|
| USBPhy (transceiver abstraction) | `src/platform/USBPhy.h` | Calls the application makes: `init`, `deinit`, `connect`, `disconnect`, `sof_enable`, `sof_disable`, `remote_wakeup`, the endpoint-0 calls (`ep0_read`, `ep0_write`, `ep0_stall`), the calls for non-zero endpoints (`endpoint_add`, `endpoint_remove`, `endpoint_stall`, `endpoint_unstall`, `endpoint_read`, `endpoint_write`, `endpoint_abort`) and `process()`. |
| USBPhyEvents (event sink) | declared in USBPhy.h, not under src/ | The callbacks the PHY makes from `process()`: `power`, `reset`, `suspend`, `sof`, `ep0_setup`, `ep0_in`, `ep0_out`, `in`, `out`. `start_process` is the only callback made from the interrupt. |
| USBDevice / USBTester (the caller) | not under src/ | Runs the control-transfer state machine on those events and counts resets for the test. |
| Basic device test | `src/TESTS/usb_device/basic/main.cpp` | Builds and destroys USBTester objects. Asks the host over greentea for resets and checks. Spins on `get_reset_count()` and `configured()`. Disconnects and reconnects the device. |
| Host | pyusb_basic script, not in the repository | Enumerates the device, resets it on request and answers each request with pass or fail. |
| u-blox AT driver header | `src/features/cellular/.../UBLOX_AT.h` | An unrelated cellular class declaration. Not modelled. |

The interrupt context does only two things: it latches what the hardware saw
and it calls `start_process`. The deferred context runs `process()`, which
hands each latched event to the sink. The sink's handler runs the caller's
reaction, and that reaction calls back into USBPhy (arming endpoint 0,
adding endpoints). The test thread drives the device through USBTester,
while the host drives it over the bus.

### Hard behaviours in this code

- Events latched in the interrupt and delivered later can be stale by the
  time they are delivered. Examples: a completion of an endpoint that has
  since been removed, events from before a power loss or `deinit`, a frame
  after `sof_disable`, or an endpoint-0 completion of a transfer that a
  resent SETUP has replaced.
- Several events may be pending in one `process()` pass. The header's notes
  ask for IN before OUT. The model also needs power before reset before
  SETUP before the other events.
- Power and suspend changes are latched as flags, so a second change
  overwrites the first.
- The test depends on timing: a disconnect shorter than the host can notice
  loses the reset the test waits for. It also spins on counters that
  another context updates.

## 2. Modules

### `USBPhy.tla`: the PHY contract, its interrupt and its caller

Constants: `InEps` and `OutEps`, the non-zero endpoints (disjoint finite sets).

State:

| Variable | What it stands for |
|---|---|
| `initialized`, `powered`, `connected`, `suspended`, `sofOn` | The PHY's lifecycle and bus state. |
| `ep0` | How endpoint 0 is armed: `nak`, `read`, `write` or `stall`. |
| `added`, `halted`, `busy` | Per-endpoint state. `busy` is a started transfer. |
| `pending` | The latched events: a set, because a flag latched twice is latched once. |
| `hostCtrl` | The host has a control transfer in progress. |
| `evt`, `devPowered`, `devSuspended`, `devEp0` | The caller's view: the last event delivered, power, suspend, and the endpoint-0 stage it is in (`idle`, `setup`, `due`, `read`, `write`, `stall`). |

Actions, by context:

- **Application calls.** There is one action per USBPhy method. Each guard
  is the method's precondition from the header. `endpoint_add` and
  `endpoint_remove` are enabled only while a SETUP is being serviced (the
  header says using them elsewhere is undefined). `endpoint_remove` and
  `sof_disable` also drop the latched event they make stale. `deinit`
  drops everything latched.
- **Interrupt.** `PowerChange`, `BusReset`, `BusSuspend`, `BusResume`,
  `Frame`, `SetupPacket`, `Ep0Stage` (through `HostIn0` and `HostOut0`),
  `HostStalled` and `HostTransfer`. Each changes the hardware state and
  latches an event with `Latch`, which replaces an event of the same kind.
  Losing power aborts all transfers and keeps only the power event. A bus
  reset aborts all transfers and keeps only power events and the reset.
- **`process()`.** It delivers one latched event per step: the one of least
  `Rank` (power, then reset, then setup, then IN-side events, then OUT).
  The step includes the driver's own bookkeeping and the caller's reaction.
  `OnReset` removes every endpoint. `OnSetup` drops the stale endpoint-0
  completions. `OnPower` and `OnSuspend` update the caller's view.

### `USBPhyContract.tla`: what the sink may receive

This module is the abstract specification of the event contract in the
header's "Defined behavior" list (USBPhy.h lines 33 to 36). It has no latch, no
bus, no host and no endpoint 0. Its state is:

- `on`: the PHY is initialized;
- `vbus`: USB power is present;
- `frames`: `sof_enable` is in force;
- `eps`: the added endpoints;
- `last`: the last event the sink received.

Its actions are `Start`, `Stop`, `SetFrames`, `AddEp`, `RemoveEp`,
`PowerFlip` and `Send(ev)`. `Send` is guarded by `Allowed(ev)`:

- the PHY is on;
- a power event carries the current power state;
- any other event needs power;
- `sof` needs frames on;
- `in` and `out` need an added endpoint of that direction.

A reset removes every endpoint.

`USBPhy.tla` instantiates it as `Contract`, mapping
`on <- initialized`, `vbus <- powered`, `frames <- sofOn`,
`eps <- added` and `last <- evt`. Under this mapping:

- `init`, `deinit`, `sof_enable`/`sof_disable`, `endpoint_add`/`endpoint_remove`
  and `PowerChange` are the contract's steps;
- each `process()` delivery is a `Send`;
- every other step (latching, the bus, the host, endpoint 0) is a stutter.

### `BasicTest.tla`: the test program against a host

The test thread's calls form one sequence, `cases`, with the loops unrolled.
`pc` indexes it. Each call kind is an action named after the code:

- `greentea_send_kv` and `greentea_parse_kv`, with the `TEST_ASSERT` after
  the parse;
- `clear_reset_count`, `get_reset_count` (the spin) and `configured` (the
  spin);
- `disconnect`, `connect` and `wait_us`;
- `USBTester` and `USBTester_destroy` (scope entry and exit), with
  `WaitReady` standing for the constructor waiting until the device is
  configured.

Beside the test thread run two other contexts:

- the device's deferred context, `ProcessReset`, which counts a processed
  bus reset;
- the host: `HostAttach`, `HostSetAddress`, `HostSetConfiguration`,
  `HostServe` (reads a key; answers `reset_support` at once; on one of
  the first `HostResets` `device_reset_test` keys it resets the device;
  any other key becomes the task it checks the device for) and `HostReply` (pass only if the device is on the bus and
  configured).

Time is reduced to how long the pull-up has been off (`gap`, which saturates
at `DetachDetectUs`). `wait_us` lets the host notice the detach once
`gap` reaches `DetachDetectUs`.

USBTester, USBDevice and the host script are not under src/. What they do
comes from the spec and is marked `spec_modelled` in the map.

## 3. Runs

`MC_USBPhy.tla` and `MC_BasicTest.tla` give the constants their values.
`MC_BasicTest` extends `BasicTestResets`, so that test_safety also
checks the inductive invariants `TestInv` and `ResetInv` that the proofs
use.

| Run | Config | Checks | Shows |
|---|---|---|---|
| phy_safety | `MC_USBPhy.cfg` | TypeOK, SinkInSync, ContractRefined, Ep0EventsMatch | Under every interleaving of calls, interrupts and `process()`, the PHY implements `USBPhyContract`: no event after `deinit`, power loss or `sof_disable`; a power event reports the current power. There is no in/out for an endpoint that is not added. Endpoint-0 completions match the armed stage. After processing, the caller's power and suspend view equals the hardware's. |
| phy_ep0_liveness | `MC_USBPhy_live.cfg` | Ep0Answered | An armed endpoint-0 stage is answered unless the host goes away. |
| test_safety | `MC_BasicTest.cfg` | TestAssertionsHold, TestInv, ResetInv, ReconnectAfterDetach | No assertion of the basic test fails. USBTester's reset counter stays within `MaxResets`, and never holds more than the resets the calls since it was zeroed can cause (`ResetInv`). Every `connect()` (an action property) finds that the host has already dropped the device, so the host enumerates it again. |
| test_completes | `MC_BasicTest_live.cfg` | TestCompletes | The test program reaches its end: no spin or wait hangs. |

**Bounds.**

- phy_safety uses one IN and one OUT endpoint (about 1.3 million states). That is
  enough for an IN and an OUT completion to be latched together, and for
  one endpoint to be removed while the other still has a transfer
  pending.
- The endpoint-0 liveness run has no non-zero endpoints. Ep0Answered concerns only
  endpoint 0, and dropping the endpoints keeps the fairness check small.
- BasicTest runs the whole program with the comment's 200 us detach
  time. The run takes `CaseSwitchUs = 1000`. This is an assumption about
  the harness, not a value in `main.cpp`: utest exchanges greentea
  messages between two cases, and this takes longer than the host needs
  to notice a detach. `main.cpp` itself has no wait between one case's
  destructor and the next case's constructor (hazard at `main.cpp:403`).
  With `CaseSwitchUs = 0` TLC finds `TestCompletes` violated: the host
  still holds the old session, never enumerates the new USBTester, and
  the constructor waits forever. The other values are `MaxResets = 7`
  (the most resets one USBTester counts, in the soft-reconnection case: 1 + 3 + 3; it is the least value
  `ResetsAssumption` in `BasicTest.tla` accepts, and TLC evaluates that
  assumption on every run) and `HostResets = 3` (the host
  resets on the first three reset requests). The answer to
  `reset_support` is chosen in `Init`, so both branches are checked.

**Fairness.**

- USBPhy: `process()` keeps running while anything is latched. Each
  event it may hand out next is weakly fair (`WF_vars(DeliverOne(ev))`).
  The host keeps polling endpoint 0 while its transfer is open (WF on
  `HostIn0` and `HostOut0`).
- This fairness does **not** make every latched event reach the caller.
  The model hands out the pending event of least `Rank` at every step,
  so an event that keeps being outranked is enabled only now and then.
  That delivery rule is the model's choice; the header does not state
  it. So the project checks no liveness property of non-zero endpoint
  completions, and `Ep0Answered` is the only USBPhy liveness property.
- BasicTest: the test thread spins and does not block, the event queue
  runs the reset processing, and the host reacts to what it sees. Each of
  these is weakly fair.

**Deadlock.** The BasicTest configs set `CHECK_DEADLOCK FALSE`, because the
test program ends. A hang before the end shows up as a violation of
TestCompletes.

**Mutants.** Every property of a passing run has a mutant in `PROJECT.json`:
a plausible bug in the mapped code that TLC finds. Examples: a power loss
that does not flush latched events; SETUP not ordered before endpoint-0
completions; `clear_reset_count` moved after the reset request or not
zeroing the counter; a 100 us disconnect.

## 4. What is proved (TLAPS)

### `USBPhyProofs.tla`

All theorems hold for every pair of disjoint finite endpoint sets.
The only assumption is `EpsAssumption`.

- **`TypeCorrect`**: `Spec => []TypeOK`. Lemma `TypeStep` proves one case
  per action. The event constructors and `Latch` preserve the event type
  (`EventsTyped`, `LatchTyped`).
- **`PendingForAddedInvariant`**: `Spec => []PendingForAdded`.
`PendingForAdded` is what the refinement proof needs for the contract's
"in and out only for added endpoints" clause. That clause talks only
about delivered events, so it is not inductive. The strengthening says:

- every started transfer is on an added endpoint;
- every latched in/out event is `EpEv(e)` for an added endpoint `e`;
- a latched reset event is `Ev("reset")`;
- while a reset is latched, no in/out event is latched.

The last conjunct is what lets `OnReset` empty `added` without leaving an
orphaned completion. It holds because `BusReset` flushes in/out events
and `HostTransfer` cannot complete while a reset is pending. The lemma
`PendingForAddedStep` has one step per action. TLC also checks
`PendingForAdded` as an invariant of the safety model.

- **`PendingAllowedInvariant`**: `Spec => []PendingAllowed`. Every latched
  event is one the contract allows now:
  - nothing is latched outside `init` .. `deinit`;
  - a latched power event is `PowerEv(powered)`;
  - nothing else is latched while unpowered;
  - a latched frame is `Ev("sof")`, and only while `sofOn`.

  Each conjunct is needed in the step of another. For example, the power
  conjunct is what lets `PowerChange` replace a stale power event without
  leaving a non-power one behind.
- **`ContractRefinement`**: `Spec => ContractRefined`, that is
  `Spec => Contract!Spec`. The argument follows the usual pattern:
  - `Init` maps to `Contract!Init`;
  - under `PendingForAdded /\ PendingAllowed`, every step maps to a
    contract step or a stutter (`ContractStep`). A delivery is a `Send`
    of an allowed event (`DeliverRefines`).
- **`SinkInSyncHolds`**: `Spec => []SinkInSync`. The inductive
  strengthening `SinkInv` says:
  - the caller's power view is the hardware's unless a power event is
    latched;
  - its suspend view is the hardware's unless a power, reset or suspend
    event is latched;
  - a latched suspend event carries the current suspend state;
  - a latched power or reset event with no suspend event beside it
    implies the bus is not suspended;
  - nothing is suspended while unpowered or uninitialized.

  The last two conjuncts are what make `OnPower` and `OnReset` correct:
  both clear the caller's suspend view. The step uses the delivery order:
  a suspend event is handed out only when no power or reset is latched.
- **`Ep0EventsMatchHolds`**: `Spec => Ep0EventsMatch`. It rests on the
  inductive invariant `Ep0Inv`, which says:
  - a latched SETUP, `ep0_in` or `ep0_out` event is the one event of its
    kind;
  - while a transfer is open, a latched power or reset event is latched
    together with a SETUP (`BusReset` and a power loss close the
    transfer, and only `SetupPacket` opens one);
  - if the completion of a stage is latched, or endpoint 0 is armed for
    that stage in an open transfer, then either the caller is in that
    stage or a SETUP is latched;
  - if a completion is latched, then endpoint 0 is nak-ing, or a SETUP
    is latched;
  - if a completion is latched beside a latched power or reset, then a
    SETUP is latched too.

  The delivery order carries the step. A completion is handed out only
  when no SETUP, power or reset event is latched. `OnSetup` drops the
  completions latched before it. `OnPower` and `OnReset` run only ahead
  of the SETUP that the invariant finds latched. `Ep0Inv` includes
  `PendingAllowed`, because a power gain must find only power events
  latched.

### `BasicTestProofs.tla`

- **`TestInvariant`**: if `DetachDetectUs <= MIN_DISCONNECT_TIME_US`,
  then `Spec => []TestInv`, for the inductive invariant `TestInv`
  described below.
- **`TestAssertionsHoldProved`**: under the same hypothesis,
  `Spec => []TestAssertionsHold`.
- **`ReconnectAfterDetachProved`**: under the same hypothesis,
  `Spec => ReconnectAfterDetach`, the action property that `connect()`
  runs only once the host's session is `"none"`. It follows from the
  last conjunct of `InvCall` (`ReconnectStep`).

All three hold for every pause between cases (`CaseSwitchUs`), every
`MaxResets`, every number `HostResets` of resets the host performs, and
both answers to `reset_support`.

The hypothesis is the timing `main.cpp` relies on. The comment at the
disconnect wait says the host notices a detach within 200 us, and the
test waits `MIN_DISCONNECT_TIME_US` = 1000 us. Without the hypothesis
both properties are false: with the mutant `MIN_DISCONNECT_TIME_US_Short`
TLC finds a failing assertion and a `connect()` that meets the old
session. So the hypothesis belongs to the theorems, not to a module
`ASSUME`.

The proof has two parts.

1. **The program's shape.** `Good(s, f, l)` says that a sequence of
   calls is well typed, starts with `f`, ends with `l`, and that every
   two adjacent calls fit (`PairOK`). Examples:
   - a `send` is followed by the parse of its answer;
   - a `disconnect` is followed by the wait of `MIN_DISCONNECT_TIME_US`;
   - a construction is followed by the wait for configuration;
   - the calls inside a USBTester's scope (`Scoped`) follow each other
     until the destruction or the disconnect;
   - the jump of `ParseResetSupport` lands outside every scope (`JumpOK`).

   `ConcatGood` and `ConcatClean` show that `\o` keeps `Good` when the
   seam fits. `JumpGood` handles the one jump. From these, one lemma per
   test case builds `CasesGood`: `Good(cases, Construct, Destruct)`.
   Nothing in this part reasons about a particular index of the
   114-call program.
2. **The inductive invariant `TestInv`.** It has four parts, and TLC
   checks it as an invariant of test_safety. `InvTypes` holds the
   types. `InvDevice` relates the device state, the pull-up and the
   host session; for example, a reset latched on a configured device
   is one the host performs while it serves a request. `InvHost` ties
   every key in flight to the call that waits for its answer, and says
   no `"fail"` is pending. `InvCall` says three things:
   - inside a scope the device is on the bus;
   - an enumerated but unconfigured device is seen only while the
     constructor waits;
   - a device that is off the bus is either in the disconnect wait or
     already forgotten by the host.

   `TestAssertionsHold` alone is not inductive. The host's verdict is
   `"pass"` only because the task is held in a scope (`InvHost`) where
   the device is on the bus (`InvCall`), and an enumerated device there
   is configured (`InvCall`). The disconnect wait makes the host forget
   the device only because of the hypothesis on the timing.
   `TestInvStep` has one lemma per action.

### `BasicTestResets.tla`

- **`ResetInvariant`**: if `DetachDetectUs <= MIN_DISCONNECT_TIME_US`,
  then `Spec => [](TestInv /\ ResetInv)`.
  Its first conjunct is the bound `resetCount \in 0..MaxResets`.

It holds for every `CaseSwitchUs`, every `HostResets`, both answers to
`reset_support`, and every `MaxResets` that satisfies
`ResetsAssumption`.

`ResetsAssumption` (in `BasicTest.tla`) says what `MaxResets` must be.
`ResetBudget(i)` counts the calls before call `i` that can make the host
reset the device, and that come after the last call that zeroed the
counter. The calls that zero it are the constructor and
`clear_reset_count` (`Zeroes`). The calls that can cause a reset are
the constructor, `connect()` and a `device_reset_test` request (`Bump`).
The assumption is that this budget never exceeds `MaxResets` anywhere in
the program. It is defined by `Cardinality` of a set of positions, with
no recursion, so the provers can use it. `BudgetStep` gives the
one-call recurrence.

The inductive invariant `ResetInv` says five things:

- the counter is in `0..MaxResets`;
- while a USBTester is alive, its counter plus `PendingResets` is at
  most `ResetBudget(pc)`. `PendingResets` counts a latched reset, a
  device on the bus that the host has not yet seen attach, and a
  `device_reset_test` key not yet read;
- `clear_reset_count` runs only on a configured device with nothing
  latched, so no reset counted before the clear slips in after it;
- a wait inside a scope is the disconnect wait, and a `connect()` follows
  it;
- `ParseResetSupport` and the `reset_support` request happen outside
  every scope. So the jump that skips `ResetBody` never leaves a
  USBTester alive.

The counter bound alone is not inductive. `ProcessReset` adds one to the
counter, and only the budget shows that this reset was already paid for.
The budget in turn needs the last three conjuncts, which place each call
of the program relative to the scopes. The proof uses `TestInv` before
and after every step, so `ResetInvStep` cites `TestInvStep` and the
theorem takes the same timing hypothesis. There is one lemma per action:
`SendResets`, `ConstructResets`, `ProcessResets`, `AttachResets` and so
on. `NextCall` and `ScopeStep` use two program-shape facts from
`BasicTestProofs`: `PairOK` (which calls may follow a wait, a clear,
a constructor or `parseSupport`) and `ReconnectOK` (every `disconnect()`
is followed by a `connect()` two calls later).

### Only model-checked

- The liveness properties (`Ep0Answered`, `TestCompletes`): TLAPS does
  not prove liveness under fairness.

## 5. Not modelled

- `configure`, `unconfigure`, `set_address` and `ep0_set_max_packet`: the
  contract gives them no observable effect on events.
- `endpoint_table` contents and packet sizes: this is data, and endpoints
  are model values.
- The 2 ms and 10 ms latency bounds: the models have no clock.
- The dropped-ACK note: it concerns class protocols.
- The suspend/resume test case: it is compiled out.
- The USB requests inside the control tests: the host checks them and the
  model abstracts them to a verdict.
- `UBLOX_AT.h`: a class declaration of the u-blox cellular driver (a
  constructor, two factory methods and a URC handler). Their bodies are
  not in the repository, so it has no state or control flow to model. It
  also does not interact with the USB stack.

## 6. Plan

1. **USBDevice.** Add the control-transfer and lifecycle state machine
   that consumes USBPhy's events (Default, Addressed and Configured
   states; SetConfiguration and SetInterface adding endpoints; stall
   recovery), composed with `USBPhy` through its sink actions. Show that
   it refines an abstract "one control transfer at a time" specification
   with `INSTANCE ... WITH`.
2. **Test against the device model.** Connect `BasicTest`'s device side
   to that USBDevice model instead of the abstract lifecycle.
3. **More checks.** Add a run with two IN endpoints for the IN-before-OUT
   ordering. Add a model of a bounded pass of
   `process()` that keeps the reset-before-suspend order, under which a
   liveness property for OUT completions could be stated.
