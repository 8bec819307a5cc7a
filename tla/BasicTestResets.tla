--------------------------- MODULE BasicTestResets ---------------------------
(***************************************************************************)
(* Proofs about USBTester's reset counter in BasicTest: one USBTester of   *)
(* the test never counts more resets than the program can cause, so the   *)
(* counter stays within MaxResets.                                        *)
(*                                                                         *)
(* A reset is counted by process() (ProcessReset) only once it is latched, *)
(* and it is latched only by the host: when it enumerates a device it     *)
(* sees attach (after the constructor or a connect()) or when it answers a *)
(* device_reset_test request.  The invariant ResetInv charges every reset  *)
(* counted or still to come to one of the calls of the program since the  *)
(* counter was last zeroed; ResetBudget(pc) counts those calls, and        *)
(* ResetsAssumption bounds it by MaxResets.                                *)
(***************************************************************************)
EXTENDS BasicTestProofs, FiniteSetTheorems

\* The calls since the counter was last zeroed, before call i, that may
\* each add one reset.
Counted(i) == {k \in 1..(i - 1) : Bump(cases[k]) /\ ~ZeroedBetween(k, i)}

(* The budget is the size of a finite set of earlier calls.                *)
LEMMA CountedFacts ==
    ASSUME NEW i \in Nat
    PROVE  /\ Counted(i) \subseteq 1..(i - 1) /\ IsFiniteSet(Counted(i))
           /\ ResetBudget(i) = Cardinality(Counted(i))
           /\ ResetBudget(i) \in Nat
<1>1. Counted(i) \subseteq 1..(i - 1)
  BY DEF Counted
<1>2. IsFiniteSet(1..(i - 1))
  BY FS_Interval
<1>3. IsFiniteSet(Counted(i))
  BY <1>1, <1>2, FS_Subset
<1>4. ResetBudget(i) = Cardinality(Counted(i))
  BY DEF ResetBudget, Counted
<1>. QED
  BY <1>1, <1>3, <1>4, FS_CardinalityType

(* One call on: a call that zeroes the counter leaves only itself to be   *)
(* charged, any other call is added to the earlier ones if it may cause a *)
(* reset.                                                                  *)
LEMMA CountedStep ==
    ASSUME NEW i \in 1..Len(cases)
    PROVE  Counted(i + 1) =
               (IF cases[i].op \in Zeroes THEN {} ELSE Counted(i))
               \cup (IF Bump(cases[i]) THEN {i} ELSE {})
<1> DEFINE R == (IF cases[i].op \in Zeroes THEN {} ELSE Counted(i))
                \cup (IF Bump(cases[i]) THEN {i} ELSE {})
<1>0. Len(cases) \in Nat /\ i \in Nat /\ i >= 1
  BY ProgFacts
<1> SUFFICES ASSUME NEW k PROVE k \in Counted(i + 1) <=> k \in R
  OBVIOUS
<1>1. CASE k = i
  <2>1. ~ZeroedBetween(i, i + 1)
    BY <1>0 DEF ZeroedBetween
  <2>2. i \notin Counted(i)
    BY <1>0 DEF Counted
  <2>. QED
    BY <1>0, <1>1, <2>1, <2>2 DEF Counted
<1>2. CASE k \in 1..(i - 1)
  <2>1. ZeroedBetween(k, i + 1) <=>
            ZeroedBetween(k, i) \/ cases[i].op \in Zeroes
    BY <1>0, <1>2 DEF ZeroedBetween
  <2>. QED
    BY <1>0, <1>2, <2>1 DEF Counted
<1>3. CASE k \notin 1..i
  BY <1>0, <1>3 DEF Counted
<1>. QED
  BY <1>0, <1>1, <1>2, <1>3

(* The budget one call on.                                                 *)
LEMMA BudgetStep ==
    ASSUME NEW i \in 1..Len(cases)
    PROVE  ResetBudget(i + 1) =
               (IF cases[i].op \in Zeroes THEN 0 ELSE ResetBudget(i))
               + (IF Bump(cases[i]) THEN 1 ELSE 0)
<1>0. i \in Nat /\ i + 1 \in Nat
  BY ProgFacts
<1>1. /\ IsFiniteSet(Counted(i)) /\ i \notin Counted(i)
      /\ ResetBudget(i) = Cardinality(Counted(i))
      /\ ResetBudget(i + 1) = Cardinality(Counted(i + 1))
  BY <1>0, CountedFacts
<1>2. CASE cases[i].op \in Zeroes /\ Bump(cases[i])
  <2>1. Counted(i + 1) = {i}
    BY <1>2, CountedStep
  <2>2. Cardinality({i}) = 1
    BY FS_Singleton
  <2>3. ResetBudget(i + 1) = 1
    BY <1>1, <2>1, <2>2
  <2>. QED
    BY <1>2, <2>3
<1>3. CASE cases[i].op \in Zeroes /\ ~Bump(cases[i])
  <2>1. Counted(i + 1) = {}
    BY <1>3, CountedStep
  <2>2. Cardinality({}) = 0
    BY FS_EmptySet
  <2>. QED
    BY <1>1, <1>3, <2>1, <2>2
<1>4. CASE cases[i].op \notin Zeroes /\ Bump(cases[i])
  <2>1. Counted(i + 1) = Counted(i) \cup {i}
    BY <1>4, CountedStep
  <2>. QED
    BY <1>1, <1>4, <2>1, FS_AddElement
<1>5. CASE cases[i].op \notin Zeroes /\ ~Bump(cases[i])
  <2>1. Counted(i + 1) = Counted(i)
    BY <1>5, CountedStep
  <2>2. ResetBudget(i + 1) = ResetBudget(i)
    BY <1>1, <2>1
  <2>. QED
    BY <1>1, <1>5, <2>2, CountedFacts
<1>. QED
  BY <1>2, <1>3, <1>4, <1>5
(* The budget never exceeds MaxResets.                                    *)
LEMMA BudgetBound ==
    ASSUME NEW i \in 1..Done
    PROVE  ResetBudget(i) \in 0..MaxResets
BY CountedFacts, ResetsAssumption, BoundsAssumption

(* The budget one call of the test thread on.                            *)
LEMMA BudgetAdvance ==
    ASSUME InvTypes, pc < Done
    PROVE  /\ ResetBudget(pc + 1) =
                  (IF Instr.op \in Zeroes THEN 0 ELSE ResetBudget(pc))
                  + (IF Bump(Instr) THEN 1 ELSE 0)
           /\ ResetBudget(pc) \in 0..MaxResets
           /\ ResetBudget(pc + 1) \in 0..MaxResets
<1>1. pc \in 1..Len(cases)
  BY ProgFacts DEF InvTypes
<1>2. ResetBudget(pc) \in 0..MaxResets /\ ResetBudget(pc + 1) \in 0..MaxResets
  BY <1>1, ProgFacts, BudgetBound
<1>. QED
  BY <1>1, <1>2, BudgetStep DEF Instr

-----------------------------------------------------------------------------
(* The resets still to come: one latched and not yet processed, one the   *)
(* host will latch when it enumerates the device it sees attach, and one  *)
(* for a device_reset_test request the host has not read yet.             *)
PendingResets ==
    (IF pendingReset THEN 1 ELSE 0)
    + (IF conn /\ session = "none" THEN 1 ELSE 0)
    + (IF kvOut = "device_reset_test" THEN 1 ELSE 0)

\* The calls the test makes with no USBTester in existence.
OutsideScope ==
    \/ Op \in {"construct", "parseSupport"}
    \/ Op = "send" /\ Arg = "reset_support"

(* The resets still to come are at most three.                           *)
LEMMA PendingType ==
    PendingResets \in 0..3 /\ PendingResets' \in 0..3
BY DEF PendingResets

(* The inductive invariant behind the bound on the reset counter.  A live *)
(* USBTester's counter and the resets still to come fit in the budget of  *)
(* the calls made since the counter was zeroed.  clear_reset_count is     *)
(* only called on a configured device with nothing latched, so no reset   *)
(* slips past it.  A wait inside a scope is the one between disconnect()  *)
(* and connect(), and reset_support is asked outside every scope, so the  *)
(* jump of ParseResetSupport never leaves a USBTester alive.              *)
ResetInv ==
    /\ resetCount \in 0..MaxResets
    /\ inited => resetCount + PendingResets <= ResetBudget(pc)
    /\ Op = "clear" => devState = "configured" /\ ~pendingReset
    /\ Op = "wait" /\ inited =>
           ~conn /\ pc + 1 < Done /\ cases[pc + 1].op = "connect"
    /\ OutsideScope => ~inited

\* The last three parts of ResetInv: where the scopes of USBTester lie.
ScopeOK ==
    /\ Op = "clear" => devState = "configured" /\ ~pendingReset
    /\ Op = "wait" /\ inited =>
           ~conn /\ pc + 1 < Done /\ cases[pc + 1].op = "connect"
    /\ OutsideScope => ~inited

LEMMA InitResetInv == Init /\ TestInv => ResetInv
<1> SUFFICES ASSUME Init, TestInv PROVE ResetInv
  OBVIOUS
<1>1. pc < Done /\ Op = "construct" /\ ~inited
  BY ProgFacts DEF Init, Op, Instr, Construct, Call
<1>2. resetCount \in 0..MaxResets
  BY BoundsAssumption DEF Init
<1>. QED
  BY <1>1, <1>2 DEF ResetInv, OutsideScope

(* What the program says of the call that follows the current one.        *)
LEMMA NextCall ==
    ASSUME TestInv, ResetInv, pc < Done, pc' = pc + 1, pc' < Done
    PROVE  /\ Op' = "wait" => Op \in {"destruct", "disconnect"}
           /\ Op = "disconnect" =>
                  pc' + 1 < Done /\ cases[pc' + 1].op = "connect"
           /\ Op' = "clear" => Op \in {"ready", "waitConfigured"}
           /\ OutsideScope' => Op \in {"wait", "parseSupport", "send"} /\ ~inited
<1>1. /\ Op = Instr.op /\ Arg = Instr.arg
      /\ Instr' = cases[pc'] /\ Op' = Instr'.op /\ Arg' = Instr'.arg
      /\ PairOK(Instr, Instr')
  BY Advance DEF TestInv, Op, Arg
<1>2. Op = "disconnect" => pc' + 1 < Done /\ cases[pc' + 1].op = "connect"
  <2>1. pc \in 1..Len(cases)
    BY ProgFacts DEF TestInv, InvTypes
  <2>2. Instr.op = "disconnect" =>
            pc + 2 <= Len(cases) /\ cases[pc + 2].op = "connect"
    BY <2>1, ProgFacts DEF ReconnectOK, Instr
  <2>. QED
    BY <1>1, <2>1, <2>2, ProgFacts
<1>3. OutsideScope' => Op \in {"wait", "parseSupport", "send"} /\ ~inited
  <2>1. OutsideScope' => \/ Op \in {"wait", "parseSupport"}
                         \/ Op = "send" /\ Arg = "reset_support"
    BY <1>1 DEF OutsideScope, PairOK
  <2>2. Op = "wait" /\ inited => Op' = "connect"
    BY <1>1 DEF ResetInv
  <2>3. Op' = "connect" => ~OutsideScope'
    BY DEF OutsideScope
  <2>4. Op = "parseSupport" \/ (Op = "send" /\ Arg = "reset_support") => ~inited
    BY DEF ResetInv, OutsideScope
  <2>. QED
    BY <2>1, <2>2, <2>3, <2>4
<1>. QED
  BY <1>1, <1>2, <1>3 DEF PairOK

(* The last three parts of ResetInv one call on, from what the call does  *)
(* to the scope, the pull-up and the latched reset.                       *)
LEMMA ScopeStep ==
    ASSUME TestInv, ResetInv, pc < Done, pc' = pc + 1,
           Op = "destruct" => ~inited',
           Op = "disconnect" => ~conn',
           Op \in {"wait", "parseSupport", "send"} => inited' = inited,
           Op \in {"ready", "waitConfigured"} =>
               /\ devState = "configured" /\ devState' = devState
               /\ pendingReset' = pendingReset
    PROVE  ScopeOK'
<1> USE DEF ScopeOK
<1>1. CASE pc' = Done
  <2>1. Op' = "end"
    BY <1>1 DEF Op
  <2>. QED
    BY <2>1 DEF OutsideScope
<1>2. CASE pc' < Done
  <2>1. Op \in {"ready", "waitConfigured"} => ~pendingReset
    BY DEF TestInv, InvDevice, InvHost
  <2>2. Op' = "clear" => devState' = "configured" /\ ~pendingReset'
    BY <1>2, <2>1, NextCall
  <2>3. Op' = "wait" /\ inited' =>
            ~conn' /\ pc' + 1 < Done /\ cases[pc' + 1].op = "connect"
    <3>1. Op' = "wait" => Op \in {"destruct", "disconnect"}
      BY <1>2, NextCall
    <3>2. Op = "disconnect" =>
              pc' + 1 < Done /\ cases[pc' + 1].op = "connect"
      BY <1>2, NextCall
    <3>. QED
      BY <3>1, <3>2
  <2>4. OutsideScope' => ~inited'
    BY <1>2, NextCall DEF ResetInv, OutsideScope
  <2>. QED
    BY <2>2, <2>3, <2>4
<1>. QED
  BY <1>1, <1>2, Advance DEF TestInv
-----------------------------------------------------------------------------
(* The calls of the test thread.                                          *)

(* greentea_send_kv: a device_reset_test request is charged to the call   *)
(* that sends it.                                                          *)
LEMMA SendResets ==
    ASSUME TestInv, ResetInv, TestInv', pc < Done, greentea_send_kv
    PROVE  ResetInv'
<1>1. /\ Op = "send" /\ Instr.op = "send" /\ pc' = pc + 1
      /\ kvOut = "none" /\ kvOut' = Instr.arg
  BY DEF greentea_send_kv, Op, Next_pc
<1>2. /\ inited' = inited /\ conn' = conn /\ pendingReset' = pendingReset
      /\ resetCount' = resetCount /\ session' = session
  BY DEF greentea_send_kv, devVars
<1>3. /\ ResetBudget(pc') = ResetBudget(pc)
                            + (IF Instr.arg = "device_reset_test" THEN 1 ELSE 0)
      /\ ResetBudget(pc) \in 0..MaxResets
  BY <1>1, BudgetAdvance DEF TestInv, Zeroes, Bump
<1>4. PendingResets' = PendingResets
                       + (IF Instr.arg = "device_reset_test" THEN 1 ELSE 0)
  BY <1>1, <1>2 DEF PendingResets
<1>5. ScopeOK'
  BY <1>1, <1>2, ScopeStep
<1>. QED
  BY <1>2, <1>3, <1>4, <1>5, PendingType, BoundsAssumption DEF ResetInv, ScopeOK

(* The calls that touch neither the counter nor what may latch a reset:   *)
(* greentea_parse_kv, the constructor's wait, the spins on                *)
(* get_reset_count() and configured(), and the assertion of configured(). *)
LEMMA QuietResets ==
    ASSUME TestInv, ResetInv, TestInv', pc < Done,
           \/ greentea_parse_kv \/ WaitReady \/ get_reset_count
           \/ configured \/ AssertConfigured
    PROVE  ResetInv'
<1>1. /\ Op \in {"parse", "ready", "waitReset", "waitConfigured",
                 "assertConfigured"}
      /\ Op = Instr.op
  BY DEF greentea_parse_kv, WaitReady, get_reset_count, configured,
         AssertConfigured, Op
<1>2. pc' = pc + 1
  <2>1. failed' = FALSE
    BY DEF TestInv, InvTypes
  <2>. QED
    BY <2>1 DEF greentea_parse_kv, WaitReady, get_reset_count, configured,
                AssertConfigured, TestAssert, Next_pc
<1>3. /\ inited' = inited /\ conn' = conn /\ pendingReset' = pendingReset
      /\ resetCount' = resetCount /\ session' = session /\ kvOut' = kvOut
      /\ devState' = devState
  <2>1. CASE greentea_parse_kv   BY <2>1 DEF greentea_parse_kv, devVars
  <2>2. CASE WaitReady           BY <2>2 DEF WaitReady, devVars, hostVars
  <2>3. CASE get_reset_count     BY <2>3 DEF get_reset_count, devVars, hostVars
  <2>4. CASE configured          BY <2>4 DEF configured, devVars, hostVars
  <2>5. CASE AssertConfigured    BY <2>5 DEF AssertConfigured, devVars, hostVars
  <2>. QED
    BY <2>1, <2>2, <2>3, <2>4, <2>5
<1>4. Op \in {"ready", "waitConfigured"} => devState = "configured"
  BY DEF WaitReady, configured, greentea_parse_kv, get_reset_count,
         AssertConfigured, Op
<1>5. ResetBudget(pc') = ResetBudget(pc) /\ ResetBudget(pc) \in 0..MaxResets
  BY <1>1, <1>2, BudgetAdvance DEF TestInv, Zeroes, Bump
<1>6. PendingResets' = PendingResets
  BY <1>3 DEF PendingResets
<1>7. ScopeOK'
  BY <1>1, <1>2, <1>3, <1>4, ScopeStep
<1>. QED
  BY <1>3, <1>5, <1>6, <1>7, PendingType, BoundsAssumption DEF ResetInv, ScopeOK

(* ParseResetSupport is called with no USBTester alive, and its jump lands *)
(* outside every scope.                                                    *)
LEMMA SupportResets ==
    ASSUME TestInv, ResetInv, TestInv', pc < Done, ParseResetSupport
    PROVE  ResetInv'
<1>1. Op = "parseSupport" /\ Instr.op = "parseSupport" /\ ~inited
  BY DEF ParseResetSupport, Op, ResetInv, OutsideScope
<1>2. /\ inited' = inited /\ resetCount' = resetCount
  BY DEF ParseResetSupport, devVars
<1>3. CASE kvIn = "false"
  <2>1. pc' = pc + 1 + Instr.arg
    BY <1>3 DEF ParseResetSupport
  <2>2. pc' \in 1..Done /\ (pc' < Done => ~Scoped(cases[pc']))
    BY <1>1, <2>1, JumpLanding DEF TestInv
  <2>3. Op' # "clear"
    BY <2>2 DEF Op, Instr, Scoped
  <2>. QED
    BY <1>1, <1>2, <2>3 DEF ResetInv
<1>4. CASE kvIn # "false"
  <2>1. pc' = pc + 1
    BY <1>4 DEF ParseResetSupport
  <2>2. ScopeOK'
    BY <1>1, <1>2, <2>1, ScopeStep
  <2>. QED
    BY <1>1, <1>2, <2>2, PendingType, BoundsAssumption DEF ResetInv, ScopeOK
<1>. QED
  BY <1>3, <1>4

(* The constructor zeroes the counter; the host's enumeration is charged  *)
(* to it.                                                                  *)
LEMMA ConstructResets ==
    ASSUME TestInv, ResetInv, TestInv', pc < Done, USBTester
    PROVE  ResetInv'
<1>1. Op = "construct" /\ Instr.op = "construct" /\ pc' = pc + 1
  BY DEF USBTester, Op, Next_pc
<1>2. /\ inited' /\ conn' /\ ~pendingReset' /\ resetCount' = 0
      /\ session' = session /\ kvOut' = kvOut
  BY DEF USBTester, hostVars
<1>3. kvOut = "none"
  BY <1>1, QuietKeys
<1>4. ResetBudget(pc') = 1
  BY <1>1, BudgetAdvance DEF TestInv, Zeroes, Bump
<1>5. resetCount' \in 0..MaxResets
  BY <1>2, BoundsAssumption
<1>6. ScopeOK'
  BY <1>1, ScopeStep
<1>7. resetCount' + PendingResets' <= ResetBudget(pc')
  <2>1. CASE session = "none"
    <3>1. PendingResets' = 1
      BY <1>2, <1>3, <2>1 DEF PendingResets
    <3>. QED
      BY <1>2, <1>4, <3>1
  <2>2. CASE session # "none"
    <3>1. PendingResets' = 0
      BY <1>2, <1>3, <2>2 DEF PendingResets
    <3>. QED
      BY <1>2, <1>4, <3>1
  <2>. QED
    BY <2>1, <2>2
<1>. QED
  BY <1>5, <1>6, <1>7 DEF ResetInv, ScopeOK

(* The destructor ends the scope; the counter keeps its last value.       *)
LEMMA DestroyResets ==
    ASSUME TestInv, ResetInv, TestInv', pc < Done, USBTester_destroy
    PROVE  ResetInv'
<1>1. Op = "destruct" /\ pc' = pc + 1 /\ ~inited'
  BY DEF USBTester_destroy, Op, Next_pc
<1>2. resetCount' = resetCount
  BY DEF USBTester_destroy
<1>3. ScopeOK'
  BY <1>1, ScopeStep
<1>. QED
  BY <1>1, <1>2, <1>3, PendingType, BoundsAssumption DEF ResetInv, ScopeOK

(* clear_reset_count: nothing is latched or about to be, so the zeroed    *)
(* counter matches the empty budget.                                       *)
LEMMA ClearResets ==
    ASSUME TestInv, ResetInv, TestInv', pc < Done, clear_reset_count
    PROVE  ResetInv'
<1>1. Op = "clear" /\ Instr.op = "clear" /\ pc' = pc + 1
  BY DEF clear_reset_count, Op, Next_pc
<1>2. /\ devState = "configured" /\ ~pendingReset /\ session # "none"
      /\ kvOut = "none"
  BY <1>1, QuietKeys DEF ResetInv, TestInv, InvDevice
<1>3. /\ inited' = inited /\ conn' = conn /\ pendingReset' = pendingReset
      /\ resetCount' = 0 /\ session' = session /\ kvOut' = kvOut
  BY DEF clear_reset_count, hostVars
<1>4. ResetBudget(pc') = 0
  BY <1>1, BudgetAdvance DEF TestInv, Zeroes, Bump
<1>5. PendingResets' = 0
  BY <1>2, <1>3 DEF PendingResets
<1>6. resetCount' \in 0..MaxResets
  BY <1>3, BoundsAssumption
<1>7. ScopeOK'
  BY <1>1, <1>3, ScopeStep
<1>. QED
  BY <1>3, <1>4, <1>5, <1>6, <1>7, PendingType, BoundsAssumption DEF ResetInv, ScopeOK

(* disconnect(): the host can no longer see the device attach.            *)
LEMMA DisconnectResets ==
    ASSUME TestInv, ResetInv, TestInv', pc < Done, disconnect
    PROVE  ResetInv'
<1>1. Op = "disconnect" /\ Instr.op = "disconnect" /\ pc' = pc + 1
  BY DEF disconnect, Op, Next_pc
<1>2. /\ inited' = inited /\ ~conn' /\ pendingReset' = pendingReset
      /\ resetCount' = resetCount /\ session' = session /\ kvOut' = kvOut
  BY DEF disconnect, hostVars
<1>3. ResetBudget(pc') = ResetBudget(pc) /\ ResetBudget(pc) \in 0..MaxResets
  BY <1>1, BudgetAdvance DEF TestInv, Zeroes, Bump
<1>4. PendingResets' <= PendingResets
  BY <1>2 DEF PendingResets
<1>5. ScopeOK'
  BY <1>1, <1>2, ScopeStep
<1>. QED
  BY <1>2, <1>3, <1>4, <1>5, PendingType, BoundsAssumption DEF ResetInv, ScopeOK

(* connect(): the enumeration the host may start is charged to the call.  *)
LEMMA ConnectResets ==
    ASSUME TestInv, ResetInv, TestInv', pc < Done, connect
    PROVE  ResetInv'
<1>1. Op = "connect" /\ Instr.op = "connect" /\ pc' = pc + 1
  BY DEF connect, Op, Next_pc
<1>2. /\ inited' = inited /\ conn' /\ pendingReset' = pendingReset
      /\ resetCount' = resetCount /\ session' = session /\ kvOut' = kvOut
  BY DEF connect, hostVars
<1>3. ResetBudget(pc') = ResetBudget(pc) + 1 /\ ResetBudget(pc) \in 0..MaxResets
  BY <1>1, BudgetAdvance DEF TestInv, Zeroes, Bump
<1>4. PendingResets' <= PendingResets + 1
  BY <1>2 DEF PendingResets
<1>5. ScopeOK'
  BY <1>1, <1>2, ScopeStep
<1>. QED
  BY <1>2, <1>3, <1>4, <1>5, PendingType, BoundsAssumption DEF ResetInv, ScopeOK

(* wait_us: the host forgets only a device that is off the bus.           *)
LEMMA WaitResets ==
    ASSUME TestInv, ResetInv, TestInv', pc < Done, wait_us
    PROVE  ResetInv'
<1>1. Op = "wait" /\ Instr.op = "wait" /\ pc' = pc + 1
  BY DEF wait_us, Op, Next_pc
<1>2. /\ inited' = inited /\ conn' = conn /\ pendingReset' = pendingReset
      /\ resetCount' = resetCount /\ kvOut' = kvOut
      /\ (conn => session' = session)
  BY DEF wait_us
<1>3. ResetBudget(pc') = ResetBudget(pc) /\ ResetBudget(pc) \in 0..MaxResets
  BY <1>1, BudgetAdvance DEF TestInv, Zeroes, Bump
<1>4. PendingResets' = PendingResets
  BY <1>2 DEF PendingResets
<1>5. ScopeOK'
  BY <1>1, <1>2, ScopeStep
<1>. QED
  BY <1>2, <1>3, <1>4, <1>5, PendingType, BoundsAssumption DEF ResetInv, ScopeOK
-----------------------------------------------------------------------------
(* The device's process() and the host, with the test thread where it is. *)

(* The budget of the call the test thread is in.                          *)
LEMMA BudgetHere ==
    ASSUME TestInv
    PROVE  ResetBudget(pc) \in 0..MaxResets
BY BudgetBound DEF TestInv, InvTypes

(* process(): a latched reset moves from the resets to come to the count. *)
LEMMA ProcessResets ==
    ASSUME TestInv, ResetInv, ProcessReset
    PROVE  ResetInv'
<1>1. pc' = pc /\ Op' = Op /\ Arg' = Arg
  BY TestFrame DEF ProcessReset, testVars
<1>2. /\ inited /\ pendingReset /\ ~pendingReset' /\ resetCount' = resetCount + 1
      /\ inited' = inited /\ conn' = conn /\ session' = session /\ kvOut' = kvOut
  BY DEF ProcessReset, hostVars
<1>3. PendingResets' = PendingResets - 1
  BY <1>2 DEF PendingResets
<1>4. resetCount' \in 0..MaxResets
  <2>1. resetCount \in 0..MaxResets
        /\ resetCount + PendingResets <= ResetBudget(pc)
    BY <1>2 DEF ResetInv
  <2>2. PendingResets >= 1
    <3>1. pendingReset
      BY <1>2
    <3>2. (IF pendingReset THEN 1 ELSE 0) = 1
      BY <3>1
    <3>. QED
      BY <3>2 DEF PendingResets
  <2>3. ResetBudget(pc) \in 0..MaxResets
    BY BudgetHere
  <2>. QED
    BY <1>2, <2>1, <2>2, <2>3, PendingType, BoundsAssumption
<1>5. Op # "clear"
  BY <1>2 DEF ResetInv
<1>. QED
  BY <1>1, <1>2, <1>3, <1>4, <1>5, PendingType, BudgetHere
  DEF ResetInv, ScopeOK, OutsideScope

(* The host sees the device attach: the reset it will latch is now        *)
(* latched.                                                                *)
LEMMA AttachResets ==
    ASSUME TestInv, ResetInv, HostAttach
    PROVE  ResetInv'
<1>1. pc' = pc /\ Op' = Op /\ Arg' = Arg
  BY TestFrame DEF HostAttach, testVars
<1>2. /\ inited /\ conn /\ session = "none" /\ session' = "enumerating"
      /\ pendingReset' /\ kvOut' = kvOut
      /\ inited' = inited /\ conn' = conn /\ resetCount' = resetCount
      /\ devState' = devState
  BY DEF HostAttach
<1>3. PendingResets' <= PendingResets
  BY <1>2 DEF PendingResets
<1>4. Op # "clear"
  BY <1>2 DEF ResetInv, TestInv, InvDevice
<1>. QED
  BY <1>1, <1>2, <1>3, <1>4, PendingType, BudgetHere
  DEF ResetInv, ScopeOK, OutsideScope

(* SET_ADDRESS and SET_CONFIGURATION latch nothing, and no clear is       *)
(* waiting on a device that is not configured yet.                        *)
LEMMA EnumerateResets ==
    ASSUME TestInv, ResetInv, HostSetAddress \/ HostSetConfiguration
    PROVE  ResetInv'
<1>1. pc' = pc /\ Op' = Op /\ Arg' = Arg
  BY TestFrame DEF HostSetAddress, HostSetConfiguration, testVars
<1>2. /\ devState \in {"default", "addressed"} /\ session # "none"
      /\ session' # "none" /\ pendingReset' = pendingReset /\ kvOut' = kvOut
      /\ inited' = inited /\ conn' = conn /\ resetCount' = resetCount
  BY DEF HostSetAddress, HostSetConfiguration, hostVars
<1>3. PendingResets' = PendingResets
  BY <1>2 DEF PendingResets
<1>4. Op # "clear"
  BY <1>2 DEF ResetInv
<1>. QED
  BY <1>1, <1>2, <1>3, <1>4 DEF ResetInv, ScopeOK, OutsideScope

(* The host reads a key: a device_reset_test request it answers with a    *)
(* reset becomes the latched reset; any other key it takes is gone.       *)
LEMMA ServeResets ==
    ASSUME TestInv, ResetInv, HostServe
    PROVE  ResetInv'
<1>1. pc' = pc /\ Op' = Op /\ Arg' = Arg
  BY TestFrame DEF HostServe, testVars
<1>2. /\ kvOut # "none" /\ kvOut' = "none"
      /\ inited' = inited /\ conn' = conn /\ resetCount' = resetCount
      /\ devState' = devState
  BY DEF HostServe
<1>3. /\ session' = "none" => session = "none"
      /\ pendingReset' # pendingReset => kvOut = "device_reset_test"
  BY DEF HostServe
<1>4. PendingResets' <= PendingResets
  BY <1>2, <1>3 DEF PendingResets
<1>5. Op # "clear"
  BY <1>2 DEF TestInv, InvHost
<1>. QED
  BY <1>1, <1>2, <1>4, <1>5, PendingType, BudgetHere
  DEF ResetInv, ScopeOK, OutsideScope

(* The host's answer touches neither the device nor the keys it sends.    *)
LEMMA ReplyResets ==
    ASSUME TestInv, ResetInv, HostReply
    PROVE  ResetInv'
<1>1. pc' = pc /\ Op' = Op /\ Arg' = Arg
  BY TestFrame DEF HostReply, testVars
<1>2. /\ inited' = inited /\ conn' = conn /\ resetCount' = resetCount
      /\ devState' = devState /\ pendingReset' = pendingReset
      /\ session' = session /\ kvOut' = kvOut
  BY DEF HostReply, devVars
<1>3. PendingResets' = PendingResets
  BY <1>2 DEF PendingResets
<1>. QED
  BY <1>1, <1>2, <1>3 DEF ResetInv, ScopeOK, OutsideScope
-----------------------------------------------------------------------------
(* ResetInv is preserved by every step, given TestInv before and after.   *)
LEMMA ResetInvStep ==
    ASSUME DetachDetectUs <= MIN_DISCONNECT_TIME_US, TestInv, ResetInv,
           [Next]_vars
    PROVE  ResetInv'
<1>1. TestInv'
  BY TestInvStep
<1>2. CASE TestStep
  <2> USE <1>1, <1>2 DEF TestStep
  <2>1. CASE greentea_send_kv    BY <2>1, SendResets
  <2>2. CASE ParseResetSupport   BY <2>2, SupportResets
  <2>3. CASE USBTester           BY <2>3, ConstructResets
  <2>4. CASE USBTester_destroy   BY <2>4, DestroyResets
  <2>5. CASE clear_reset_count   BY <2>5, ClearResets
  <2>6. CASE disconnect          BY <2>6, DisconnectResets
  <2>7. CASE connect             BY <2>7, ConnectResets
  <2>8. CASE wait_us             BY <2>8, WaitResets
  <2>9. CASE \/ greentea_parse_kv \/ WaitReady \/ get_reset_count
             \/ configured \/ AssertConfigured
    BY <2>9, QuietResets
  <2>. QED
    BY <2>1, <2>2, <2>3, <2>4, <2>5, <2>6, <2>7, <2>8, <2>9
<1>3. CASE ProcessReset
  BY <1>3, ProcessResets
<1>4. CASE HostStep
  <2>1. CASE HostAttach            BY <2>1, AttachResets
  <2>2. CASE HostSetAddress \/ HostSetConfiguration
    BY <2>2, EnumerateResets
  <2>3. CASE HostServe             BY <2>3, ServeResets
  <2>4. CASE HostReply             BY <2>4, ReplyResets
  <2>. QED
    BY <1>4, <2>1, <2>2, <2>3, <2>4 DEF HostStep
<1>5. CASE UNCHANGED vars
  <2>1. pc' = pc /\ Op' = Op /\ Arg' = Arg
    BY <1>5, TestFrame DEF vars, testVars
  <2>2. PendingResets' = PendingResets
    BY <1>5 DEF vars, devVars, hostVars, PendingResets
  <2>. QED
    BY <1>5, <2>1, <2>2 DEF vars, devVars, hostVars, ResetInv, OutsideScope
<1>. QED
  BY <1>2, <1>3, <1>4, <1>5 DEF Next

(* TestInv and ResetInv hold together in every reachable state when the   *)
(* host notices a detach within MIN_DISCONNECT_TIME_US.                    *)
THEOREM ResetInvariant ==
    ASSUME DetachDetectUs <= MIN_DISCONNECT_TIME_US
    PROVE  Spec => [](TestInv /\ ResetInv)
<1>1. Init => TestInv /\ ResetInv
  BY InitTestInv, InitResetInv
<1>2. TestInv /\ ResetInv /\ [Next]_vars => (TestInv /\ ResetInv)'
  BY TestInvStep, ResetInvStep
<1>. QED
  BY <1>1, <1>2, PTL DEF Spec

=============================================================================
