---------------------------- MODULE USBPhyProofs ----------------------------
(***************************************************************************)
(* Proofs about USBPhy for every set of endpoints: the type invariant and  *)
(* that in and out events only reach the caller for endpoints it has      *)
(* added, through an inductive invariant on the latched events; that the  *)
(* PHY refines the abstract event contract USBPhyContract; and that the   *)
(* caller's view of power and suspend is in step once the latch is empty.  *)
(***************************************************************************)
EXTENDS USBPhy, TLAPS

(* The event constructors build events of the record type.                 *)
LEMMA EventsTyped ==
    /\ \A k \in Kinds : Ev(k) \in Event
    /\ \A b \in BOOLEAN : PowerEv(b) \in Event /\ SuspendEv(b) \in Event
    /\ \A e \in Eps : EpEv(e) \in Event
BY DEF Ev, PowerEv, SuspendEv, EpEv, Event, Kinds, Eps

(* Latching an event into a set of events gives a set of events.           *)
LEMMA LatchTyped ==
    ASSUME NEW p \in SUBSET Event, NEW ev \in Event
    PROVE  Latch(p, ev) \in SUBSET Event
BY DEF Latch

(* Every step keeps the type of the state.                                *)
LEMMA TypeStep == TypeOK /\ [Next]_vars => TypeOK'
<1> SUFFICES ASSUME TypeOK, [Next]_vars PROVE TypeOK'
  OBVIOUS
<1> USE DEF TypeOK, phyVars, devVars
<1>1. CASE init
  BY <1>1 DEF init
<1>2. CASE deinit
  BY <1>2 DEF deinit, Ep0States, DevEp0States
<1>3. CASE connect \/ disconnect \/ sof_enable
  BY <1>3 DEF connect, disconnect, sof_enable
<1>4. CASE sof_disable
  BY <1>4 DEF sof_disable
<1>5. CASE ep0_read \/ ep0_write \/ ep0_stall
  BY <1>5 DEF ep0_read, ep0_write, ep0_stall, Ep0Arm, Ep0States, DevEp0States
<1>6. ASSUME NEW e \in Eps,
             (endpoint_add(e) \/ endpoint_remove(e) \/
              endpoint_stall(e) \/ endpoint_unstall(e))
       PROVE TypeOK'
  BY <1>6 DEF endpoint_add, endpoint_remove, endpoint_stall, endpoint_unstall
<1>7. ASSUME NEW e \in Eps,
             (endpoint_read(e) \/ endpoint_write(e) \/ endpoint_abort(e))
       PROVE TypeOK'
  BY <1>7 DEF endpoint_read, endpoint_write, EndpointStart, endpoint_abort
<1>8. ASSUME NEW e \in Eps, HostTransfer(e) PROVE TypeOK'
  BY <1>8, EventsTyped DEF HostTransfer
<1>9. CASE PowerChange
  <2>1. PowerEv(FALSE) \in Event /\ PowerEv(TRUE) \in Event
    BY EventsTyped
  <2>2. Latch(pending, PowerEv(TRUE)) \in SUBSET Event
    BY <2>1, LatchTyped
  <2>. QED
    BY <1>9, <2>1, <2>2 DEF PowerChange, Ep0States
<1>10. CASE BusReset
  BY <1>10, EventsTyped DEF BusReset, Ep0States, Kinds
<1>11. CASE BusSuspend \/ BusResume \/ remote_wakeup
  <2>1. Latch(pending, SuspendEv(TRUE)) \in SUBSET Event
        /\ Latch(pending, SuspendEv(FALSE)) \in SUBSET Event
    BY EventsTyped, LatchTyped
  <2>. QED
    BY <1>11, <2>1 DEF BusSuspend, BusResume, remote_wakeup
<1>12. CASE Frame \/ SetupPacket
  BY <1>12, EventsTyped DEF Frame, SetupPacket, Kinds, Ep0States
<1>13. CASE HostIn0 \/ HostOut0 \/ HostStalled
  BY <1>13, EventsTyped DEF HostIn0, HostOut0, Ep0Stage, HostStalled,
                            Kinds, Ep0States
<1>14. CASE process
  <2>1. PICK ev \in pending : DeliverOne(ev)
    BY <1>14 DEF process
  <2>2. ev \in Event
    OBVIOUS
  <2>3. evt' \in Event \cup {NoEvent}
    BY <2>1, <2>2 DEF DeliverOne, Deliver
  <2>4. CASE ev.kind = "power" /\ OnPower(ev)
    BY <2>1, <2>3, <2>4 DEF DeliverOne, Deliver, OnPower, Event, DevEp0States
  <2>5. CASE ev.kind = "reset" /\ OnReset(ev)
    BY <2>1, <2>3, <2>5 DEF DeliverOne, Deliver, OnReset, Ep0States, DevEp0States
  <2>6. CASE ev.kind = "suspend" /\ OnSuspend(ev)
    BY <2>1, <2>3, <2>6 DEF DeliverOne, Deliver, OnSuspend, Event
  <2>7. CASE ev.kind = "setup" /\ OnSetup(ev)
    BY <2>1, <2>3, <2>7 DEF DeliverOne, Deliver, OnSetup, Ep0States, DevEp0States
  <2>8. CASE ev.kind \in {"ep0_in", "ep0_out"} /\ OnEp0Stage(ev)
    BY <2>1, <2>3, <2>8 DEF DeliverOne, Deliver, OnEp0Stage, DevEp0States
  <2>9. CASE ev.kind \in {"sof", "in", "out"} /\ OnOther(ev)
    BY <2>1, <2>3, <2>9 DEF DeliverOne, Deliver, OnOther
  <2>. QED
    BY <2>1, <2>4, <2>5, <2>6, <2>7, <2>8, <2>9 DEF DeliverOne, Deliver
<1>15. CASE UNCHANGED vars
  BY <1>15 DEF vars, phyVars, devVars
<1>. QED
  BY <1>1, <1>2, <1>3, <1>4, <1>5, <1>6, <1>7, <1>8, <1>9, <1>10, <1>11,
     <1>12, <1>13, <1>14, <1>15 DEF Next

(* The type of the state is kept by every behaviour of the specification. *)
THEOREM TypeCorrect == Spec => []TypeOK
<1>1. Init => TypeOK
  BY DEF Init, TypeOK, Ep0States, DevEp0States, NoEvent
<1>. QED
  BY <1>1, TypeStep, PTL DEF Spec

(* An endpoint event is determined by its endpoint, and is neither a bus   *)
(* reset nor any other kind of event.                                      *)
LEMMA EpEvFacts ==
    ASSUME NEW e \in Eps
    PROVE  /\ EpEv(e).kind \in {"in", "out"}
           /\ EpEv(e).ep = e
           /\ EpEv(e) # Ev("reset")
BY DEF EpEv, Ev

(* Every step keeps PendingForAdded.                                        *)
LEMMA PendingForAddedStep ==
    PendingForAdded /\ [Next]_vars => PendingForAdded'
<1> SUFFICES ASSUME PendingForAdded, [Next]_vars PROVE PendingForAdded'
  OBVIOUS
<1>0. TypeOK'
  BY TypeStep DEF PendingForAdded
<1> USE <1>0 DEF PendingForAdded, phyVars, devVars
<1>1. CASE init \/ connect \/ disconnect \/ sof_enable \/ ep0_read
           \/ ep0_write \/ ep0_stall \/ HostStalled
  BY <1>1 DEF init, connect, disconnect, sof_enable, ep0_read, ep0_write,
              ep0_stall, Ep0Arm, HostStalled
<1>2. CASE deinit
  BY <1>2 DEF deinit
<1>3. CASE sof_disable
  BY <1>3 DEF sof_disable
<1>4. ASSUME NEW e \in Eps,
             (endpoint_add(e) \/ endpoint_stall(e) \/ endpoint_unstall(e))
      PROVE PendingForAdded'
  BY <1>4 DEF endpoint_add, endpoint_stall, endpoint_unstall
<1>5. ASSUME NEW e \in Eps, endpoint_remove(e) PROVE PendingForAdded'
  <2>1. \A ev \in pending' : ev.kind \in {"in", "out"} => ev.ep # e
    BY <1>5, EpEvFacts DEF endpoint_remove
  <2>. QED
    BY <1>5, <2>1 DEF endpoint_remove
<1>6. ASSUME NEW e \in Eps,
             (endpoint_read(e) \/ endpoint_write(e) \/ endpoint_abort(e))
      PROVE PendingForAdded'
  BY <1>6 DEF endpoint_read, endpoint_write, EndpointStart, endpoint_abort
<1>7. ASSUME NEW e \in Eps, HostTransfer(e) PROVE PendingForAdded'
  <2>1. e \in added /\ pending' = pending \cup {EpEv(e)}
    BY <1>7 DEF HostTransfer
  <2>2. Ev("reset") \notin pending'
    BY <1>7, <2>1, EpEvFacts DEF HostTransfer
  <2>. QED
    BY <1>7, <2>1, <2>2, EpEvFacts DEF HostTransfer
<1>8. CASE PowerChange
  BY <1>8 DEF PowerChange, Latch, PowerEv, Ev
<1>9. CASE BusReset
  BY <1>9 DEF BusReset, Ev
<1>10. CASE BusSuspend \/ BusResume \/ remote_wakeup
  BY <1>10 DEF BusSuspend, BusResume, remote_wakeup, Latch, SuspendEv, Ev
<1>11. CASE Frame \/ SetupPacket \/ HostIn0 \/ HostOut0
  BY <1>11 DEF Frame, SetupPacket, HostIn0, HostOut0, Ep0Stage, Ev
<1>12. CASE process
  <2>1. PICK ev \in pending : DeliverOne(ev)
    BY <1>12 DEF process
  <2>2. pending' \subseteq pending
    BY <2>1 DEF DeliverOne, Deliver, OnPower, OnReset, OnSuspend, OnSetup,
                OnEp0Stage, OnOther
  <2>3. CASE ev.kind = "reset"
    <3>1. ev = Ev("reset")
      BY <2>3
    <3>2. \A o \in pending : o.kind \notin {"in", "out"}
      BY <3>1
    <3>. QED
      BY <2>1, <2>2, <2>3, <3>2 DEF DeliverOne, Deliver, OnReset
  <2>4. CASE ev.kind # "reset"
    BY <2>1, <2>2, <2>4 DEF DeliverOne, Deliver, OnPower, OnSuspend, OnSetup,
                            OnEp0Stage, OnOther
  <2>. QED
    BY <2>3, <2>4
<1>13. CASE UNCHANGED vars
  BY <1>13 DEF vars
<1>. QED
  BY <1>1, <1>2, <1>3, <1>4, <1>5, <1>6, <1>7, <1>8, <1>9, <1>10, <1>11,
     <1>12, <1>13 DEF Next

(* PendingForAdded holds in every state of every behaviour.                *)
THEOREM PendingForAddedInvariant == Spec => []PendingForAdded
<1>1. Init => PendingForAdded
  BY DEF Init, PendingForAdded, TypeOK, Ep0States, DevEp0States, NoEvent
<1>. QED
  BY <1>1, PendingForAddedStep, PTL DEF Spec

-----------------------------------------------------------------------------
(* The refinement of USBPhyContract.                                       *)

(* The latched events are events the contract would allow now: nothing is *)
(* latched outside init .. deinit, a latched power change carries the     *)
(* current power state, nothing else is latched while unpowered, and a    *)
(* latched frame is one sof while sof_enable is in force.                  *)
PendingAllowed ==
    /\ TypeOK
    /\ ~initialized => pending = {}
    /\ \A ev \in pending : ev.kind = "power" => ev = PowerEv(powered)
    /\ \A ev \in pending : ev.kind # "power" => powered
    /\ \A ev \in pending : ev.kind = "sof" => ev = Ev("sof") /\ sofOn

(* process() only ever takes events out of the latch.                      *)
LEMMA ProcessShrinks ==
    ASSUME NEW ev, DeliverOne(ev)
    PROVE  pending' \subseteq pending
BY DEF DeliverOne, Deliver, OnPower, OnReset, OnSuspend, OnSetup,
       OnEp0Stage, OnOther

(* Every step keeps PendingAllowed.                                         *)
LEMMA PendingAllowedStep ==
    PendingAllowed /\ [Next]_vars => PendingAllowed'
<1> SUFFICES ASSUME PendingAllowed, [Next]_vars PROVE PendingAllowed'
  OBVIOUS
<1>0. TypeOK'
  BY TypeStep DEF PendingAllowed
<1> USE <1>0 DEF PendingAllowed, phyVars, devVars
<1>1. CASE init
  BY <1>1 DEF init
<1>2. CASE connect \/ disconnect \/ sof_enable \/ ep0_read \/ ep0_write
           \/ ep0_stall \/ HostStalled
  BY <1>2 DEF connect, disconnect, sof_enable, ep0_read, ep0_write,
              ep0_stall, Ep0Arm, HostStalled
<1>3. CASE deinit
  BY <1>3 DEF deinit
<1>4. CASE sof_disable
  BY <1>4 DEF sof_disable
<1>5. ASSUME NEW e \in Eps,
             (endpoint_add(e) \/ endpoint_remove(e) \/ endpoint_stall(e)
              \/ endpoint_unstall(e) \/ endpoint_read(e) \/ endpoint_write(e)
              \/ endpoint_abort(e))
      PROVE PendingAllowed'
  BY <1>5 DEF endpoint_add, endpoint_remove, endpoint_stall, endpoint_unstall,
              endpoint_read, endpoint_write, EndpointStart, endpoint_abort
<1>6. ASSUME NEW e \in Eps, HostTransfer(e) PROVE PendingAllowed'
  BY <1>6, EpEvFacts DEF HostTransfer, Active, OnBus
<1>7. CASE PowerChange
  <2>0. /\ initialized' = initialized /\ sofOn' = sofOn
        /\ powered' = ~powered
    BY <1>7 DEF PowerChange
  <2>1. PowerEv(FALSE).kind = "power" /\ PowerEv(TRUE).kind = "power"
    BY DEF PowerEv
  <2>4. ~initialized => pending' = {}
    BY <1>7 DEF PowerChange
  <2>2. CASE powered
    <3>1. pending' \subseteq {PowerEv(FALSE)}
      BY <1>7, <2>2 DEF PowerChange
    <3>2. PowerEv(powered') = PowerEv(FALSE)
      BY <2>0, <2>2
    <3>. QED
      BY <2>0, <2>1, <2>4, <3>1, <3>2
  <2>3. CASE ~powered
    <3>1. \A o \in pending : o.kind = "power"
      BY <2>3
    <3>2. pending' \subseteq {PowerEv(TRUE)}
      BY <1>7, <2>1, <2>3, <3>1 DEF PowerChange, Latch
    <3>3. PowerEv(powered') = PowerEv(TRUE) /\ powered'
      BY <2>0, <2>3
    <3>. QED
      BY <2>0, <2>1, <2>4, <3>2, <3>3
  <2>. QED
    BY <2>2, <2>3
<1>8. CASE BusReset
  <2>1. /\ initialized /\ powered
        /\ UNCHANGED <<initialized, powered, sofOn>>
        /\ pending' = {o \in pending : o.kind = "power"} \cup {Ev("reset")}
    BY <1>8 DEF BusReset, OnBus
  <2>2. Ev("reset").kind = "reset"
    BY DEF Ev
  <2>. QED
    BY <2>1, <2>2
<1>9. CASE BusSuspend \/ BusResume \/ remote_wakeup
  BY <1>9 DEF BusSuspend, BusResume, remote_wakeup, OnBus, Latch, SuspendEv
<1>10. CASE Frame \/ SetupPacket \/ HostIn0 \/ HostOut0
  BY <1>10 DEF Frame, SetupPacket, HostIn0, HostOut0, Ep0Stage, Active,
               OnBus, Ev
<1>11. CASE process
  <2>1. PICK ev \in pending : DeliverOne(ev)
    BY <1>11 DEF process
  <2>2. pending' \subseteq pending
    BY <2>1, ProcessShrinks
  <2>. QED
    BY <2>1, <2>2 DEF DeliverOne, Deliver
<1>12. CASE UNCHANGED vars
  BY <1>12 DEF vars
<1>. QED
  BY <1>1, <1>2, <1>3, <1>4, <1>5, <1>6, <1>7, <1>8, <1>9, <1>10, <1>11,
     <1>12 DEF Next

(* PendingAllowed holds in every state of every behaviour.                 *)
THEOREM PendingAllowedInvariant == Spec => []PendingAllowed
<1>1. Init => PendingAllowed
  BY DEF Init, PendingAllowed, TypeOK, Ep0States, DevEp0States, NoEvent
<1>. QED
  BY <1>1, PendingAllowedStep, PTL DEF Spec


(* The PHY's events are the contract's events.                             *)
LEMMA EventIsContractEvent == Event = Contract!Event
BY DEF Event, Contract!Event, Kinds, Contract!Kinds, Eps, Contract!Eps,
       NoEp, Contract!NoEp

(* A delivered event is one the contract allows, and its step is the       *)
(* contract's Send: evt becomes the event and only a reset changes added.  *)
LEMMA DeliverRefines ==
    ASSUME PendingForAdded, PendingAllowed, NEW ev \in pending, DeliverOne(ev)
    PROVE  Contract!Send(ev)
<1>1. initialized
  BY DEF DeliverOne
<1>2. ev.kind = "power" => ev.val = powered
  BY DEF PendingAllowed, PowerEv
<1>3. ev.kind \in {"in", "out"} =>
        ev.ep \in added /\ (ev.kind = "in") = (ev.ep \in InEps)
  BY DEF PendingForAdded, EpEv
<1>4. /\ evt' = ev
      /\ added' = IF ev.kind = "reset" THEN {} ELSE added
      /\ UNCHANGED <<initialized, powered, sofOn>>
  BY DEF DeliverOne, Deliver, OnPower, OnReset, OnSuspend, OnSetup,
         OnEp0Stage, OnOther
<1>. QED
  BY <1>1, <1>2, <1>3, <1>4 DEF PendingAllowed, Contract!Send, Contract!Allowed

(* Every step of the PHY is a step of the contract or leaves the contract's *)
(* state alone.                                                             *)
LEMMA ContractStep ==
    PendingForAdded /\ PendingAllowed /\ [Next]_vars
        => [Contract!Next]_Contract!vars
<1> SUFFICES ASSUME PendingForAdded, PendingAllowed, [Next]_vars
             PROVE  [Contract!Next]_Contract!vars
  OBVIOUS
<1> USE DEF Contract!vars
<1>1. CASE init
  BY <1>1 DEF init, Contract!Next, Contract!Start
<1>2. CASE deinit
  BY <1>2 DEF deinit, Contract!Next, Contract!Stop
<1>3. CASE sof_enable
  BY <1>3 DEF sof_enable, devVars, Contract!Next, Contract!SetFrames
<1>4. CASE sof_disable
  BY <1>4 DEF sof_disable, devVars, Contract!Next, Contract!SetFrames
<1>5. ASSUME NEW e \in Eps, endpoint_add(e) PROVE [Contract!Next]_Contract!vars
  BY <1>5 DEF endpoint_add, devVars, Contract!Next, Contract!AddEp,
                    Eps, Contract!Eps
<1>6. ASSUME NEW e \in Eps, endpoint_remove(e)
      PROVE [Contract!Next]_Contract!vars
  BY <1>6 DEF endpoint_remove, devVars, Contract!Next, Contract!RemoveEp,
                    Eps, Contract!Eps
<1>7. CASE PowerChange
  BY <1>7 DEF PowerChange, devVars, Contract!Next, Contract!PowerFlip
<1>8. CASE process
  <2>1. PICK ev \in pending : DeliverOne(ev)
    BY <1>8 DEF process
  <2>2. ev \in Contract!Event
    BY EventIsContractEvent DEF PendingAllowed, TypeOK
  <2>3. Contract!Send(ev)
    BY <2>1, DeliverRefines
  <2>. QED
    BY <2>2, <2>3 DEF Contract!Next
<1>9. CASE \/ connect \/ disconnect \/ ep0_read \/ ep0_write \/ ep0_stall
           \/ BusReset \/ BusSuspend \/ BusResume \/ remote_wakeup
           \/ Frame \/ SetupPacket \/ HostIn0 \/ HostOut0 \/ HostStalled
  BY <1>9 DEF connect, disconnect, ep0_read, ep0_write, ep0_stall,
                    Ep0Arm, BusReset, BusSuspend, BusResume, remote_wakeup,
                    Frame, SetupPacket, HostIn0, HostOut0, Ep0Stage,
                    HostStalled, phyVars, devVars
<1>10. ASSUME NEW e \in Eps,
              (endpoint_stall(e) \/ endpoint_unstall(e) \/ endpoint_read(e)
               \/ endpoint_write(e) \/ endpoint_abort(e) \/ HostTransfer(e))
       PROVE [Contract!Next]_Contract!vars
  BY <1>10 DEF endpoint_stall, endpoint_unstall, endpoint_read,
                     endpoint_write, EndpointStart, endpoint_abort,
                     HostTransfer, devVars
<1>11. CASE UNCHANGED vars
  BY <1>11 DEF vars, phyVars, devVars
<1>. QED
  BY <1>1, <1>2, <1>3, <1>4, <1>5, <1>6, <1>7, <1>8, <1>9, <1>10, <1>11
     DEF Next

(* USBPhy.h's "Defined behavior", for every set of endpoints: whatever the *)
(* interleaving of calls, interrupts and process(), the events the sink    *)
(* receives form a behaviour of USBPhyContract under the mapping Contract: *)
(* none after deinit or sof_disable, only a current power change while    *)
(* unpowered, in and out only for added endpoints.                         *)
THEOREM ContractRefinement == Spec => ContractRefined
<1>1. Init => Contract!Init
  BY DEF Init, Contract!Init, NoEvent, Contract!NoEvent, NoEp, Contract!NoEp
<1>2. Spec => [](PendingForAdded /\ PendingAllowed)
  BY PendingForAddedInvariant, PendingAllowedInvariant, PTL
<1>. QED
  BY <1>1, <1>2, ContractStep, PTL DEF Spec, ContractRefined, Contract!Spec


-----------------------------------------------------------------------------
(* SinkInSync.                                                             *)

\* An event of kind k is latched.
Latched(k) == \E ev \in pending : ev.kind = k

(* The inductive invariant behind SinkInSync: the caller's view of power   *)
(* is the hardware's unless a power event is latched; its view of suspend *)
(* is the hardware's unless a power, reset or suspend event is latched; a *)
(* latched suspend event carries the current suspend state, and a latched *)
(* power or reset event with no suspend after it means the bus is not     *)
(* suspended (both end a suspend, and the caller's handlers of both clear *)
(* its view of it).                                                        *)
SinkInv ==
    /\ PendingAllowed
    /\ ~initialized => ~suspended /\ ~devSuspended
    /\ ~powered => ~suspended
    /\ \A ev \in pending : ev.kind = "suspend" => ev = SuspendEv(suspended)
    /\ initialized /\ ~Latched("power") => devPowered = powered
    /\ initialized /\ ~Latched("power") /\ ~Latched("reset")
          /\ ~Latched("suspend") => devSuspended = suspended
    /\ (Latched("power") \/ Latched("reset")) /\ ~Latched("suspend")
          => ~suspended


(* Latching or dropping events of other kinds does not change whether an  *)
(* event of kind k is latched.                                             *)
LEMMA LatchedOther ==
    ASSUME NEW k, NEW S, \A x \in S : x.kind # k,
           pending' = pending \cup S \/ pending' = pending \ S
    PROVE  Latched(k)' = Latched(k)
BY DEF Latched

(* A suspend change latched by the bus is the only latched suspend event.  *)
LEMMA LatchSuspend ==
    ASSUME NEW b, pending' = Latch(pending, SuspendEv(b))
    PROVE  /\ Latched("suspend")'
           /\ \A ev \in pending' : ev.kind = "suspend" => ev = SuspendEv(b)
           /\ Latched("power")' = Latched("power")
           /\ Latched("reset")' = Latched("reset")
<1>1. SuspendEv(b).kind = "suspend"
  BY DEF SuspendEv
<1>2. SuspendEv(b) \in pending'
  BY DEF Latch
<1>3. \A ev \in pending' : ev.kind = "suspend" => ev = SuspendEv(b)
  BY <1>1 DEF Latch
<1>4. \A k \in {"power", "reset"} :
        \A ev \in pending : ev.kind = k => ev \in pending'
  BY <1>1 DEF Latch
<1>5. \A k \in {"power", "reset"} :
        \A ev \in pending' : ev.kind = k => ev \in pending
  BY <1>1 DEF Latch
<1>. QED
  BY <1>1, <1>2, <1>3, <1>4, <1>5 DEF Latched

\* The kinds of the events the sink's view depends on.
SinkKinds == {"power", "reset", "suspend"}

(* Every step keeps SinkInv.                                                *)
LEMMA SinkInvStep == SinkInv /\ [Next]_vars => SinkInv'
<1> SUFFICES ASSUME SinkInv, [Next]_vars PROVE SinkInv'
  OBVIOUS
<1>0. PendingAllowed'
  BY PendingAllowedStep DEF SinkInv
<1>b. /\ {initialized, powered, suspended, devPowered, devSuspended}
            \subseteq BOOLEAN
      /\ {initialized', powered', suspended', devPowered', devSuspended'}
            \subseteq BOOLEAN
  BY <1>0, TypeStep DEF SinkInv, PendingAllowed, TypeOK
<1> USE <1>0, <1>b DEF SinkInv, phyVars, devVars
<1>1. CASE init
  <2>1. pending = {} /\ pending' = {}
    BY <1>1 DEF init, PendingAllowed
  <2>. QED
    BY <1>1, <2>1 DEF init, Latched
<1>2. CASE deinit
  BY <1>2 DEF deinit, Latched
<1>3. CASE connect \/ disconnect \/ sof_enable \/ ep0_read \/ ep0_write
           \/ ep0_stall \/ HostStalled
  BY <1>3 DEF connect, disconnect, sof_enable, ep0_read, ep0_write,
              ep0_stall, Ep0Arm, HostStalled, Latched
<1>4. ASSUME NEW e \in Eps,
             (endpoint_add(e) \/ endpoint_stall(e) \/ endpoint_unstall(e)
              \/ endpoint_read(e) \/ endpoint_write(e) \/ endpoint_abort(e))
      PROVE SinkInv'
  BY <1>4 DEF endpoint_add, endpoint_stall, endpoint_unstall, endpoint_read,
              endpoint_write, EndpointStart, endpoint_abort, Latched
<1>5. ASSUME NEW S, \A x \in S : x.kind \notin SinkKinds,
             pending' = pending \cup S \/ pending' = pending \ S,
             UNCHANGED <<initialized, powered, suspended, devPowered,
                         devSuspended>>
      PROVE SinkInv'
  <2>1. /\ Latched("power")' = Latched("power")
        /\ Latched("reset")' = Latched("reset")
        /\ Latched("suspend")' = Latched("suspend")
    BY <1>5, LatchedOther DEF SinkKinds
  <2>2. \A ev \in pending' : ev.kind = "suspend" => ev = SuspendEv(suspended)
    BY <1>5 DEF SinkKinds
  <2>. QED
    BY <1>5, <2>1, <2>2
<1>6. CASE sof_disable
  <2>1. /\ pending' = pending \ {Ev("sof")}
        /\ UNCHANGED <<initialized, powered, suspended, devPowered,
                       devSuspended>>
    BY <1>6 DEF sof_disable
  <2>2. \A x \in {Ev("sof")} : x.kind \notin SinkKinds
    BY DEF Ev, SinkKinds
  <2>3. pending' = pending \cup {Ev("sof")} \/ pending' = pending \ {Ev("sof")}
    BY <2>1
  <2>. QED
    BY <2>1, <2>2, <2>3, <1>5
<1>7. ASSUME NEW e \in Eps, endpoint_remove(e) \/ HostTransfer(e)
      PROVE SinkInv'
  <2>1. /\ pending' = pending \cup {EpEv(e)} \/ pending' = pending \ {EpEv(e)}
        /\ UNCHANGED <<initialized, powered, suspended, devPowered,
                       devSuspended>>
    BY <1>7 DEF endpoint_remove, HostTransfer
  <2>2. \A x \in {EpEv(e)} : x.kind \notin SinkKinds
    BY EpEvFacts DEF SinkKinds
  <2>. QED
    BY <2>1, <2>2, <1>5
<1>8. ASSUME NEW k \in {"sof", "setup", "ep0_in", "ep0_out"},
             pending' = pending \cup {Ev(k)},
             UNCHANGED <<initialized, powered, suspended, devPowered,
                         devSuspended>>
      PROVE SinkInv'
  <2>1. \A x \in {Ev(k)} : x.kind \notin SinkKinds
    BY DEF Ev, SinkKinds
  <2>. QED
    BY <1>8, <2>1, <1>5
<1>9. CASE Frame \/ SetupPacket \/ HostIn0 \/ HostOut0
  BY <1>9, <1>8 DEF Frame, SetupPacket, HostIn0, HostOut0, Ep0Stage
<1>10. CASE PowerChange
  <2>0. /\ powered' = ~powered /\ initialized' = initialized
        /\ UNCHANGED <<devPowered, devSuspended>>
        /\ ~initialized => pending' = {}
        /\ PowerEv(FALSE).kind = "power" /\ PowerEv(TRUE).kind = "power"
    BY <1>10 DEF PowerChange, PendingAllowed, PowerEv
  <2>1. CASE powered
    <3>1. initialized => pending' = {PowerEv(FALSE)}
      BY <1>10, <2>1 DEF PowerChange
    <3>2. ~suspended'
      BY <1>10, <2>1 DEF PowerChange
    <3>. QED
      BY <2>0, <2>1, <3>1, <3>2 DEF Latched
  <2>2. CASE ~powered
    <3>1. ~suspended /\ \A o \in pending : o.kind = "power"
      BY <2>2 DEF PendingAllowed
    <3>2. initialized => pending' = {PowerEv(TRUE)}
      BY <1>10, <2>0, <2>2, <3>1 DEF PowerChange, Latch
    <3>3. suspended' = suspended
      BY <1>10, <2>2 DEF PowerChange
    <3>. QED
      BY <2>0, <2>2, <3>1, <3>2, <3>3 DEF Latched
  <2>. QED
    BY <2>1, <2>2
<1>11. CASE BusReset
  <2>1. /\ initialized /\ powered /\ ~suspended'
        /\ UNCHANGED <<initialized, powered, devPowered, devSuspended>>
        /\ pending' = {o \in pending : o.kind = "power"} \cup {Ev("reset")}
    BY <1>11 DEF BusReset, OnBus
  <2>2. Ev("reset").kind = "reset"
    BY DEF Ev
  <2>3. Latched("reset")' /\ ~Latched("suspend")'
    BY <2>1, <2>2 DEF Latched
  <2>4. \A ev \in pending' : ev.kind # "suspend"
    BY <2>1, <2>2
  <2>5. Latched("power")' = Latched("power")
    BY <2>1, <2>2 DEF Latched
  <2>. QED
    BY <2>1, <2>3, <2>4, <2>5
<1>12. ASSUME NEW b \in BOOLEAN,
              /\ initialized /\ powered /\ suspended' = b
              /\ UNCHANGED <<initialized, powered, devPowered, devSuspended>>
              /\ pending' = Latch(pending, SuspendEv(b))
       PROVE SinkInv'
  <2>1. /\ Latched("suspend")'
        /\ \A ev \in pending' : ev.kind = "suspend" => ev = SuspendEv(b)
        /\ Latched("power")' = Latched("power")
    BY <1>12, LatchSuspend
  <2>. QED
    BY <1>12, <2>1
<1>13. CASE BusSuspend \/ BusResume \/ remote_wakeup
  BY <1>13, <1>12 DEF BusSuspend, BusResume, remote_wakeup, OnBus
<1>14. CASE process
  <2>1. PICK ev \in pending : DeliverOne(ev)
    BY <1>14 DEF process
  <2>2. /\ initialized /\ \A o \in pending : Rank(ev) <= Rank(o)
        /\ UNCHANGED <<initialized, powered, suspended>>
    BY <2>1 DEF DeliverOne, Deliverable, Deliver
  <2>3. CASE ev.kind = "power"
    BY <2>1, <2>3 DEF DeliverOne, Deliver, OnPower, PendingAllowed, PowerEv,
                      Latched
  <2>4. CASE ev.kind = "reset"
    BY <2>1, <2>4 DEF DeliverOne, Deliver, OnReset, Latched
  <2>5. CASE ev.kind = "suspend"
    <3>1. ~Latched("power") /\ ~Latched("reset")
      BY <2>2, <2>5 DEF Rank, Latched
    <3>. QED
      BY <2>1, <2>5, <3>1 DEF DeliverOne, Deliver, OnSuspend, SuspendEv,
                              Latched
  <2>6. CASE ev.kind \notin SinkKinds
    <3>1. \A x \in {ev, Ev("ep0_in"), Ev("ep0_out")} : x.kind \notin SinkKinds
      BY <2>6 DEF Ev, SinkKinds
    <3>2. /\ \/ pending' = pending \ {ev}
             \/ pending' = pending \ {ev, Ev("ep0_in"), Ev("ep0_out")}
          /\ UNCHANGED <<devPowered, devSuspended>>
      BY <2>1, <2>6 DEF DeliverOne, Deliver, OnSetup, OnEp0Stage, OnOther,
                        SinkKinds
    <3>3. \A x \in {ev} : x.kind \notin SinkKinds
      BY <2>6
    <3>. QED
      BY <1>5, <2>2, <3>1, <3>2, <3>3
  <2>. QED
    BY <2>3, <2>4, <2>5, <2>6 DEF SinkKinds
<1>15. CASE UNCHANGED vars
  BY <1>15 DEF vars, Latched
<1>. QED
  BY <1>1, <1>2, <1>3, <1>4, <1>6, <1>7, <1>9, <1>10, <1>11, <1>13, <1>14,
     <1>15 DEF Next

(* USBPhy.h's power and suspend events, latched as flags that a second     *)
(* change overwrites, still leave the caller in step with the hardware:   *)
(* for every set of endpoints, once process() has handed out every latched *)
(* event, the caller's view of power and suspend is powered() and the bus's *)
(* suspend state.                                                          *)
THEOREM SinkInSyncHolds == Spec => []SinkInSync
<1>1. Init => SinkInv
  BY DEF Init, SinkInv, PendingAllowed, TypeOK, Ep0States, DevEp0States,
         NoEvent, Latched
<1>2. SinkInv => SinkInSync
  BY DEF SinkInv, SinkInSync, Latched
<1>. QED
  BY <1>1, <1>2, SinkInvStep, PTL DEF Spec


-----------------------------------------------------------------------------
(* Ep0EventsMatch.                                                         *)

\* The completion event of an endpoint-0 stage armed as d.
StageEv(d) == Ev(IF d = "write" THEN "ep0_in" ELSE "ep0_out")

(* The inductive invariant behind Ep0EventsMatch.  Endpoint 0 armed for a *)
(* stage in a transfer the host has open, and the latched completion of   *)
(* that stage, belong to the stage the caller is in, unless a SETUP is    *)
(* latched that will restart the transfer (and drop the completion).  A  *)
(* latched power or reset event, handed out before a SETUP and resetting  *)
(* the caller's stage, is latched beside an open transfer or a stage      *)
(* completion only together with a SETUP.                                 *)
Ep0Inv ==
    /\ PendingAllowed
    /\ ~powered \/ ~initialized => ~hostCtrl
    /\ \A ev \in pending :
          ev.kind \in {"setup", "ep0_in", "ep0_out"} => ev = Ev(ev.kind)
    /\ hostCtrl /\ (Latched("power") \/ Latched("reset"))
          => Ev("setup") \in pending
    /\ \A d \in {"read", "write"} :
          /\ StageEv(d) \in pending \/ (hostCtrl /\ ep0 = d)
                => devEp0 = d \/ Ev("setup") \in pending
          /\ StageEv(d) \in pending => ep0 = "nak" \/ Ev("setup") \in pending
          /\ StageEv(d) \in pending /\ (Latched("power") \/ Latched("reset"))
                => Ev("setup") \in pending


\* The kinds of the events endpoint 0's stage depends on.
Ep0Kinds == {"power", "reset", "setup", "ep0_in", "ep0_out"}

(* The events whose presence Ep0Inv speaks of.                            *)
LEMMA Ep0EvFacts ==
    /\ Ev("setup").kind = "setup"
    /\ StageEv("write") = Ev("ep0_in") /\ StageEv("read") = Ev("ep0_out")
    /\ \A d \in {"read", "write"} : StageEv(d).kind \in {"ep0_in", "ep0_out"}
BY DEF Ev, StageEv

(* Every step keeps Ep0Inv.                                                *)
LEMMA Ep0InvStep == Ep0Inv /\ [Next]_vars => Ep0Inv'
<1> SUFFICES ASSUME Ep0Inv, [Next]_vars PROVE Ep0Inv'
  OBVIOUS
<1>0. PendingAllowed'
  BY PendingAllowedStep DEF Ep0Inv
<1>b. /\ {initialized, powered, hostCtrl} \subseteq BOOLEAN
      /\ {initialized', powered', hostCtrl'} \subseteq BOOLEAN
  BY <1>0 DEF Ep0Inv, PendingAllowed, TypeOK
<1> USE <1>0, <1>b, Ep0EvFacts DEF Ep0Inv, phyVars, devVars
<1>1. ASSUME \A x : x.kind \in Ep0Kinds => (x \in pending' <=> x \in pending),
             UNCHANGED <<initialized, powered, ep0, devEp0>>,
             hostCtrl' = hostCtrl \/ hostCtrl' = FALSE
      PROVE  Ep0Inv'
  <2>1. /\ Latched("power")' = Latched("power")
        /\ Latched("reset")' = Latched("reset")
    BY <1>1 DEF Latched, Ep0Kinds
  <2>2. /\ Ev("setup") \in pending' <=> Ev("setup") \in pending
        /\ \A d \in {"read", "write"} :
              StageEv(d) \in pending' <=> StageEv(d) \in pending
    BY <1>1 DEF Ep0Kinds
  <2>3. \A ev \in pending' : ev.kind \in {"setup", "ep0_in", "ep0_out"}
                                => ev = Ev(ev.kind)
    BY <1>1 DEF Ep0Kinds
  <2>. QED
    BY <1>1, <2>1, <2>2, <2>3
<1>2. ASSUME NEW S, \A x \in S : x.kind \notin Ep0Kinds,
             pending' = pending \cup S \/ pending' = pending \ S,
             UNCHANGED <<initialized, powered, ep0, devEp0>>,
             hostCtrl' = hostCtrl \/ hostCtrl' = FALSE
      PROVE  Ep0Inv'
  BY <1>2, <1>1
<1>3. CASE init
  <2>1. pending = {} /\ pending' = {} /\ ~hostCtrl'
    BY <1>3 DEF init, PendingAllowed
  <2>. QED
    BY <2>1 DEF Latched
<1>4. CASE deinit
  BY <1>4 DEF deinit, Latched
<1>5. CASE connect \/ disconnect \/ sof_enable \/ HostStalled
  <2>1. /\ pending' = pending
        /\ UNCHANGED <<initialized, powered, ep0, devEp0>>
        /\ hostCtrl' = hostCtrl \/ hostCtrl' = FALSE
    BY <1>5 DEF connect, disconnect, sof_enable, HostStalled
  <2>. QED
    BY <2>1, <1>1
<1>6. ASSUME NEW e \in Eps,
             (endpoint_add(e) \/ endpoint_stall(e) \/ endpoint_unstall(e)
              \/ endpoint_read(e) \/ endpoint_write(e) \/ endpoint_abort(e))
      PROVE Ep0Inv'
  <2>1. /\ pending' = pending
        /\ UNCHANGED <<initialized, powered, hostCtrl, ep0, devEp0>>
    BY <1>6 DEF endpoint_add, endpoint_stall, endpoint_unstall,
                endpoint_read, endpoint_write, EndpointStart, endpoint_abort
  <2>. QED
    BY <2>1, <1>1
<1>7. CASE sof_disable \/ Frame
  <2>1. \A x \in {Ev("sof")} : x.kind \notin Ep0Kinds
    BY DEF Ev, Ep0Kinds
  <2>. QED
    BY <1>7, <2>1, <1>2 DEF sof_disable, Frame
<1>8. ASSUME NEW e \in Eps, endpoint_remove(e) \/ HostTransfer(e)
      PROVE Ep0Inv'
  <2>1. \A x \in {EpEv(e)} : x.kind \notin Ep0Kinds
    BY EpEvFacts DEF Ep0Kinds
  <2>. QED
    BY <1>8, <2>1, <1>2 DEF endpoint_remove, HostTransfer
<1>9. ASSUME NEW b \in BOOLEAN,
             pending' = Latch(pending, SuspendEv(b)),
             UNCHANGED <<initialized, powered, hostCtrl, ep0, devEp0>>
      PROVE Ep0Inv'
  <2>1. SuspendEv(b).kind = "suspend"
    BY DEF SuspendEv
  <2>2. \A x : x.kind \in Ep0Kinds => (x \in pending' <=> x \in pending)
    BY <1>9, <2>1 DEF Latch, Ep0Kinds
  <2>. QED
    BY <1>9, <2>2, <1>1
<1>10. CASE BusSuspend \/ BusResume \/ remote_wakeup
  BY <1>10, <1>9 DEF BusSuspend, BusResume, remote_wakeup
<1>11. ASSUME NEW hw \in {"read", "write", "stall"}, Ep0Arm(hw, hw)
       PROVE Ep0Inv'
  <2>1. \A d \in {"read", "write"} :
           StageEv(d) \in pending \/ (hostCtrl /\ ep0 = d)
              => Ev("setup") \in pending
    BY <1>11 DEF Ep0Arm
  <2>. QED
    BY <1>11, <2>1 DEF Ep0Arm, Latched
<1>12. CASE ep0_read \/ ep0_write \/ ep0_stall
  BY <1>12, <1>11 DEF ep0_read, ep0_write, ep0_stall
<1>13. CASE SetupPacket
  BY <1>13 DEF SetupPacket, Active, OnBus, Latched
<1>14. ASSUME NEW d \in {"read", "write"},
              Active, hostCtrl, ep0 = d, ep0' = "nak", hostCtrl' \in BOOLEAN,
              pending' = pending \cup {StageEv(d)},
              UNCHANGED <<initialized, powered, devEp0>>
       PROVE Ep0Inv'
  <2>0. /\ StageEv(d).kind \notin {"power", "reset"}
        /\ StageEv(d) = Ev(StageEv(d).kind)
    BY DEF StageEv, Ev
  <2>1. /\ Latched("power")' = Latched("power")
        /\ Latched("reset")' = Latched("reset")
    BY <1>14, <2>0 DEF Latched
  <2>2. devEp0 = d \/ Ev("setup") \in pending
    BY <1>14
  <2>3. Latched("power") \/ Latched("reset") => Ev("setup") \in pending
    BY <1>14
  <2>4. initialized' /\ powered'
    BY <1>14 DEF Active, OnBus
  <2>5. \A ev \in pending' : ev.kind \in {"setup", "ep0_in", "ep0_out"}
                                => ev = Ev(ev.kind)
    BY <1>14, <2>0
  <2>6. hostCtrl' /\ (Latched("power")' \/ Latched("reset")')
           => Ev("setup") \in pending'
    BY <1>14, <2>1, <2>3
  <2>7. ASSUME NEW d2 \in {"read", "write"}
        PROVE  /\ StageEv(d2) \in pending' \/ (hostCtrl' /\ ep0' = d2)
                     => devEp0' = d2 \/ Ev("setup") \in pending'
               /\ StageEv(d2) \in pending'
                     => ep0' = "nak" \/ Ev("setup") \in pending'
               /\ StageEv(d2) \in pending'
                  /\ (Latched("power")' \/ Latched("reset")')
                     => Ev("setup") \in pending'
    <3>1. CASE d2 = d
      BY <1>14, <2>1, <2>2, <2>3, <3>1
    <3>2. CASE d2 # d
      <4>1. StageEv(d2) # StageEv(d)
        BY <3>2 DEF StageEv, Ev
      <4>. QED
        BY <1>14, <2>1, <4>1
    <3>. QED
      BY <3>1, <3>2
  <2>. QED
    BY <1>0, <2>4, <2>5, <2>6, <2>7
<1>15. CASE HostIn0 \/ HostOut0
  BY <1>15, <1>14 DEF HostIn0, HostOut0, Ep0Stage
<1>16. ASSUME \A ev \in pending' : ev.kind \in {"power", "reset"},
              ~hostCtrl'
       PROVE Ep0Inv'
  <2>1. \A d \in {"read", "write"} : StageEv(d) \notin pending'
    BY <1>16
  <2>. QED
    BY <1>16, <2>1
<1>17. CASE PowerChange
  <2>1. PowerEv(FALSE).kind = "power"
    BY DEF PowerEv
  <2>2. CASE powered
    BY <1>17, <2>1, <2>2, <1>16 DEF PowerChange, PendingAllowed
  <2>3. CASE ~powered
    <3>1. /\ \A o \in pending : o.kind = "power"
          /\ ~hostCtrl
      BY <2>3 DEF PendingAllowed
    <3>2. \A o \in pending' : o.kind = "power"
      BY <1>17, <2>3, <3>1 DEF PowerChange, Latch, PowerEv
    <3>. QED
      BY <1>17, <2>3, <3>1, <3>2, <1>16 DEF PowerChange
  <2>. QED
    BY <2>2, <2>3
<1>18. CASE BusReset
  BY <1>18, <1>16 DEF BusReset, Ev
<1>19. CASE process
  <2>1. PICK ev \in pending : DeliverOne(ev)
    BY <1>19 DEF process
  <2>2. /\ \A o \in pending : Rank(ev) <= Rank(o)
        /\ UNCHANGED <<initialized, powered, hostCtrl>>
        /\ pending' \subseteq pending
    BY <2>1, ProcessShrinks DEF DeliverOne, Deliverable, Deliver
  <2>3. ASSUME NEW k \in {"power", "reset"}, ev.kind = k
        PROVE Ep0Inv'
    <3>1. Latched(k) /\ Ev("setup") # ev
      BY <2>3 DEF Latched
    <3>2. /\ pending' = pending \ {ev} /\ devEp0' = "idle"
          /\ ep0' = ep0 \/ ep0' = "nak"
      BY <2>1, <2>3 DEF DeliverOne, Deliver, OnPower, OnReset
    <3>3. \A d \in {"read", "write"} :
             StageEv(d) \in pending \/ (hostCtrl /\ ep0 = d)
                => Ev("setup") \in pending
      BY <3>1, <2>3
    <3>4. Latched("power")' => Latched("power")
      BY <2>2 DEF Latched
    <3>5. Latched("reset")' => Latched("reset")
      BY <2>2 DEF Latched
    <3>. QED
      BY <2>2, <3>1, <3>2, <3>3, <3>4, <3>5
  <2>4. ASSUME ev.kind \in {"setup", "ep0_in", "ep0_out"}
        PROVE ~Latched("power")' /\ ~Latched("reset")'
    <3>1. \A o \in pending : o.kind \notin {"power", "reset"}
      BY <2>2, <2>4 DEF Rank
    <3>. QED
      BY <2>2, <3>1 DEF Latched
  <2>5. CASE ev.kind = "setup"
    <3>1. /\ ep0' = "nak"
          /\ pending' = pending \ {Ev("setup"), Ev("ep0_in"), Ev("ep0_out")}
      BY <2>1, <2>5 DEF DeliverOne, Deliver, OnSetup
    <3>. QED
      BY <2>2, <2>4, <2>5, <3>1
  <2>6. ASSUME NEW d \in {"read", "write"}, ev = StageEv(d)
        PROVE Ep0Inv'
    <3>1. ev.kind \in {"ep0_in", "ep0_out"}
      BY <2>6
    <3>2. Ev("setup") \notin pending
      BY <2>2, <3>1 DEF Rank
    <3>3. devEp0 = d /\ ep0 = "nak"
      BY <2>6, <3>2
    <3>4. \A d2 \in {"read", "write"} : StageEv(d2) \notin pending'
      BY <2>1, <2>6, <3>1, <3>2, <3>3 DEF DeliverOne, Deliver, OnEp0Stage
    <3>5. ep0' = "nak" /\ devEp0' \in {"idle", "due"}
      BY <2>1, <3>1, <3>3 DEF DeliverOne, Deliver, OnEp0Stage
    <3>. QED
      BY <2>2, <2>4, <3>1, <3>2, <3>4, <3>5
  <2>7. CASE ev.kind \in {"ep0_in", "ep0_out"}
    <3>1. ev = Ev(ev.kind)
      BY <2>7
    <3>. QED
      BY <2>7, <3>1, <2>6
  <2>8. CASE ev.kind \in {"suspend", "sof", "in", "out"}
    <3>1. /\ pending' = pending \ {ev}
          /\ UNCHANGED <<ep0, devEp0>>
      BY <2>1, <2>8 DEF DeliverOne, Deliver, OnSuspend, OnOther
    <3>2. \A x \in {ev} : x.kind \notin Ep0Kinds
      BY <2>8 DEF Ep0Kinds
    <3>. QED
      BY <2>2, <3>1, <3>2, <1>2
  <2>. QED
    BY <2>3, <2>5, <2>7, <2>8 DEF PendingAllowed, TypeOK, Event, Kinds
<1>20. CASE UNCHANGED vars
  BY <1>20 DEF vars, Latched
<1>. QED
  BY <1>3, <1>4, <1>5, <1>6, <1>7, <1>8, <1>10, <1>12, <1>13, <1>15, <1>17,
     <1>18, <1>19, <1>20 DEF Next

(* USBPhy.h's ep0_in and ep0_out events, latched as flags beside a SETUP  *)
(* flag, reach the caller only for the stage it armed with ep0_write or    *)
(* ep0_read, whatever the host abandons, resends, resets or unpowers, for *)
(* every set of endpoints: a stage completion and the arming it answers   *)
(* belong to the stage the caller is in, or a latched SETUP, handed out   *)
(* first, drops the completion.                                            *)
THEOREM Ep0EventsMatchHolds == Spec => Ep0EventsMatch
<1> DEFINE Matched ==
      \A ev \in pending :
         DeliverOne(ev) => /\ ev.kind = "ep0_in" => devEp0 = "write"
                           /\ ev.kind = "ep0_out" => devEp0 = "read"
<1>1. Init => Ep0Inv
  BY DEF Init, Ep0Inv, PendingAllowed, TypeOK, Ep0States, DevEp0States,
         NoEvent, Latched
<1>2. Ep0Inv => Matched
  <2> SUFFICES ASSUME Ep0Inv, NEW ev \in pending, DeliverOne(ev),
                      ev.kind \in {"ep0_in", "ep0_out"}
               PROVE  /\ ev.kind = "ep0_in" => devEp0 = "write"
                      /\ ev.kind = "ep0_out" => devEp0 = "read"
    OBVIOUS
  <2>1. Ev("setup") \notin pending
    BY Ep0EvFacts DEF DeliverOne, Deliverable, Rank
  <2>2. ev = Ev(ev.kind)
    BY DEF Ep0Inv
  <2>3. ev.kind = "ep0_in" => ev = StageEv("write")
    BY <2>2, Ep0EvFacts
  <2>4. ev.kind = "ep0_out" => ev = StageEv("read")
    BY <2>2, Ep0EvFacts
  <2>. QED
    BY <2>1, <2>3, <2>4 DEF Ep0Inv
<1>. QED
  BY <1>1, <1>2, Ep0InvStep, PTL DEF Spec, Ep0EventsMatch

=============================================================================
