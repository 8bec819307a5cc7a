------------------------------- MODULE USBPhy -------------------------------
(***************************************************************************)
(* The USB device physical layer of src/platform/USBPhy.h, together with  *)
(* the two contexts that drive it:                                         *)
(*  - the interrupt context (the bus and the host), which only latches a   *)
(*    hardware event and signals start_process;                            *)
(*  - the deferred context, in which process() hands the latched events   *)
(*    to the USBPhyEvents sink one at a time, and in which the caller (the *)
(*    device stack) makes its USBPhy calls in answer.                      *)
(* The caller is abstracted to what the contract lets it do: it arms       *)
(* endpoint 0 once per stage, adds and removes endpoints only while it    *)
(* services a SETUP, and keeps a view of power, suspend and endpoint 0.    *)
(***************************************************************************)
EXTENDS Naturals, FiniteSets

CONSTANTS
    InEps,      \* the non-zero IN endpoints of the endpoint table
    OutEps      \* the non-zero OUT endpoints of the endpoint table

\* usb_ep_t carries the direction bit: an IN and an OUT endpoint are distinct.
ASSUME EpsAssumption ==
    /\ InEps \cap OutEps = {}
    /\ IsFiniteSet(InEps) /\ IsFiniteSet(OutEps)

Eps == InEps \cup OutEps

NoEp == "none"

(* The events of USBPhyEvents that carry hardware activity.  A record has  *)
(* the same fields whatever its kind: ep is the endpoint of in and out,   *)
(* val the argument of power and suspend.                                  *)
Kinds == {"power", "reset", "suspend", "sof", "setup",
          "ep0_in", "ep0_out", "in", "out"}

Event == [kind : Kinds, ep : Eps \cup {NoEp}, val : BOOLEAN]

Ev(k) == [kind |-> k, ep |-> NoEp, val |-> FALSE]
PowerEv(b) == [kind |-> "power", ep |-> NoEp, val |-> b]
SuspendEv(b) == [kind |-> "suspend", ep |-> NoEp, val |-> b]
EpEv(e) == [kind |-> IF e \in InEps THEN "in" ELSE "out", ep |-> e, val |-> FALSE]

NoEvent == [kind |-> "none", ep |-> NoEp, val |-> FALSE]

\* The endpoint-0 arming the hardware holds, and the caller's view of it.
Ep0States == {"nak", "read", "write", "stall"}
DevEp0States == {"idle", "setup", "due", "read", "write", "stall"}

VARIABLES
    initialized,   \* between init() and deinit()
    powered,       \* USB power present (what powered() reports)
    connected,     \* pull-up enabled by connect()
    suspended,     \* the host has suspended the bus
    sofOn,         \* sof_enable() in force
    hostCtrl,      \* the host has a control transfer in progress
    ep0,           \* endpoint-0 arming in hardware
    added,         \* endpoints added by endpoint_add and not removed
    halted,        \* endpoints with the HALT feature set
    busy,          \* endpoints with a started read or write
    pending,       \* events latched by the interrupt, not yet processed
    evt,           \* the event process() delivered last
    devPowered,    \* the caller's view of power
    devSuspended,  \* the caller's view of suspend
    devEp0         \* the caller's view of endpoint 0

phyVars == <<initialized, powered, connected, suspended, sofOn, ep0,
             added, halted, busy, pending>>
devVars == <<evt, devPowered, devSuspended, devEp0>>
vars == <<phyVars, hostCtrl, devVars>>

(* Every variable holds a value of its type: the endpoint sets are sets of *)
(* the endpoints endpoint_table() offers and every latched event is an     *)
(* event of USBPhyEvents.                                                  *)
TypeOK ==
    /\ initialized \in BOOLEAN /\ powered \in BOOLEAN
    /\ connected \in BOOLEAN /\ suspended \in BOOLEAN
    /\ sofOn \in BOOLEAN /\ hostCtrl \in BOOLEAN
    /\ ep0 \in Ep0States
    /\ added \subseteq Eps /\ halted \subseteq Eps /\ busy \subseteq Eps
    /\ pending \subseteq Event
    /\ evt \in Event \cup {NoEvent}
    /\ devPowered \in BOOLEAN /\ devSuspended \in BOOLEAN
    /\ devEp0 \in DevEp0States

\* Mutant: the latch keeps the earlier event of the kind beside the new one.
LatchKeepsBoth(p, ev) == p \cup {ev}

(* A latched event of a kind replaces the one already latched: a second    *)
(* power or suspend change overwrites the first, a resent SETUP coalesces. *)
Latch(p, ev) == {o \in p : o.kind # ev.kind} \cup {ev}

\* Mutant: a SETUP is not handled before the endpoint-0 completions.
RankSetupUnordered(ev) ==
    CASE ev.kind = "power" -> 0
      [] ev.kind = "reset" -> 1
      [] ev.kind = "out"   -> 4
      [] OTHER             -> 3

(* The order in which process() hands events out: power first, then bus   *)
(* reset, then a SETUP, then the rest, IN endpoints before OUT endpoints.  *)
Rank(ev) ==
    CASE ev.kind = "power" -> 0
      [] ev.kind = "reset" -> 1
      [] ev.kind = "setup" -> 2
      [] ev.kind = "out"   -> 4
      [] OTHER             -> 3

Deliverable(ev) == ev \in pending /\ \A o \in pending : Rank(ev) <= Rank(o)

Init ==
    /\ initialized = FALSE
    /\ powered \in BOOLEAN
    /\ connected = FALSE /\ suspended = FALSE /\ sofOn = FALSE
    /\ hostCtrl = FALSE
    /\ ep0 = "nak"
    /\ added = {} /\ halted = {} /\ busy = {} /\ pending = {}
    /\ evt = NoEvent
    /\ devPowered = FALSE /\ devSuspended = FALSE /\ devEp0 = "idle"

-----------------------------------------------------------------------------
(* Calls of the application thread.                                        *)

\* init(events); the caller then reads powered() for the initial state.
init ==
    /\ ~initialized
    /\ initialized' = TRUE
    /\ devPowered' = powered
    /\ UNCHANGED <<powered, connected, suspended, sofOn, ep0, added, halted,
                   busy, pending, hostCtrl, evt, devSuspended, devEp0>>

\* deinit(): interrupts off, no further events, the hardware powered down.
deinit ==
    /\ initialized
    /\ initialized' = FALSE
    /\ connected' = FALSE /\ suspended' = FALSE /\ sofOn' = FALSE
    /\ hostCtrl' = FALSE
    /\ ep0' = "nak"
    /\ added' = {} /\ halted' = {} /\ busy' = {} /\ pending' = {}
    /\ devSuspended' = FALSE /\ devEp0' = "idle"
    /\ UNCHANGED <<powered, evt, devPowered>>

connect ==
    /\ initialized /\ ~connected
    /\ connected' = TRUE
    /\ UNCHANGED <<initialized, powered, suspended, sofOn, ep0, added, halted,
                   busy, pending, hostCtrl, devVars>>

\* disconnect(): the host sees the device detach and drops its transfer.
disconnect ==
    /\ initialized /\ connected
    /\ connected' = FALSE
    /\ hostCtrl' = FALSE
    /\ UNCHANGED <<initialized, powered, suspended, sofOn, ep0, added, halted,
                   busy, pending, devVars>>

sof_enable ==
    /\ initialized /\ ~sofOn
    /\ sofOn' = TRUE
    /\ UNCHANGED <<initialized, powered, connected, suspended, ep0, added,
                   halted, busy, pending, hostCtrl, devVars>>

\* sof_disable(): "Stop calling USBPhyEvents::sof", a latched frame included.
sof_disable ==
    /\ initialized /\ sofOn
    /\ sofOn' = FALSE
    /\ pending' = pending \ {Ev("sof")}
    /\ UNCHANGED <<initialized, powered, connected, suspended, ep0, added,
                   halted, busy, hostCtrl, devVars>>

-----------------------------------------------------------------------------
(* Calls the caller makes from the callbacks, in the deferred context.     *)

\* ep0_read, ep0_write and ep0_stall arm endpoint 0 for one stage.
Ep0Arm(hw, dev) ==
    /\ initialized /\ devEp0 \in {"setup", "due"}
    /\ ep0' = hw /\ devEp0' = dev
    /\ UNCHANGED <<initialized, powered, connected, suspended, sofOn, added,
                   halted, busy, pending, hostCtrl, evt, devPowered,
                   devSuspended>>

ep0_read == Ep0Arm("read", "read")
ep0_write == Ep0Arm("write", "write")
ep0_stall == Ep0Arm("stall", "stall")

\* endpoint_add / endpoint_remove: only while servicing SetConfiguration or
\* SetInterface, i.e. after a SETUP and before endpoint 0 is armed.
endpoint_add(e) ==
    /\ initialized /\ devEp0 = "setup" /\ e \notin added
    /\ added' = added \cup {e}
    /\ UNCHANGED <<initialized, powered, connected, suspended, sofOn, ep0,
                   halted, busy, pending, hostCtrl, devVars>>

endpoint_remove(e) ==
    /\ initialized /\ devEp0 = "setup" /\ e \in added
    /\ added' = added \ {e}
    /\ halted' = halted \ {e}
    /\ busy' = busy \ {e}
    /\ pending' = pending \ {EpEv(e)}
    /\ UNCHANGED <<initialized, powered, connected, suspended, sofOn, ep0,
                   hostCtrl, devVars>>

endpoint_stall(e) ==
    /\ initialized /\ e \in added \ halted
    /\ halted' = halted \cup {e}
    /\ UNCHANGED <<initialized, powered, connected, suspended, sofOn, ep0,
                   added, busy, pending, hostCtrl, devVars>>

endpoint_unstall(e) ==
    /\ initialized /\ e \in halted
    /\ halted' = halted \ {e}
    /\ UNCHANGED <<initialized, powered, connected, suspended, sofOn, ep0,
                   added, busy, pending, hostCtrl, devVars>>

\* endpoint_read on an OUT endpoint, endpoint_write on an IN endpoint.
EndpointStart(e) ==
    /\ initialized /\ e \in added \ busy
    /\ busy' = busy \cup {e}
    /\ UNCHANGED <<initialized, powered, connected, suspended, sofOn, ep0,
                   added, halted, pending, hostCtrl, devVars>>

endpoint_read(e) == e \in OutEps /\ EndpointStart(e)
endpoint_write(e) == e \in InEps /\ EndpointStart(e)

\* endpoint_abort: cancels a write that has not been sent; a write already
\* sent has left busy and its in event stays latched.
endpoint_abort(e) ==
    /\ initialized /\ e \in InEps \cap busy
    /\ busy' = busy \ {e}
    /\ UNCHANGED <<initialized, powered, connected, suspended, sofOn, ep0,
                   added, halted, pending, hostCtrl, devVars>>
-----------------------------------------------------------------------------
(* The interrupt context: the bus and the host act, the hardware latches  *)
(* the event and start_process asks for process() to run.  Interrupts are *)
(* off outside init .. deinit, so nothing is latched then.                 *)

OnBus == initialized /\ powered /\ connected

\* Mutant: a power loss is latched without dropping the events before it.
PowerChangeNoFlush ==
    /\ powered' = ~powered
    /\ IF powered
         THEN /\ suspended' = FALSE /\ hostCtrl' = FALSE
              /\ ep0' = "nak" /\ busy' = {}
              /\ pending' = IF initialized THEN Latch(pending, PowerEv(FALSE))
                                           ELSE pending
         ELSE /\ pending' = IF initialized THEN Latch(pending, PowerEv(TRUE))
                                           ELSE pending
              /\ UNCHANGED <<suspended, hostCtrl, ep0, busy>>
    /\ UNCHANGED <<initialized, connected, sofOn, added, halted, devVars>>

\* Power comes or goes; losing it aborts every transfer and every event but
\* the power change itself ("When unpowered only power can be sent").
PowerChange ==
    /\ powered' = ~powered
    /\ IF powered
         THEN /\ suspended' = FALSE /\ hostCtrl' = FALSE
              /\ ep0' = "nak" /\ busy' = {}
              /\ pending' = IF initialized THEN {PowerEv(FALSE)} ELSE pending
         ELSE /\ pending' = IF initialized THEN Latch(pending, PowerEv(TRUE))
                                           ELSE pending
              /\ UNCHANGED <<suspended, hostCtrl, ep0, busy>>
    /\ UNCHANGED <<initialized, connected, sofOn, added, halted, devVars>>

\* Bus reset: every transfer is aborted and the events latched before it
\* are stale; the endpoints themselves are removed when it is processed.
BusReset ==
    /\ OnBus
    /\ suspended' = FALSE /\ hostCtrl' = FALSE
    /\ ep0' = "nak" /\ busy' = {}
    /\ pending' = {o \in pending : o.kind = "power"} \cup {Ev("reset")}
    /\ UNCHANGED <<initialized, powered, connected, sofOn, added, halted,
                   devVars>>

BusSuspend ==
    /\ OnBus /\ ~suspended
    /\ suspended' = TRUE
    /\ pending' = Latch(pending, SuspendEv(TRUE))
    /\ UNCHANGED <<initialized, powered, connected, sofOn, ep0, added, halted,
                   busy, hostCtrl, devVars>>

BusResume ==
    /\ OnBus /\ suspended
    /\ suspended' = FALSE
    /\ pending' = Latch(pending, SuspendEv(FALSE))
    /\ UNCHANGED <<initialized, powered, connected, sofOn, ep0, added, halted,
                   busy, hostCtrl, devVars>>

\* remote_wakeup(): the device signals resume and the bus leaves suspend.
remote_wakeup ==
    /\ OnBus /\ suspended
    /\ suspended' = FALSE
    /\ pending' = Latch(pending, SuspendEv(FALSE))
    /\ UNCHANGED <<initialized, powered, connected, sofOn, ep0, added, halted,
                   busy, hostCtrl, devVars>>

Active == OnBus /\ ~suspended

Frame ==
    /\ Active /\ sofOn
    /\ pending' = pending \cup {Ev("sof")}
    /\ UNCHANGED <<initialized, powered, connected, suspended, sofOn, ep0,
                   added, halted, busy, hostCtrl, devVars>>

\* A SETUP packet, first or resent: it is always accepted, clears an
\* endpoint-0 stall and leaves endpoint 0 nak-ing until it is armed again.
SetupPacket ==
    /\ Active
    /\ hostCtrl' = TRUE
    /\ ep0' = "nak"
    /\ pending' = pending \cup {Ev("setup")}
    /\ UNCHANGED <<initialized, powered, connected, suspended, sofOn, added,
                   halted, busy, devVars>>

\* Mutant: the stage completes but its event is never latched.
Ep0StageUnsignalled(arm, kind) ==
    /\ Active /\ hostCtrl /\ ep0 = arm
    /\ ep0' = "nak"
    /\ hostCtrl' \in BOOLEAN
    /\ UNCHANGED <<initialized, powered, connected, suspended, sofOn, added,
                   halted, busy, pending, devVars>>

\* A data or status stage on endpoint 0 completes; the host may end the
\* transfer with it.
Ep0Stage(arm, kind) ==
    /\ Active /\ hostCtrl /\ ep0 = arm
    /\ ep0' = "nak"
    /\ pending' = pending \cup {Ev(kind)}
    /\ hostCtrl' \in BOOLEAN
    /\ UNCHANGED <<initialized, powered, connected, suspended, sofOn, added,
                   halted, busy, devVars>>

HostIn0 == Ep0Stage("write", "ep0_in")
HostOut0 == Ep0Stage("read", "ep0_out")

\* The host meets the endpoint-0 stall and abandons the transfer.
HostStalled ==
    /\ Active /\ hostCtrl /\ ep0 = "stall"
    /\ hostCtrl' = FALSE
    /\ UNCHANGED <<phyVars, devVars>>

\* A transfer on a non-zero endpoint completes.  After a bus reset the
\* hardware has no endpoint but 0 until the reset is processed.
HostTransfer(e) ==
    /\ Active /\ e \in busy \ halted
    /\ Ev("reset") \notin pending
    /\ busy' = busy \ {e}
    /\ pending' = pending \cup {EpEv(e)}
    /\ UNCHANGED <<initialized, powered, connected, suspended, sofOn, ep0,
                   added, halted, hostCtrl, devVars>>

-----------------------------------------------------------------------------
(* process(): the deferred context hands one latched event to the sink;   *)
(* the driver's own bookkeeping for it and the caller's reaction to it are *)
(* part of the step.                                                       *)

\* power(val): the caller's device state restarts from powered or unpowered.
OnPower(ev) ==
    /\ devPowered' = ev.val /\ devSuspended' = FALSE /\ devEp0' = "idle"
    /\ pending' = pending \ {ev}
    /\ UNCHANGED <<ep0, added, halted, busy>>

\* reset(): the driver removes every endpoint but 0, the caller goes back to
\* its default state.
OnReset(ev) ==
    /\ added' = {} /\ halted' = {} /\ busy' = {} /\ ep0' = "nak"
    /\ devSuspended' = FALSE /\ devEp0' = "idle"
    /\ pending' = pending \ {ev}
    /\ UNCHANGED devPowered

OnSuspend(ev) ==
    /\ devSuspended' = ev.val
    /\ pending' = pending \ {ev}
    /\ UNCHANGED <<ep0, added, halted, busy, devPowered, devEp0>>

\* Mutant: the caller's "idle" written into the hardware's endpoint-0 state.
OnSetupIdle(ev) ==
    /\ ep0' = "idle" /\ devEp0' = "setup"
    /\ pending' = pending \ {ev, Ev("ep0_in"), Ev("ep0_out")}
    /\ UNCHANGED <<added, halted, busy, devPowered, devSuspended>>

\* ep0_setup(), read with ep0_setup_read_result: a new control transfer;
\* completions of the transfer the host abandoned are dropped.
OnSetup(ev) ==
    /\ ep0' = "nak" /\ devEp0' = "setup"
    /\ pending' = pending \ {ev, Ev("ep0_in"), Ev("ep0_out")}
    /\ UNCHANGED <<added, halted, busy, devPowered, devSuspended>>

\* ep0_in() / ep0_out(): the stage was the last one, or another follows.
OnEp0Stage(ev) ==
    /\ devEp0' \in {"idle", "due"}
    /\ pending' = pending \ {ev}
    /\ UNCHANGED <<ep0, added, halted, busy, devPowered, devSuspended>>

\* sof(), in(endpoint), out(endpoint): nothing of the modelled state changes.
OnOther(ev) ==
    /\ pending' = pending \ {ev}
    /\ UNCHANGED <<ep0, added, halted, busy, devPowered, devSuspended, devEp0>>

Deliver(ev) ==
    /\ evt' = ev
    /\ \/ ev.kind = "power" /\ OnPower(ev)
       \/ ev.kind = "reset" /\ OnReset(ev)
       \/ ev.kind = "suspend" /\ OnSuspend(ev)
       \/ ev.kind = "setup" /\ OnSetup(ev)
       \/ ev.kind \in {"ep0_in", "ep0_out"} /\ OnEp0Stage(ev)
       \/ ev.kind \in {"sof", "in", "out"} /\ OnOther(ev)
    /\ UNCHANGED <<initialized, powered, connected, suspended, sofOn, hostCtrl>>

DeliverOne(ev) == initialized /\ Deliverable(ev) /\ Deliver(ev)

process == \E ev \in pending : DeliverOne(ev)

-----------------------------------------------------------------------------
Next ==
    \/ init \/ deinit \/ connect \/ disconnect \/ sof_enable \/ sof_disable
    \/ ep0_read \/ ep0_write \/ ep0_stall
    \/ \E e \in Eps :
         \/ endpoint_add(e) \/ endpoint_remove(e)
         \/ endpoint_stall(e) \/ endpoint_unstall(e)
         \/ endpoint_read(e) \/ endpoint_write(e) \/ endpoint_abort(e)
         \/ HostTransfer(e)
    \/ remote_wakeup
    \/ PowerChange \/ BusReset \/ BusSuspend \/ BusResume \/ Frame
    \/ SetupPacket \/ HostIn0 \/ HostOut0 \/ HostStalled
    \/ process

Spec == Init /\ [][Next]_vars

(* process() runs whenever start_process has asked for it: each event it  *)
(* may hand out next is weakly fair.  This does not make every latched    *)
(* event reach the caller (an event that keeps being outranked is enabled *)
(* only now and then); the liveness property checked under it concerns    *)
(* endpoint 0 only.  The host keeps polling endpoint 0 while its control  *)
(* transfer is in progress.                                                *)
FairSpec ==
    /\ Spec
    /\ \A ev \in Event : WF_vars(DeliverOne(ev))
    /\ WF_vars(HostIn0) /\ WF_vars(HostOut0)

-----------------------------------------------------------------------------
(* Properties.                                                             *)

(* The endpoint-0 completions reach the caller only for the stage it      *)
(* armed: ep0_in answers its ep0_write, ep0_out its ep0_read.  Broken if a *)
(* completion of a control transfer the host abandoned with a new (or     *)
(* resent) SETUP is delivered after that SETUP.                            *)
Ep0EventsMatch ==
    [][\A ev \in pending :
          DeliverOne(ev) => /\ ev.kind = "ep0_in" => devEp0 = "write"
                            /\ ev.kind = "ep0_out" => devEp0 = "read"]_vars

(* An inductive invariant behind the refinement's in/out clause: a       *)
(* started transfer is on an added endpoint, every latched in or out event *)
(* is the event of an added endpoint, and none is latched beside a latched *)
(* bus reset.                                                              *)
PendingForAdded ==
    /\ TypeOK
    /\ busy \subseteq added
    /\ \A ev \in pending :
          ev.kind \in {"in", "out"} => ev.ep \in added /\ ev = EpEv(ev.ep)
    /\ \A ev \in pending : ev.kind = "reset" => ev = Ev("reset")
    /\ Ev("reset") \in pending =>
          \A ev \in pending : ev.kind \notin {"in", "out"}

(* Once every latched event has been processed, the caller's view of power *)
(* and of suspend is the hardware's.  Broken if latched power or suspend  *)
(* changes are lost or applied out of order.                              *)
SinkInSync ==
    initialized /\ pending = {} =>
        /\ devPowered = powered
        /\ devSuspended = suspended

(* An ep0_write or ep0_read is answered by its completion unless the host *)
(* leaves: a new SETUP, a reset or a power loss takes the stage away, or  *)
(* the device is disconnected, suspended or the host's transfer is over.  *)
Ep0Answered ==
    \A d \in {"read", "write"} :
        devEp0 = d ~> (devEp0 # d \/ ~connected \/ suspended \/ ~hostCtrl)

-----------------------------------------------------------------------------
(* The refinement: the sink sees exactly what USBPhyContract allows.  The *)
(* PHY's initialized, powered, sofOn and added are the contract's on,     *)
(* vbus, frames and eps; the event process() delivered is the event sent. *)
(* Latching, the bus, the host and endpoint 0 are internal: their steps   *)
(* are stutters of the contract.                                           *)
Contract == INSTANCE USBPhyContract
              WITH on <- initialized, vbus <- powered, frames <- sofOn,
                   eps <- added, last <- evt

(* USBPhy.h "Defined behavior", as one specification: every event the     *)
(* sink gets from process() is sent while initialized, only power while   *)
(* unpowered and then with the current power state, no sof after         *)
(* sof_disable, in and out only for added endpoints, and a reset removes  *)
(* every endpoint.  Broken if deinit, a power loss, sof_disable or        *)
(* endpoint_remove leaves a latched event that process() later delivers,  *)
(* or if a latched power change goes stale.                                *)
ContractRefined == Contract!Spec

=============================================================================
