--------------------------- MODULE USBPhyContract ---------------------------
(***************************************************************************)
(* What src/platform/USBPhy.h promises to the USBPhyEvents sink, seen     *)
(* from the sink alone: the calls that change what may be sent (init,     *)
(* deinit, sof_enable, sof_disable, endpoint_add, endpoint_remove), the   *)
(* USB power changing, and the events themselves.  There is no latching, *)
(* no bus and no host here: an event is sent the moment it is allowed.    *)
(* USBPhy.tla implements this specification under the mapping it gives   *)
(* in its definition of Contract.                                          *)
(***************************************************************************)
CONSTANTS
    InEps,      \* the non-zero IN endpoints of the endpoint table
    OutEps      \* the non-zero OUT endpoints of the endpoint table

Eps == InEps \cup OutEps

NoEp == "none"

Kinds == {"power", "reset", "suspend", "sof", "setup",
          "ep0_in", "ep0_out", "in", "out"}

Event == [kind : Kinds, ep : Eps \cup {NoEp}, val : BOOLEAN]

NoEvent == [kind |-> "none", ep |-> NoEp, val |-> FALSE]

VARIABLES
    on,         \* the USBPhy is initialized
    vbus,       \* USB power is present
    frames,     \* sof_enable() is in force
    eps,        \* the endpoints added and not removed since
    last        \* the event the sink received last

vars == <<on, vbus, frames, eps, last>>

Init ==
    /\ on = FALSE /\ vbus \in BOOLEAN /\ frames = FALSE
    /\ eps = {} /\ last = NoEvent

Start ==
    /\ ~on
    /\ on' = TRUE
    /\ UNCHANGED <<vbus, frames, eps, last>>

\* deinit() ends the events; the next init starts without endpoints or frames.
Stop ==
    /\ on
    /\ on' = FALSE /\ frames' = FALSE /\ eps' = {}
    /\ UNCHANGED <<vbus, last>>

SetFrames(b) ==
    /\ on
    /\ frames' = b
    /\ UNCHANGED <<on, vbus, eps, last>>

AddEp(e) ==
    /\ on /\ e \notin eps
    /\ eps' = eps \cup {e}
    /\ UNCHANGED <<on, vbus, frames, last>>

RemoveEp(e) ==
    /\ on /\ e \in eps
    /\ eps' = eps \ {e}
    /\ UNCHANGED <<on, vbus, frames, last>>

PowerFlip ==
    /\ vbus' = ~vbus
    /\ UNCHANGED <<on, frames, eps, last>>

(* The header's "Defined behavior": events only while initialized; while  *)
(* unpowered only power, and power reports what powered() would; sof only *)
(* while frames are on; in and out only for an added endpoint of that     *)
(* direction.                                                              *)
Allowed(ev) ==
    /\ on
    /\ ev.kind = "power" => ev.val = vbus
    /\ ev.kind # "power" => vbus
    /\ ev.kind = "sof" => frames
    /\ ev.kind \in {"in", "out"} =>
          /\ ev.ep \in eps
          /\ (ev.kind = "in") = (ev.ep \in InEps)

\* An allowed event reaches the sink; a reset removes every endpoint but 0.
Send(ev) ==
    /\ Allowed(ev)
    /\ last' = ev
    /\ eps' = IF ev.kind = "reset" THEN {} ELSE eps
    /\ UNCHANGED <<on, vbus, frames>>

Next ==
    \/ Start \/ Stop \/ PowerFlip
    \/ \E b \in BOOLEAN : SetFrames(b)
    \/ \E e \in Eps : AddEp(e) \/ RemoveEp(e)
    \/ \E ev \in Event : Send(ev)

Spec == Init /\ [][Next]_vars
=============================================================================
