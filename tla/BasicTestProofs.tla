--------------------------- MODULE BasicTestProofs ---------------------------
(***************************************************************************)
(* Proofs about BasicTest: no TEST_ASSERT of TESTS/usb_device/basic fails, *)
(* for every host timing in which a detach as long as the test's           *)
(* MIN_DISCONNECT_TIME_US is noticed, and for every number of resets the   *)
(* host grants.                                                             *)
(*                                                                         *)
(* The argument has two parts.  The first is about the program alone: a  *)
(* handful of facts about which call may follow which in cases (a key is  *)
(* sent only inside a USBTester's scope and is followed by its parse, a   *)
(* disconnect by the wait that ends the detach, a check of configured()   *)
(* by the constructor's wait for it).  The second is an inductive         *)
(* invariant that ties the call at pc to the state of the device and the  *)
(* host.                                                                    *)
(***************************************************************************)
EXTENDS BasicTest, SequenceTheorems, TLAPS

\* The call at pc, or "end" once the program has run.
Op == IF pc < Done THEN Instr.op ELSE "end"
Arg == IF pc < Done THEN Instr.arg ELSE "none"

\* The calls made inside a USBTester's scope, with the device on the bus.
Scoped(c) ==
    \/ c.op \in {"ready", "parse", "waitReset", "waitConfigured", "clear",
                 "assertConfigured", "destruct", "disconnect"}
    \/ c.op = "send" /\ c.arg # "reset_support"

-----------------------------------------------------------------------------
(* The program.  A call is a record of one of these operations; a piece of *)
(* the program is well formed when each call carries an argument of the   *)
(* right kind, each pair of neighbouring calls is one the invariant below  *)
(* can follow, and the jump of ParseResetSupport lands on a call made     *)
(* outside a USBTester's scope (or just past the piece).                  *)

Ops == {"send", "parse", "parseSupport", "construct", "ready", "destruct",
        "clear", "waitReset", "waitConfigured", "assertConfigured",
        "disconnect", "connect", "wait"}
CallSet == [op : Ops, arg : Requests \cup {"none", "pass"} \cup Nat]

ItemOK(c) ==
    /\ c.op = "send" => c.arg \in Requests
    /\ c.op \in {"wait", "parseSupport"} => c.arg \in Nat

\* Which call may follow which.
PairOK(a, b) ==
    /\ a.op = "send" /\ a.arg = "reset_support" => b.op = "parseSupport"
    /\ a.op = "send" /\ a.arg # "reset_support" => b.op \in {"parse", "waitReset"}
    /\ a.op = "waitReset" => b.op = "parse"
    /\ a.op = "disconnect" => b.op = "wait" /\ b.arg = MIN_DISCONNECT_TIME_US
    /\ a.op = "construct" => b.op = "ready"
    /\ b.op = "assertConfigured" => a.op = "ready"
    /\ Scoped(a) /\ a.op \notin {"destruct", "disconnect"} => Scoped(b)
    /\ a.op \in {"destruct", "wait", "parseSupport"} => ~Scoped(b)
    /\ b.op = "construct" => a.op \in {"wait", "parseSupport"}
    /\ b.op = "parseSupport" => a.op = "send" /\ a.arg = "reset_support"
    /\ b.op = "send" /\ b.arg = "reset_support" => a.op = "wait"
    /\ b.op = "clear" => a.op \in {"ready", "waitConfigured"}
    /\ b.op = "wait" => a.op \in {"destruct", "disconnect"}

Landing(s, i) == i + 1 + s[i].arg

JumpOK(s) ==
    \A i \in 1..Len(s) : s[i].op = "parseSupport" =>
        /\ Landing(s, i) <= Len(s) + 1
        /\ Landing(s, i) <= Len(s) => ~Scoped(s[Landing(s, i)])

\* Every disconnect() is followed, past its wait, by a connect().
ReconnectOK(s) ==
    \A i \in 1..Len(s) : s[i].op = "disconnect" =>
        i + 2 <= Len(s) /\ s[i + 2].op = "connect"

NoJump(s) == \A i \in 1..Len(s) : s[i].op # "parseSupport"

\* s is a well-formed piece of program from call f to call l.
Good(s, f, l) ==
    /\ s \in Seq(CallSet) /\ Len(s) >= 1 /\ s[1] = f /\ s[Len(s)] = l
    /\ \A i \in 1..Len(s) : ItemOK(s[i])
    /\ \A i \in 1..Len(s) - 1 : PairOK(s[i], s[i + 1])
    /\ JumpOK(s)
    /\ ReconnectOK(s)

(* Two well-formed pieces, the first's last call followed by the second's *)
(* first, make a well-formed piece.                                        *)
LEMMA ConcatGood ==
    ASSUME NEW s, NEW t, NEW f, NEW l, NEW g, NEW m,
           Good(s, f, l), Good(t, g, m), PairOK(l, g),
           NoJump(s) \/ ~Scoped(g)
    PROVE  Good(s \o t, f, m)
<1> DEFINE u == s \o t
<1>1. /\ u \in Seq(CallSet) /\ Len(u) = Len(s) + Len(t)
      /\ \A i \in 1..Len(s) : u[i] = s[i]
      /\ \A i \in 1..Len(t) : u[Len(s) + i] = t[i]
  BY DEF Good
<1>2. Len(u) >= 1 /\ u[1] = f /\ u[Len(u)] = m
  BY <1>1 DEF Good
<1>3. \A i \in 1..Len(u) : ItemOK(u[i])
  <2> SUFFICES ASSUME NEW i \in 1..Len(u) PROVE ItemOK(u[i])
    OBVIOUS
  <2>1. CASE i <= Len(s)
    BY <1>1, <2>1 DEF Good
  <2>2. CASE i > Len(s)
    <3>1. i - Len(s) \in 1..Len(t) /\ u[i] = t[i - Len(s)]
      BY <1>1, <2>2 DEF Good
    <3>. QED
      BY <3>1 DEF Good
  <2>. QED
    BY <2>1, <2>2 DEF Good
<1>4. \A i \in 1..Len(u) - 1 : PairOK(u[i], u[i + 1])
  <2> SUFFICES ASSUME NEW i \in 1..Len(u) - 1 PROVE PairOK(u[i], u[i + 1])
    OBVIOUS
  <2>1. CASE i < Len(s)
    <3>1. u[i] = s[i] /\ u[i + 1] = s[i + 1] /\ i \in 1..Len(s) - 1
      BY <1>1, <2>1 DEF Good
    <3>. QED
      BY <3>1 DEF Good
  <2>2. CASE i = Len(s)
    <3>1. u[i] = l /\ u[i + 1] = g
      BY <1>1, <2>2 DEF Good
    <3>. QED
      BY <3>1
  <2>3. CASE i > Len(s)
    <3>1. /\ i - Len(s) \in 1..Len(t) - 1
          /\ u[i] = t[i - Len(s)] /\ u[i + 1] = t[i - Len(s) + 1]
      BY <1>1, <2>3 DEF Good
    <3>. QED
      BY <3>1 DEF Good
  <2>. QED
    BY <2>1, <2>2, <2>3 DEF Good
<1>5. JumpOK(u)
  <2> SUFFICES ASSUME NEW i \in 1..Len(u), u[i].op = "parseSupport"
               PROVE  /\ Landing(u, i) <= Len(u) + 1
                      /\ Landing(u, i) <= Len(u) => ~Scoped(u[Landing(u, i)])
    BY DEF JumpOK
  <2>0. /\ Len(s) \in Nat /\ Len(t) \in Nat /\ Len(t) >= 1
        /\ Len(u) = Len(s) + Len(t)
    BY <1>1 DEF Good
  <2>1. CASE i <= Len(s)
    <3>1. u[i] = s[i] /\ s[i].op = "parseSupport" /\ s[i].arg \in Nat
      BY <1>1, <2>1 DEF Good, ItemOK
    <3>2. /\ Landing(s, i) <= Len(s) + 1
          /\ Landing(s, i) <= Len(s) => ~Scoped(s[Landing(s, i)])
      BY <2>1, <3>1 DEF Good, JumpOK
    <3>3. Landing(u, i) = Landing(s, i) /\ Landing(s, i) \in Nat
      BY <3>1 DEF Landing
    <3>4. Landing(s, i) = Len(s) + 1 => u[Landing(s, i)] = g /\ ~Scoped(g)
      BY <1>1, <2>1, <3>1 DEF Good, NoJump
    <3>5. Landing(s, i) <= Len(s) => u[Landing(s, i)] = s[Landing(s, i)]
      BY <1>1, <3>1 DEF Landing
    <3>6. Landing(s, i) <= Len(s) \/ Landing(s, i) = Len(s) + 1
      BY <3>2, <3>3, <2>0
    <3>7. Landing(u, i) <= Len(u) + 1
      BY <2>0, <3>2, <3>3
    <3>8. CASE Landing(s, i) <= Len(s)
      <4>1. ~Scoped(u[Landing(s, i)])
        BY <3>2, <3>5, <3>8
      <4>. QED
        BY <3>3, <3>7, <4>1
    <3>9. CASE Landing(s, i) = Len(s) + 1
      <4>1. ~Scoped(u[Landing(s, i)])
        BY <3>4, <3>9
      <4>. QED
        BY <3>3, <3>7, <4>1
    <3>. QED
      BY <3>6, <3>8, <3>9
  <2>2. CASE i > Len(s)
    <3> DEFINE j == i - Len(s)
    <3>1. j \in 1..Len(t) /\ u[i] = t[j] /\ t[j].op = "parseSupport"
      BY <1>1, <2>0, <2>2
    <3>2. t[j].arg \in Nat
      BY <3>1 DEF Good, ItemOK
    <3>3. /\ Landing(t, j) <= Len(t) + 1
          /\ Landing(t, j) <= Len(t) => ~Scoped(t[Landing(t, j)])
      BY <3>1 DEF Good, JumpOK
    <3>4. /\ Landing(u, i) = Len(s) + Landing(t, j)
          /\ Landing(t, j) \in Nat /\ Landing(t, j) >= 1
      BY <2>0, <3>1, <3>2 DEF Landing
    <3>5. Landing(t, j) <= Len(t) => u[Len(s) + Landing(t, j)] = t[Landing(t, j)]
      BY <1>1, <3>4
    <3>6. Landing(u, i) <= Len(u) + 1
      BY <2>0, <3>3, <3>4
    <3>7. Landing(u, i) <= Len(u) => Landing(t, j) <= Len(t)
      BY <2>0, <3>4
    <3>8. Landing(u, i) <= Len(u) => ~Scoped(u[Len(s) + Landing(t, j)])
      BY <3>3, <3>5, <3>7
    <3>. QED
      BY <3>4, <3>6, <3>8
  <2>3. i <= Len(s) \/ i > Len(s)
    BY <2>0
  <2>. QED
    BY <2>1, <2>2, <2>3, Zenon
<1>6. ReconnectOK(u)
  <2> SUFFICES ASSUME NEW i \in 1..Len(u), u[i].op = "disconnect"
               PROVE  i + 2 <= Len(u) /\ u[i + 2].op = "connect"
    BY DEF ReconnectOK
  <2>0. Len(s) \in Nat /\ Len(t) \in Nat /\ Len(u) = Len(s) + Len(t)
    BY <1>1 DEF Good
  <2>1. CASE i <= Len(s)
    <3>1. s[i].op = "disconnect"
      BY <1>1, <2>1
    <3>2. i + 2 <= Len(s) /\ s[i + 2].op = "connect"
      BY <2>1, <3>1 DEF Good, ReconnectOK
    <3>. QED
      BY <1>1, <2>0, <3>2
  <2>2. CASE i > Len(s)
    <3> DEFINE j == i - Len(s)
    <3>1. j \in 1..Len(t) /\ t[j].op = "disconnect"
      BY <1>1, <2>0, <2>2
    <3>2. j + 2 <= Len(t) /\ t[j + 2].op = "connect"
      BY <3>1 DEF Good, ReconnectOK
    <3>3. j + 2 \in 1..Len(t) /\ i + 2 = Len(s) + (j + 2)
      BY <2>0, <3>1, <3>2
    <3>4. u[Len(s) + (j + 2)] = t[j + 2]
      BY <1>1, <3>3
    <3>. QED
      BY <2>0, <3>2, <3>3, <3>4
  <2>. QED
    BY <2>0, <2>1, <2>2
<1>. QED
  BY <1>1, <1>2, <1>3, <1>4, <1>5, <1>6 DEF Good

(* Pieces without a ParseResetSupport make a piece without one.            *)
LEMMA ConcatNoJump ==
    ASSUME NEW s \in Seq(CallSet), NEW t \in Seq(CallSet), NoJump(s), NoJump(t)
    PROVE  NoJump(s \o t)
BY DEF NoJump

(* The body of each control test is well formed.                           *)
LEMMA ControlGood ==
    ASSUME NEW name \in Requests \ {"reset_support"}
    PROVE  /\ Good(ControlTest(name), Construct, Destruct)
           /\ NoJump(ControlTest(name))
<1> DEFINE c == ControlTest(name)
<1>1. /\ c = <<Construct, Ready, Send(name), ParsePass, Destruct>>
      /\ c \in Seq(CallSet) /\ Len(c) = 5
  BY DEF ControlTest, Construct, Ready, Send, ParsePass, Destruct, Call,
         CallSet, Ops, Requests
<1>2. \A i \in 1..Len(c) : ItemOK(c[i]) /\ c[i].op # "parseSupport"
                                     /\ c[i].op # "disconnect"
  BY <1>1 DEF ItemOK, Construct, Ready, Send, ParsePass, Destruct, Call,
              Requests
<1>3. /\ PairOK(Construct, Ready) /\ PairOK(Ready, Send(name))
      /\ PairOK(Send(name), ParsePass) /\ PairOK(ParsePass, Destruct)
  BY DEF PairOK, Scoped, Construct, Ready, Send, ParsePass, Destruct, Call
<1>4. \A i \in 1..Len(c) - 1 : PairOK(c[i], c[i + 1])
  BY <1>1, <1>3
<1>. QED
  BY <1>1, <1>2, <1>4 DEF Good, JumpOK, ReconnectOK, NoJump

(* The same for pieces without a ParseResetSupport, which stay without.   *)
LEMMA ConcatClean ==
    ASSUME NEW s, NEW t, NEW f, NEW l, NEW g, NEW m,
           Good(s, f, l), Good(t, g, m), NoJump(s), NoJump(t), PairOK(l, g)
    PROVE  Good(s \o t, f, m) /\ NoJump(s \o t)
<1>1. Good(s \o t, f, m)
  BY ConcatGood
<1>2. s \in Seq(CallSet) /\ t \in Seq(CallSet)
  BY DEF Good
<1>. QED
  BY <1>1, <1>2, ConcatNoJump

LEMMA CaseSwitchGood ==
    Good(CaseSwitch, Pause(CaseSwitchUs), Pause(CaseSwitchUs))
    /\ NoJump(CaseSwitch)
BY BoundsAssumption
   DEF Good, CaseSwitch, Pause, Call, ItemOK, JumpOK, ReconnectOK, NoJump,
       CallSet, Ops

LEMMA ResetRoundGood ==
    Good(ResetRound, Call("clear", "none"), Call("waitConfigured", "none"))
    /\ NoJump(ResetRound)
BY DEF Good, ResetRound, Send, ParsePass, Call, ItemOK, PairOK, Scoped,
       JumpOK, ReconnectOK, NoJump, CallSet, Ops, Requests

LEMMA ResetBodyGood ==
    Good(ResetBody, Construct, Destruct) /\ NoJump(ResetBody)
<1> DEFINE Front == <<Construct, Ready>>
           Rear == <<Send("device_reset_test"), ParsePass, Destruct>>
           clr == Call("clear", "none")
           wc == Call("waitConfigured", "none")
<1>1. Good(Front, Construct, Ready) /\ NoJump(Front)
  BY DEF Good, Construct, Ready, Call, ItemOK, PairOK, Scoped, JumpOK,
         ReconnectOK, NoJump, CallSet, Ops
<1>2. Good(Rear, Send("device_reset_test"), Destruct) /\ NoJump(Rear)
  BY DEF Good, Send, ParsePass, Destruct, Call, ItemOK, PairOK, Scoped,
         JumpOK, ReconnectOK, NoJump, CallSet, Ops, Requests
<1>3. /\ PairOK(Ready, clr) /\ PairOK(wc, clr)
      /\ PairOK(wc, Send("device_reset_test"))
  BY DEF PairOK, Scoped, Ready, Send, Call
<1>4. Good(Front \o ResetRound, Construct, wc) /\ NoJump(Front \o ResetRound)
  BY <1>1, <1>3, ResetRoundGood, ConcatClean
<1>5. Good(Front \o ResetRound \o ResetRound, Construct, wc)
      /\ NoJump(Front \o ResetRound \o ResetRound)
  BY <1>4, <1>3, ResetRoundGood, ConcatClean
<1>6. Good(Front \o ResetRound \o ResetRound \o ResetRound, Construct, wc)
      /\ NoJump(Front \o ResetRound \o ResetRound \o ResetRound)
  BY <1>5, <1>3, ResetRoundGood, ConcatClean
<1>. QED
  BY <1>6, <1>2, <1>3, ConcatClean DEF ResetBody

(* ParseResetSupport in front of the body it skips: the jump lands just   *)
(* past the body.                                                          *)
LEMMA JumpGood ==
    ASSUME NEW t, NEW g, NEW m, Good(t, g, m), NoJump(t),
           PairOK(Call("parseSupport", Len(t)), g)
    PROVE  Good(<<Call("parseSupport", Len(t))>> \o t,
                Call("parseSupport", Len(t)), m)
<1> DEFINE ps == Call("parseSupport", Len(t))
           u == <<ps>> \o t
<1>0. /\ Len(t) \in Nat /\ Len(t) >= 1 /\ t \in Seq(CallSet)
      /\ ps \in CallSet /\ ps.op = "parseSupport" /\ ps.arg = Len(t)
  BY DEF Good, Call, CallSet, Ops
<1>1. /\ u \in Seq(CallSet) /\ Len(u) = 1 + Len(t) /\ u[1] = ps
      /\ \A i \in 1..Len(t) : u[1 + i] = t[i]
  BY <1>0
<1>2. Len(u) >= 1 /\ u[Len(u)] = m
  BY <1>0, <1>1 DEF Good
<1>3. \A i \in 1..Len(u) : ItemOK(u[i])
  <2> SUFFICES ASSUME NEW i \in 1..Len(u) PROVE ItemOK(u[i])
    OBVIOUS
  <2>1. CASE i = 1
    BY <1>0, <1>1, <2>1 DEF ItemOK
  <2>2. CASE i > 1
    <3>1. i - 1 \in 1..Len(t) /\ u[i] = t[i - 1]
      BY <1>0, <1>1, <2>2
    <3>. QED
      BY <3>1 DEF Good
  <2>. QED
    BY <1>0, <2>1, <2>2
<1>4. \A i \in 1..Len(u) - 1 : PairOK(u[i], u[i + 1])
  <2> SUFFICES ASSUME NEW i \in 1..Len(u) - 1 PROVE PairOK(u[i], u[i + 1])
    OBVIOUS
  <2>1. CASE i = 1
    <3>1. u[i] = ps /\ u[i + 1] = g
      BY <1>0, <1>1, <2>1 DEF Good
    <3>. QED
      BY <3>1
  <2>2. CASE i > 1
    <3>1. /\ i - 1 \in 1..Len(t) - 1
          /\ u[i] = t[i - 1] /\ u[i + 1] = t[i - 1 + 1]
      BY <1>0, <1>1, <2>2
    <3>. QED
      BY <3>1 DEF Good
  <2>. QED
    BY <1>0, <2>1, <2>2
<1>5. JumpOK(u)
  <2> SUFFICES ASSUME NEW i \in 1..Len(u), u[i].op = "parseSupport"
               PROVE  /\ Landing(u, i) <= Len(u) + 1
                      /\ Landing(u, i) <= Len(u) => ~Scoped(u[Landing(u, i)])
    BY DEF JumpOK
  <2>1. i = 1
    <3>1. SUFFICES ASSUME i > 1 PROVE FALSE
      BY <1>0
    <3>2. i - 1 \in 1..Len(t) /\ u[i] = t[i - 1]
      BY <1>0, <1>1, <3>1
    <3>. QED
      BY <3>2 DEF NoJump
  <2>2. Landing(u, i) = Len(u) + 1
    BY <1>0, <1>1, <2>1 DEF Landing
  <2>. QED
    BY <1>0, <1>1, <2>2
<1>6. ReconnectOK(u)
  <2> SUFFICES ASSUME NEW i \in 1..Len(u), u[i].op = "disconnect"
               PROVE  i + 2 <= Len(u) /\ u[i + 2].op = "connect"
    BY DEF ReconnectOK
  <2>1. i > 1
    BY <1>0, <1>1
  <2>2. i - 1 \in 1..Len(t) /\ t[i - 1].op = "disconnect"
    BY <1>0, <1>1, <2>1
  <2>3. i - 1 + 2 <= Len(t) /\ t[i - 1 + 2].op = "connect"
    BY <2>2 DEF Good, ReconnectOK
  <2>. QED
    BY <1>0, <1>1, <2>1, <2>3
<1>. QED
  BY <1>1, <1>2, <1>3, <1>4, <1>5, <1>6 DEF Good

LEMMA DeviceResetGood ==
    Good(device_reset_test, Send("reset_support"), Destruct)
<1> DEFINE ps == Call("parseSupport", Len(ResetBody))
<1>1. /\ ResetBody \in Seq(CallSet) /\ Len(ResetBody) \in Nat
      /\ PairOK(ps, Construct)
  BY ResetBodyGood DEF Good, PairOK, Scoped, Construct, Call
<1>2. Good(<<ps>> \o ResetBody, ps, Destruct)
  BY <1>1, ResetBodyGood, JumpGood
<1>3. /\ Good(<<Send("reset_support")>>, Send("reset_support"),
              Send("reset_support"))
      /\ NoJump(<<Send("reset_support")>>)
      /\ PairOK(Send("reset_support"), ps)
  BY <1>1 DEF Good, NoJump, JumpOK, ReconnectOK, ItemOK, PairOK, Scoped,
              Send, Call,
              CallSet, Ops, Requests
<1>4. Good(<<Send("reset_support")>> \o (<<ps>> \o ResetBody),
           Send("reset_support"), Destruct)
  BY <1>2, <1>3, ConcatGood
<1>5. device_reset_test = <<Send("reset_support")>> \o (<<ps>> \o ResetBody)
  <2>1. <<Send("reset_support"), ps>> = <<Send("reset_support")>> \o <<ps>>
    OBVIOUS
  <2>2. /\ <<Send("reset_support")>> \in Seq(CallSet) /\ <<ps>> \in Seq(CallSet)
    BY <1>1 DEF Send, Call, CallSet, Ops, Requests
  <2>. QED
    BY <1>1, <2>1, <2>2, ConcatAssociative DEF device_reset_test
<1>. QED
  BY <1>4, <1>5

LEMMA ReconnectGood ==
    Good(Reconnect, Call("disconnect", "none"), Call("connect", "none"))
    /\ NoJump(Reconnect)
BY DEF Good, Reconnect, Pause, MIN_DISCONNECT_TIME_US, Call, ItemOK, PairOK,
       Scoped, JumpOK, ReconnectOK, NoJump, CallSet, Ops

LEMMA ReconnectRoundGood ==
    Good(ReconnectRound, Call("disconnect", "none"), ParsePass)
    /\ NoJump(ReconnectRound)
<1> DEFINE sr == <<Send("device_soft_reconnection_test"), ParsePass>>
<1>1. Good(sr, Send("device_soft_reconnection_test"), ParsePass) /\ NoJump(sr)
  BY DEF Good, Send, ParsePass, Call, ItemOK, PairOK, Scoped, JumpOK,
       ReconnectOK, NoJump,
         CallSet, Ops, Requests
<1>2. PairOK(Call("connect", "none"), Send("device_soft_reconnection_test"))
  BY DEF PairOK, Scoped, Send, Call
<1>. QED
  BY <1>1, <1>2, ReconnectGood, ConcatClean DEF ReconnectRound

LEMMA SoftGood ==
    Good(device_soft_reconnection_test, Construct, Destruct)
    /\ NoJump(device_soft_reconnection_test)
<1> DEFINE sr == "device_soft_reconnection_test"
           Front == <<Construct, Ready, Send(sr), ParsePass>>
           Rear == <<Send(sr), ParsePass, Destruct>>
           dis == Call("disconnect", "none")
           con == Call("connect", "none")
<1>1. Good(Front, Construct, ParsePass) /\ NoJump(Front)
  BY DEF Good, Construct, Ready, Send, ParsePass, Call, ItemOK, PairOK,
         Scoped, JumpOK, ReconnectOK, NoJump, CallSet, Ops, Requests
<1>2. Good(Rear, Send(sr), Destruct) /\ NoJump(Rear)
  BY DEF Good, Send, ParsePass, Destruct, Call, ItemOK, PairOK, Scoped,
         JumpOK, ReconnectOK, NoJump, CallSet, Ops, Requests
<1>3. /\ PairOK(ParsePass, dis) /\ PairOK(con, dis) /\ PairOK(con, Send(sr))
  BY DEF PairOK, Scoped, ParsePass, Send, Call
<1>4. Good(Front \o ReconnectRound, Construct, ParsePass)
      /\ NoJump(Front \o ReconnectRound)
  BY <1>1, <1>3, ReconnectRoundGood, ConcatClean
<1>5. Good(Front \o ReconnectRound \o ReconnectRound, Construct, ParsePass)
      /\ NoJump(Front \o ReconnectRound \o ReconnectRound)
  BY <1>4, <1>3, ReconnectRoundGood, ConcatClean
<1>6. Good(Front \o ReconnectRound \o ReconnectRound \o ReconnectRound,
           Construct, ParsePass)
      /\ NoJump(Front \o ReconnectRound \o ReconnectRound \o ReconnectRound)
  BY <1>5, <1>3, ReconnectRoundGood, ConcatClean
<1>7. Good(Front \o ReconnectRound \o ReconnectRound \o ReconnectRound
           \o Reconnect, Construct, con)
      /\ NoJump(Front \o ReconnectRound \o ReconnectRound \o ReconnectRound
                \o Reconnect)
  BY <1>6, <1>3, ReconnectGood, ConcatClean
<1>8. Good(Front \o ReconnectRound \o ReconnectRound \o ReconnectRound
           \o Reconnect \o Reconnect, Construct, con)
      /\ NoJump(Front \o ReconnectRound \o ReconnectRound \o ReconnectRound
                \o Reconnect \o Reconnect)
  BY <1>7, <1>3, ReconnectGood, ConcatClean
<1>9. Good(Front \o ReconnectRound \o ReconnectRound \o ReconnectRound
           \o Reconnect \o Reconnect \o Reconnect, Construct, con)
      /\ NoJump(Front \o ReconnectRound \o ReconnectRound \o ReconnectRound
                \o Reconnect \o Reconnect \o Reconnect)
  BY <1>8, <1>3, ReconnectGood, ConcatClean
<1>. QED
  BY <1>9, <1>2, <1>3, ConcatClean DEF device_soft_reconnection_test

LEMMA ConstructCheckGood ==
    ASSUME NEW kv \in BOOLEAN
    PROVE  Good(ConstructCheck(kv), Construct, Destruct)
           /\ NoJump(ConstructCheck(kv))
<1> DEFINE rc == "repeated_construction_destruction_test"
           Front == <<Construct, Ready, Call("assertConfigured", "none")>>
           Mid == IF kv THEN <<Send(rc), ParsePass>> ELSE <<>>
<1>1. Front \in Seq(CallSet)
  BY DEF Construct, Ready, Call, CallSet, Ops
<1>2. CASE kv
  <2>1. ConstructCheck(kv) = Front \o <<Send(rc), ParsePass>> \o <<Destruct>>
    BY <1>2 DEF ConstructCheck
  <2>2. /\ Good(Front \o <<Send(rc), ParsePass>> \o <<Destruct>>,
                Construct, Destruct)
        /\ NoJump(Front \o <<Send(rc), ParsePass>> \o <<Destruct>>)
    BY DEF Good, Construct, Ready, Destruct, Send, ParsePass, Call, ItemOK,
           PairOK, Scoped, JumpOK, ReconnectOK, NoJump, CallSet, Ops, Requests
  <2>. QED
    BY <2>1, <2>2
<1>3. CASE ~kv
  <2>1. ConstructCheck(kv) = Front \o <<Destruct>>
    <3>1. ConstructCheck(kv) = (Front \o <<>>) \o <<Destruct>>
      BY <1>3 DEF ConstructCheck
    <3>. QED
      BY <3>1, <1>1, ConcatEmptySeq
  <2>2. Good(Front \o <<Destruct>>, Construct, Destruct)
        /\ NoJump(Front \o <<Destruct>>)
    BY DEF Good, Construct, Ready, Destruct, Call, ItemOK, PairOK, Scoped,
           JumpOK, ReconnectOK, NoJump, CallSet, Ops
  <2>. QED
    BY <2>1, <2>2
<1>. QED
  BY <1>2, <1>3

LEMMA RepeatedGood ==
    Good(repeated_construction_destruction_test, Construct, Destruct)
    /\ NoJump(repeated_construction_destruction_test)
<1> DEFINE P == <<Pause(MIN_DISCONNECT_TIME_US)>>
           F == ConstructCheck(FALSE)
           T == ConstructCheck(TRUE)
           w == Pause(MIN_DISCONNECT_TIME_US)
<1>1. Good(P, w, w) /\ NoJump(P)
  BY DEF Good, Pause, MIN_DISCONNECT_TIME_US, Call, ItemOK, JumpOK,
       ReconnectOK, NoJump,
         CallSet, Ops
<1>2. PairOK(Destruct, w) /\ PairOK(w, Construct)
  BY DEF PairOK, Scoped, Destruct, Pause, Construct, Call
<1>3. Good(F, Construct, Destruct) /\ NoJump(F)
      /\ Good(T, Construct, Destruct) /\ NoJump(T)
  BY ConstructCheckGood
<1>4. Good(F \o P, Construct, w) /\ NoJump(F \o P)
  BY <1>1, <1>2, <1>3, ConcatClean
<1>5. Good(F \o P \o F \o P, Construct, w) /\ NoJump(F \o P \o F \o P)
  BY <1>1, <1>2, <1>3, <1>4, ConcatClean
<1>6. Good(F \o P \o F \o P \o F \o P, Construct, w)
      /\ NoJump(F \o P \o F \o P \o F \o P)
  BY <1>1, <1>2, <1>3, <1>5, ConcatClean
<1>7. Good(F \o P \o F \o P \o F \o P \o T \o P, Construct, w)
      /\ NoJump(F \o P \o F \o P \o F \o P \o T \o P)
  BY <1>1, <1>2, <1>3, <1>6, ConcatClean
<1>8. Good(F \o P \o F \o P \o F \o P \o T \o P \o T \o P, Construct, w)
      /\ NoJump(F \o P \o F \o P \o F \o P \o T \o P \o T \o P)
  BY <1>1, <1>2, <1>3, <1>7, ConcatClean
<1>. QED
  BY <1>2, <1>3, <1>8, ConcatClean DEF repeated_construction_destruction_test

(* The whole program: well formed, from the first USBTester construction   *)
(* to the last destruction.                                                *)
LEMMA CasesGood == Good(cases, Construct, Destruct)
<1> DEFINE w == Pause(CaseSwitchUs)
           C1 == control_basic_test \o CaseSwitch \o control_stall_test
                 \o CaseSwitch \o control_sizes_test \o CaseSwitch
                 \o control_stress_test \o CaseSwitch
<1>1. PairOK(Destruct, w) /\ PairOK(w, Construct)
      /\ PairOK(w, Send("reset_support"))
  BY DEF PairOK, Scoped, Destruct, Pause, Construct, Send, Call
<1>2. /\ Good(control_basic_test, Construct, Destruct)
      /\ NoJump(control_basic_test)
      /\ Good(control_stall_test, Construct, Destruct)
      /\ NoJump(control_stall_test)
      /\ Good(control_sizes_test, Construct, Destruct)
      /\ NoJump(control_sizes_test)
      /\ Good(control_stress_test, Construct, Destruct)
      /\ NoJump(control_stress_test)
  BY ControlGood DEF control_basic_test, control_stall_test,
     control_sizes_test, control_stress_test, Requests
<1>3. Good(C1, Construct, w) /\ NoJump(C1)
  <2>1. Good(control_basic_test \o CaseSwitch, Construct, w)
        /\ NoJump(control_basic_test \o CaseSwitch)
    BY <1>1, <1>2, CaseSwitchGood, ConcatClean
  <2>2. Good(control_basic_test \o CaseSwitch \o control_stall_test
             \o CaseSwitch, Construct, w)
        /\ NoJump(control_basic_test \o CaseSwitch \o control_stall_test
                  \o CaseSwitch)
    <3>1. Good(control_basic_test \o CaseSwitch \o control_stall_test,
               Construct, Destruct)
          /\ NoJump(control_basic_test \o CaseSwitch \o control_stall_test)
      BY <1>1, <1>2, <2>1, ConcatClean
    <3>. QED
      BY <1>1, <3>1, CaseSwitchGood, ConcatClean
  <2>3. Good(control_basic_test \o CaseSwitch \o control_stall_test
             \o CaseSwitch \o control_sizes_test \o CaseSwitch, Construct, w)
        /\ NoJump(control_basic_test \o CaseSwitch \o control_stall_test
                  \o CaseSwitch \o control_sizes_test \o CaseSwitch)
    <3>1. Good(control_basic_test \o CaseSwitch \o control_stall_test
               \o CaseSwitch \o control_sizes_test, Construct, Destruct)
          /\ NoJump(control_basic_test \o CaseSwitch \o control_stall_test
                    \o CaseSwitch \o control_sizes_test)
      BY <1>1, <1>2, <2>2, ConcatClean
    <3>. QED
      BY <1>1, <3>1, CaseSwitchGood, ConcatClean
  <2>4. Good(control_basic_test \o CaseSwitch \o control_stall_test
             \o CaseSwitch \o control_sizes_test \o CaseSwitch
             \o control_stress_test, Construct, Destruct)
        /\ NoJump(control_basic_test \o CaseSwitch \o control_stall_test
                  \o CaseSwitch \o control_sizes_test \o CaseSwitch
                  \o control_stress_test)
    BY <1>1, <1>2, <2>3, ConcatClean
  <2>. QED
    BY <1>1, <2>4, CaseSwitchGood, ConcatClean
<1>4. Good(C1 \o device_reset_test, Construct, Destruct)
  BY <1>1, <1>3, DeviceResetGood, ConcatGood
<1>5. ~Scoped(w) /\ ~Scoped(Construct)
  BY DEF Scoped, Pause, Construct, Call
<1>6. Good(C1 \o device_reset_test \o CaseSwitch, Construct, w)
  BY <1>1, <1>4, <1>5, CaseSwitchGood, ConcatGood
<1>7. Good(C1 \o device_reset_test \o CaseSwitch
           \o device_soft_reconnection_test, Construct, Destruct)
  BY <1>1, <1>5, <1>6, SoftGood, ConcatGood
<1>8. Good(C1 \o device_reset_test \o CaseSwitch
           \o device_soft_reconnection_test \o CaseSwitch, Construct, w)
  BY <1>1, <1>5, <1>7, CaseSwitchGood, ConcatGood
<1>9. Good(C1 \o device_reset_test \o CaseSwitch
           \o device_soft_reconnection_test \o CaseSwitch
           \o repeated_construction_destruction_test, Construct, Destruct)
  BY <1>1, <1>5, <1>8, RepeatedGood, ConcatGood
<1>. QED
  BY <1>9 DEF cases

(* The inductive invariant behind TestAssertionsHold, in four parts.      *)
(* InvTypes: the variables' types; resetCount is only known to be a        *)
(* natural here (its bound MaxResets needs the resets counted over the     *)
(* whole program: ResetInv of BasicTestResets).                            *)
InvTypes ==
    /\ pc \in 1..Done /\ failed = FALSE
    /\ inited \in BOOLEAN /\ conn \in BOOLEAN /\ devState \in DevStates
    /\ pendingReset \in BOOLEAN /\ resetCount \in Nat
    /\ gap \in 0..DetachDetectUs
    /\ session \in {"none", "enumerating", "enumerated"}
    /\ hostTask \in Requests \cup {"none"}
    /\ kvOut \in Requests \cup {"none"} /\ kvIn \in Replies \cup {"none"}
    /\ resetSupported \in BOOLEAN /\ resetsDone \in 0..HostResets

(* InvDevice: the device's state against the bus and the host's session;  *)
(* a latched reset of a configured device is one the host is answering a   *)
(* request with.                                                           *)
InvDevice ==
    /\ inited = (devState # "detached")
    /\ devState \in {"addressed", "configured"} => conn /\ session # "none"
    /\ devState = "addressed" => session = "enumerating" /\ ~pendingReset
    /\ pendingReset => session # "enumerated"
    /\ pendingReset /\ devState = "configured" => hostTask # "none"

(* InvHost: the greentea keys in flight against the call the test is in:   *)
(* an answer is only ever pending for the call that parses it, and no      *)
(* "fail" is ever given.                                                   *)
InvHost ==
    /\ kvIn # "none" => kvOut = "none" /\ hostTask = "none"
    /\ kvIn \in {"true", "false"} => Op = "parseSupport"
    /\ kvIn = "pass" => Op \in {"parse", "waitReset"}
    /\ kvIn # "fail"
    /\ kvOut # "none" => hostTask = "none"
    /\ kvOut = "reset_support" => Op = "parseSupport"
    /\ kvOut \notin {"none", "reset_support"} => Op \in {"parse", "waitReset"}
    /\ hostTask # "none" => kvOut = "none" /\ Op \in {"parse", "waitReset"}

(* InvCall: the call the test is in against the device: inside a          *)
(* USBTester's scope the device is on the bus; an enumerated device that   *)
(* is not configured is only seen while the constructor waits; a device    *)
(* off the bus is either in the disconnect wait or forgotten by the host.  *)
InvCall ==
    /\ pc < Done /\ Scoped(Instr) => inited /\ conn
    /\ Op = "assertConfigured" => devState = "configured" /\ ~pendingReset
    /\ inited /\ conn /\ session = "enumerated" /\ devState # "configured"
          => Op = "ready" /\ kvOut = "none" /\ hostTask = "none"
    /\ inited /\ ~conn =>
          \/ Op = "wait" /\ Arg = MIN_DISCONNECT_TIME_US
          \/ session = "none"

TestInv == InvTypes /\ InvDevice /\ InvHost /\ InvCall
-----------------------------------------------------------------------------
(* The shape of the program the test thread runs, as the step proofs use   *)
(* it.                                                                     *)
LEMMA ProgFacts ==
    /\ cases \in Seq(CallSet) /\ Len(cases) \in Nat /\ Len(cases) >= 1
    /\ Done = Len(cases) + 1
    /\ cases[1] = Construct /\ cases[Len(cases)] = Destruct
    /\ \A i \in 1..Len(cases) : ItemOK(cases[i])
    /\ \A i \in 1..Len(cases) - 1 : PairOK(cases[i], cases[i + 1])
    /\ JumpOK(cases) /\ ReconnectOK(cases)
BY CasesGood DEF Good, Done

(* A call that moves on to the next one: the next call is in the program   *)
(* and may follow the current one, or the current one was the last        *)
(* destruction.                                                            *)
LEMMA Advance ==
    ASSUME InvTypes, pc < Done, pc' = pc + 1
    PROVE  /\ pc' \in 1..Done /\ (pc' < Done \/ pc' = Done)
           /\ Instr \in CallSet /\ ItemOK(Instr)
           /\ pc' < Done => /\ Instr' = cases[pc'] /\ ItemOK(Instr')
                            /\ Op' = Instr'.op /\ Arg' = Instr'.arg
                            /\ PairOK(Instr, Instr')
           /\ pc' = Done => Op' = "end" /\ Instr.op = "destruct"
<1>1. pc \in 1..Len(cases)
  BY ProgFacts DEF InvTypes
<1>2. Instr \in CallSet /\ ItemOK(Instr)
  BY <1>1, ProgFacts DEF Instr
<1>3. ASSUME pc' < Done
      PROVE  /\ Instr' = cases[pc'] /\ ItemOK(Instr')
             /\ Op' = Instr'.op /\ Arg' = Instr'.arg
             /\ PairOK(Instr, Instr')
  <2>1. pc \in 1..Len(cases) - 1 /\ pc' = pc + 1 /\ pc' \in 1..Len(cases)
    BY <1>1, <1>3, ProgFacts
  <2>2. Instr' = cases[pc'] /\ Op' = Instr'.op /\ Arg' = Instr'.arg
    BY <1>3 DEF Instr, Op, Arg
  <2>. QED
    BY <2>1, <2>2, ProgFacts DEF Instr
<1>4. ASSUME pc' = Done PROVE Op' = "end" /\ Instr.op = "destruct"
  <2>1. pc = Len(cases)
    BY <1>1, <1>4, ProgFacts
  <2>2. Op' = "end"
    BY <1>4 DEF Op
  <2>. QED
    BY <2>1, <2>2, ProgFacts DEF Instr, Destruct, Call
<1>. QED
  BY <1>1, <1>2, <1>3, <1>4, ProgFacts

(* The program starts with USBTester's construction, outside every scope.  *)
LEMMA InitTestInv == Init => TestInv
<1> SUFFICES ASSUME Init PROVE TestInv
  OBVIOUS
<1>1. pc < Done /\ Op = "construct" /\ ~Scoped(Instr)
  BY ProgFacts DEF Init, Op, Instr, Construct, Call, Scoped
<1>2. InvTypes
  <2>1. pc \in 1..Done
    BY ProgFacts DEF Init
  <2>2. gap \in 0..DetachDetectUs
    BY BoundsAssumption DEF Init
  <2>3. resetsDone \in 0..HostResets /\ resetCount \in Nat
    BY BoundsAssumption DEF Init
  <2>4. devState \in DevStates /\ session \in {"none", "enumerating", "enumerated"}
    BY DEF Init, DevStates
  <2>5. /\ hostTask \in Requests \cup {"none"} /\ kvOut \in Requests \cup {"none"}
        /\ kvIn \in Replies \cup {"none"}
    BY DEF Init
  <2>. QED
    BY <2>1, <2>2, <2>3, <2>4, <2>5 DEF Init, InvTypes
<1>. QED
  BY <1>1, <1>2 DEF Init, TestInv, InvDevice, InvHost, InvCall

(* Outside the three calls that wait for the host, no key is in flight.    *)
LEMMA QuietKeys ==
    ASSUME TestInv, Op \notin {"parse", "waitReset", "parseSupport"}
    PROVE  kvIn = "none" /\ kvOut = "none" /\ hostTask = "none"
BY DEF TestInv, InvTypes, InvHost, Replies

(* greentea_send_kv: the key goes out and the test moves to the call that  *)
(* parses its answer.                                                      *)
LEMMA SendStep ==
    ASSUME TestInv, pc < Done, greentea_send_kv
    PROVE  TestInv'
<1>1. Op = "send" /\ Instr.op = "send" /\ Instr.arg \in Requests
  <2>1. Op = "send"
    BY DEF greentea_send_kv, Op
  <2>2. Instr \in CallSet /\ ItemOK(Instr)
    BY Advance DEF greentea_send_kv, Next_pc, TestInv
  <2>. QED
    BY <2>1, <2>2 DEF Op, ItemOK
<1>2. kvIn = "none" /\ hostTask = "none"
  BY <1>1, QuietKeys
<1>3. /\ pc' \in 1..Done /\ pc' < Done /\ Op' = Instr'.op
      /\ PairOK(Instr, Instr')
  BY <1>1, Advance DEF greentea_send_kv, Next_pc, TestInv, Op
<1>4. /\ Instr.arg = "reset_support" => Op' = "parseSupport"
      /\ Instr.arg # "reset_support" => Op' \in {"parse", "waitReset"}
      /\ ~Scoped(Instr') => Op' # "assertConfigured"
  BY <1>1, <1>3 DEF PairOK, Op, Scoped
<1>5. InvTypes'
  BY <1>1, <1>3 DEF greentea_send_kv, TestInv, InvTypes, devVars
<1>6. InvDevice'
  BY DEF greentea_send_kv, TestInv, InvDevice, devVars
<1>7. InvHost'
  BY <1>1, <1>2, <1>4 DEF greentea_send_kv, TestInv, InvHost
<1>8. InvCall'
  <2>1. Scoped(Instr') => inited' /\ conn'
    <3>1. CASE Instr.arg = "reset_support"
      BY <1>4, <3>1, <1>3 DEF Scoped
    <3>2. CASE Instr.arg # "reset_support"
      BY <1>1, <3>2 DEF greentea_send_kv, TestInv, InvCall, Scoped, Op,
                        devVars
    <3>. QED
      BY <3>1, <3>2
  <2>2. Op' # "assertConfigured" /\ Op # "ready" /\ Op # "wait"
    BY <1>1, <1>4
  <2>. QED
    BY <1>3, <2>1, <2>2 DEF greentea_send_kv, TestInv, InvCall, devVars
<1>. QED
  BY <1>5, <1>6, <1>7, <1>8 DEF TestInv

(* greentea_parse_kv and its TEST_ASSERT: the answer pending is "pass",    *)
(* and the test stays inside the USBTester's scope.                        *)
LEMMA ParseStep ==
    ASSUME TestInv, pc < Done, greentea_parse_kv
    PROVE  TestInv'
<1>1. Op = "parse" /\ Instr.op = "parse" /\ Scoped(Instr)
  BY DEF greentea_parse_kv, Op, Scoped
<1>2. kvIn = "pass" /\ kvOut = "none" /\ hostTask = "none" /\ inited /\ conn
  BY <1>1 DEF greentea_parse_kv, TestInv, InvTypes, InvHost, InvCall, Replies
<1>3. failed' = FALSE /\ pc' = pc + 1
  BY <1>2 DEF greentea_parse_kv, TestAssert
<1>4. /\ pc' \in 1..Done /\ pc' < Done /\ Op' = Instr'.op
      /\ PairOK(Instr, Instr')
  BY <1>1, <1>3, Advance DEF TestInv, Op
<1>5. Scoped(Instr') /\ Op' # "assertConfigured"
  BY <1>1, <1>4 DEF PairOK, Op, Scoped
<1>6. InvTypes'
  BY <1>3, <1>4 DEF greentea_parse_kv, TestInv, InvTypes, devVars
<1>7. InvDevice'
  BY DEF greentea_parse_kv, TestInv, InvDevice, devVars
<1>8. InvHost'
  BY <1>2 DEF greentea_parse_kv, InvHost
<1>9. InvCall'
  BY <1>1, <1>2, <1>4, <1>5 DEF greentea_parse_kv, TestInv, InvCall, devVars
<1>. QED
  BY <1>6, <1>7, <1>8, <1>9 DEF TestInv

(* The jump of ParseResetSupport lands on a call outside every scope, or   *)
(* just past the program.                                                  *)
LEMMA JumpLanding ==
    ASSUME InvTypes, pc < Done, Instr.op = "parseSupport"
    PROVE  LET L == pc + 1 + Instr.arg
           IN  /\ L \in 1..Done
               /\ L < Done => ~Scoped(cases[L])
<1>1. pc \in 1..Len(cases) /\ Instr.arg \in Nat
  BY ProgFacts DEF InvTypes, Instr, ItemOK
<1>2. /\ Landing(cases, pc) <= Len(cases) + 1
      /\ Landing(cases, pc) <= Len(cases) => ~Scoped(cases[Landing(cases, pc)])
  BY <1>1, ProgFacts DEF JumpOK, Instr
<1>. QED
  BY <1>1, <1>2, ProgFacts DEF Landing, Instr

(* ParseResetSupport: the host's answer is read and the test either runs   *)
(* device_reset_test or skips it; both land outside every scope.           *)
LEMMA SupportStep ==
    ASSUME TestInv, pc < Done, ParseResetSupport
    PROVE  TestInv'
<1>1. Op = "parseSupport" /\ Instr.op = "parseSupport" /\ ~Scoped(Instr)
  BY DEF ParseResetSupport, Op, Scoped
<1>2. kvOut = "none" /\ hostTask = "none"
  BY DEF ParseResetSupport, TestInv, InvHost
<1>3. pc' \in 1..Done /\ (pc' < Done => ~Scoped(Instr'))
  <2>1. CASE kvIn = "false"
    BY <2>1, JumpLanding DEF ParseResetSupport, TestInv, Instr
  <2>2. CASE kvIn # "false"
    <3>1. pc' = pc + 1
      BY <2>2 DEF ParseResetSupport
    <3>2. /\ pc' \in 1..Done
          /\ pc' < Done => PairOK(Instr, Instr')
      BY <3>1, Advance DEF TestInv
    <3>. QED
      BY <1>1, <3>2 DEF PairOK
  <2>. QED
    BY <2>1, <2>2
<1>4. pc' < Done => Op' = Instr'.op
  BY DEF Op, Instr
<1>5. Op' # "assertConfigured"
  BY <1>3, <1>4 DEF Op, Scoped
<1>6. InvTypes'
  BY <1>3 DEF ParseResetSupport, TestInv, InvTypes, devVars
<1>7. InvDevice'
  BY DEF ParseResetSupport, TestInv, InvDevice, devVars
<1>8. InvHost'
  BY <1>2 DEF ParseResetSupport, InvHost
<1>9. InvCall'
  BY <1>1, <1>2, <1>3, <1>5 DEF ParseResetSupport, TestInv, InvCall, devVars
<1>. QED
  BY <1>6, <1>7, <1>8, <1>9 DEF TestInv

(* The USBTester constructor: the device comes up on the bus, and the next *)
(* call is the wait for its configuration.                                 *)
LEMMA ConstructStep ==
    ASSUME TestInv, pc < Done, USBTester
    PROVE  TestInv'
<1>1. Op = "construct" /\ Instr.op = "construct"
  BY DEF USBTester, Op
<1>2. kvIn = "none" /\ kvOut = "none" /\ hostTask = "none"
  BY <1>1, QuietKeys
<1>3. /\ pc' \in 1..Done /\ pc' < Done /\ Op' = "ready" /\ Scoped(Instr')
  <2>1. /\ pc' \in 1..Done /\ (pc' < Done \/ pc' = Done)
        /\ pc' < Done => Op' = Instr'.op /\ PairOK(Instr, Instr')
        /\ pc' = Done => Instr.op = "destruct"
    BY Advance DEF USBTester, Next_pc, TestInv
  <2>. QED
    BY <1>1, <2>1 DEF Op, PairOK, Scoped
<1>4. InvTypes'
  BY <1>3 DEF USBTester, TestInv, InvTypes, DevStates, hostVars
<1>5. InvDevice'
  BY DEF USBTester, InvDevice
<1>6. InvHost'
  BY <1>2 DEF USBTester, InvHost, hostVars
<1>7. InvCall'
  BY <1>2, <1>3 DEF USBTester, InvCall, hostVars
<1>. QED
  BY <1>4, <1>5, <1>6, <1>7 DEF TestInv

(* The constructor's wait: the device is configured, and no reset of it is *)
(* latched, since no host request is being answered.                       *)
LEMMA ReadyStep ==
    ASSUME TestInv, pc < Done, WaitReady
    PROVE  TestInv'
<1>1. Op = "ready" /\ Instr.op = "ready" /\ Scoped(Instr)
  BY DEF WaitReady, Op, Scoped
<1>2. kvIn = "none" /\ kvOut = "none" /\ hostTask = "none"
  BY <1>1, QuietKeys
<1>3. devState = "configured" /\ ~pendingReset /\ inited /\ conn
  BY <1>1, <1>2 DEF WaitReady, TestInv, InvDevice, InvCall
<1>4. /\ pc' \in 1..Done /\ pc' < Done /\ Op' = Instr'.op
      /\ PairOK(Instr, Instr')
  BY <1>1, Advance DEF WaitReady, Next_pc, TestInv, Op
<1>5. Scoped(Instr')
  BY <1>1, <1>4 DEF PairOK, Scoped
<1>6. InvTypes'
  BY <1>4 DEF WaitReady, TestInv, InvTypes, devVars, hostVars
<1>7. InvDevice'
  BY DEF WaitReady, TestInv, InvDevice, devVars, hostVars
<1>8. InvHost'
  BY <1>2 DEF WaitReady, InvHost, hostVars
<1>9. InvCall'
  BY <1>2, <1>3, <1>4, <1>5 DEF WaitReady, InvCall, devVars, hostVars
<1>. QED
  BY <1>6, <1>7, <1>8, <1>9 DEF TestInv

(* The destructor: the device leaves the bus and the test leaves the       *)
(* scope.                                                                  *)
LEMMA DestroyStep ==
    ASSUME TestInv, pc < Done, USBTester_destroy
    PROVE  TestInv'
<1>1. Op = "destruct" /\ Instr.op = "destruct"
  BY DEF USBTester_destroy, Op
<1>2. kvIn = "none" /\ kvOut = "none" /\ hostTask = "none"
  BY <1>1, QuietKeys
<1>3. pc' \in 1..Done /\ (pc' < Done => ~Scoped(Instr') /\ Op' = Instr'.op)
  <2>1. /\ pc' \in 1..Done /\ (pc' < Done \/ pc' = Done)
        /\ pc' < Done => Op' = Instr'.op /\ PairOK(Instr, Instr')
    BY Advance DEF USBTester_destroy, Next_pc, TestInv
  <2>. QED
    BY <1>1, <2>1 DEF Op, PairOK
<1>4. Op' # "assertConfigured"
  BY <1>3 DEF Op, Scoped
<1>5. InvTypes'
  <2>1. /\ failed' = failed /\ resetCount' = resetCount
        /\ session' = session /\ hostTask' = hostTask /\ kvOut' = kvOut
        /\ kvIn' = kvIn /\ resetSupported' = resetSupported
        /\ resetsDone' = resetsDone
    BY DEF USBTester_destroy, hostVars
  <2>2. gap' \in 0..DetachDetectUs /\ devState' \in DevStates
    BY BoundsAssumption DEF USBTester_destroy, DevStates
  <2>. QED
    BY <1>3, <2>1, <2>2 DEF USBTester_destroy, TestInv, InvTypes
<1>6. InvDevice'
  BY DEF USBTester_destroy, InvDevice
<1>7. InvHost'
  BY <1>2 DEF USBTester_destroy, InvHost, hostVars
<1>8. InvCall'
  BY <1>3, <1>4 DEF USBTester_destroy, InvCall
<1>. QED
  BY <1>5, <1>6, <1>7, <1>8 DEF TestInv

(* A call inside a USBTester's scope that no key waits on and that leaves  *)
(* the device on the bus moves to a call that is in the scope too.         *)
LEMMA ScopedAdvance ==
    ASSUME TestInv, pc < Done, pc' = pc + 1, Scoped(Instr),
           Instr.op \notin {"destruct", "disconnect", "ready"}
    PROVE  /\ pc' \in 1..Done /\ pc' < Done /\ Op' = Instr'.op
           /\ Scoped(Instr') /\ Op' # "assertConfigured"
<1>1. /\ pc' \in 1..Done /\ (pc' < Done \/ pc' = Done)
      /\ pc' < Done => Op' = Instr'.op /\ PairOK(Instr, Instr')
      /\ pc' = Done => Instr.op = "destruct"
  BY Advance DEF TestInv
<1>. QED
  BY <1>1 DEF PairOK, Scoped

(* clear_reset_count: only the counter changes.                            *)
LEMMA ClearStep ==
    ASSUME TestInv, pc < Done, clear_reset_count
    PROVE  TestInv'
<1>1. Op = "clear" /\ Instr.op = "clear" /\ Scoped(Instr)
  BY DEF clear_reset_count, Op, Scoped
<1>2. kvIn = "none" /\ kvOut = "none" /\ hostTask = "none" /\ inited /\ conn
  BY <1>1, QuietKeys DEF TestInv, InvCall
<1>3. /\ pc' \in 1..Done /\ pc' < Done /\ Op' = Instr'.op
      /\ Scoped(Instr') /\ Op' # "assertConfigured"
  BY <1>1, ScopedAdvance DEF clear_reset_count, Next_pc, Op
<1>. QED
  BY <1>1, <1>2, <1>3 DEF clear_reset_count, TestInv, InvTypes, InvDevice,
                          InvHost, InvCall, hostVars

(* The spin on get_reset_count(): the test moves on to parse the answer to *)
(* the device_reset_test key it sent.                                      *)
LEMMA WaitResetStep ==
    ASSUME TestInv, pc < Done, get_reset_count
    PROVE  TestInv'
<1>1. Op = "waitReset" /\ Instr.op = "waitReset" /\ Scoped(Instr)
  BY DEF get_reset_count, Op, Scoped
<1>2. inited /\ conn /\ kvIn \notin {"true", "false"} /\ kvOut # "reset_support"
  BY <1>1 DEF TestInv, InvCall, InvHost
<1>3. /\ pc' \in 1..Done /\ pc' < Done /\ Op' = "parse"
      /\ Scoped(Instr')
  <2>1. /\ pc' \in 1..Done /\ pc' < Done /\ Op' = Instr'.op
        /\ PairOK(Instr, Instr')
    BY <1>1, Advance DEF get_reset_count, Next_pc, TestInv, Op
  <2>. QED
    BY <1>1, <2>1 DEF PairOK, Op, Scoped
<1>4. InvTypes'
  BY <1>3 DEF get_reset_count, TestInv, InvTypes, devVars, hostVars
<1>5. InvDevice'
  BY DEF get_reset_count, TestInv, InvDevice, devVars, hostVars
<1>6. InvHost'
  BY <1>2, <1>3 DEF get_reset_count, TestInv, InvTypes, InvHost, devVars,
                    hostVars
<1>7. InvCall'
  BY <1>1, <1>2, <1>3 DEF get_reset_count, TestInv, InvCall, devVars, hostVars
<1>. QED
  BY <1>4, <1>5, <1>6, <1>7 DEF TestInv

(* The spin on configured(): the device is configured when it ends.        *)
LEMMA WaitConfiguredStep ==
    ASSUME TestInv, pc < Done, configured
    PROVE  TestInv'
<1>1. /\ Op = "waitConfigured" /\ Instr.op = "waitConfigured"
      /\ Scoped(Instr)
  BY DEF configured, Op, Scoped
<1>2. kvIn = "none" /\ kvOut = "none" /\ hostTask = "none" /\ inited /\ conn
  BY <1>1, QuietKeys DEF TestInv, InvCall
<1>3. /\ pc' \in 1..Done /\ pc' < Done /\ Op' = Instr'.op
      /\ Scoped(Instr') /\ Op' # "assertConfigured"
  BY <1>1, ScopedAdvance DEF configured, Next_pc, Op
<1>. QED
  BY <1>1, <1>2, <1>3 DEF configured, TestInv, InvTypes, InvDevice,
                          InvHost, InvCall, devVars, hostVars

(* TEST_ASSERT_EQUAL(true, serial.configured()) holds where it is made.    *)
LEMMA AssertConfiguredStep ==
    ASSUME TestInv, pc < Done, AssertConfigured
    PROVE  TestInv'
<1>1. /\ Op = "assertConfigured" /\ Instr.op = "assertConfigured"
      /\ Scoped(Instr)
  BY DEF AssertConfigured, Op, Scoped
<1>2. /\ kvIn = "none" /\ kvOut = "none" /\ hostTask = "none"
      /\ inited /\ conn /\ devState = "configured"
  BY <1>1, QuietKeys DEF TestInv, InvCall
<1>3. failed' = FALSE /\ pc' = pc + 1
  BY <1>2 DEF AssertConfigured, TestAssert
<1>4. /\ pc' \in 1..Done /\ pc' < Done /\ Op' = Instr'.op
      /\ Scoped(Instr') /\ Op' # "assertConfigured"
  BY <1>1, <1>3, ScopedAdvance DEF Op
<1>. QED
  BY <1>1, <1>2, <1>3, <1>4 DEF AssertConfigured, TestInv, InvTypes,
                                InvDevice, InvHost, InvCall, devVars, hostVars

(* disconnect(): the pull-up goes off and the next call is the wait of     *)
(* MIN_DISCONNECT_TIME_US.                                                 *)
LEMMA DisconnectStep ==
    ASSUME TestInv, pc < Done, disconnect
    PROVE  TestInv'
<1>1. Op = "disconnect" /\ Instr.op = "disconnect"
  BY DEF disconnect, Op
<1>2. kvIn = "none" /\ kvOut = "none" /\ hostTask = "none"
  BY <1>1, QuietKeys
<1>3. /\ pc' \in 1..Done /\ pc' < Done
      /\ Op' = "wait" /\ Arg' = MIN_DISCONNECT_TIME_US /\ ~Scoped(Instr')
  <2>1. /\ pc' \in 1..Done /\ pc' < Done /\ Op' = Instr'.op
        /\ Arg' = Instr'.arg /\ PairOK(Instr, Instr')
    BY <1>1, Advance DEF disconnect, Next_pc, TestInv, Op
  <2>. QED
    BY <1>1, <2>1 DEF PairOK, Op, Scoped
<1>4. InvTypes'
  <2>1. /\ failed' = failed /\ inited' = inited /\ pendingReset' = pendingReset
        /\ resetCount' = resetCount
        /\ session' = session /\ hostTask' = hostTask /\ kvOut' = kvOut
        /\ kvIn' = kvIn /\ resetSupported' = resetSupported
        /\ resetsDone' = resetsDone
    BY DEF disconnect, hostVars
  <2>2. gap' \in 0..DetachDetectUs /\ devState' \in DevStates /\ conn' = FALSE
    BY BoundsAssumption DEF disconnect, DevStates
  <2>. QED
    BY <1>3, <2>1, <2>2 DEF TestInv, InvTypes
<1>5. InvDevice'
  BY DEF disconnect, TestInv, InvTypes, InvDevice, hostVars
<1>6. InvHost'
  BY <1>2 DEF disconnect, InvHost, hostVars
<1>7. InvCall'
  BY <1>3 DEF disconnect, InvCall, hostVars
<1>. QED
  BY <1>4, <1>5, <1>6, <1>7 DEF TestInv

(* connect(): the pull-up goes on again, to a host that has forgotten the  *)
(* device.                                                                 *)
LEMMA ConnectStep ==
    ASSUME TestInv, pc < Done, connect
    PROVE  TestInv'
<1>1. Op = "connect" /\ Instr.op = "connect" /\ ~Scoped(Instr)
  BY DEF connect, Op, Scoped
<1>2. kvIn = "none" /\ kvOut = "none" /\ hostTask = "none"
  BY <1>1, QuietKeys
<1>3. session = "none" /\ devState \notin {"addressed", "configured"}
  BY <1>1 DEF connect, TestInv, InvCall, InvDevice
<1>4. /\ pc' \in 1..Done /\ (pc' < Done \/ pc' = Done)
      /\ pc' < Done => Op' = Instr'.op /\ Op' # "assertConfigured"
  <2>1. /\ pc' \in 1..Done /\ (pc' < Done \/ pc' = Done)
        /\ pc' < Done => Op' = Instr'.op /\ PairOK(Instr, Instr')
    BY Advance DEF connect, Next_pc, TestInv
  <2>. QED
    BY <1>1, <2>1 DEF PairOK
<1>5. pc' = Done => Op' = "end"
  BY Advance DEF connect, Next_pc, TestInv
<1>6. InvTypes'
  <2>1. /\ failed' = failed /\ inited' = inited /\ devState' = devState
        /\ pendingReset' = pendingReset /\ resetCount' = resetCount
        /\ gap' = gap /\ conn' = TRUE
        /\ session' = session /\ hostTask' = hostTask /\ kvOut' = kvOut
        /\ kvIn' = kvIn /\ resetSupported' = resetSupported
        /\ resetsDone' = resetsDone
    BY DEF connect, hostVars
  <2>. QED
    BY <1>4, <2>1 DEF TestInv, InvTypes
<1>7. InvDevice'
  BY <1>3 DEF connect, TestInv, InvTypes, InvDevice, hostVars
<1>8. InvHost'
  BY <1>2 DEF connect, InvHost, hostVars
<1>9. InvCall'
  BY <1>3, <1>4, <1>5 DEF connect, InvCall, hostVars
<1>. QED
  BY <1>6, <1>7, <1>8, <1>9 DEF TestInv

(* wait_us(): a device off the bus is either waiting MIN_DISCONNECT_TIME_US *)
(* or already forgotten; the wait is long enough for the host to forget   *)
(* it, provided the host notices a detach within MIN_DISCONNECT_TIME_US.   *)
LEMMA WaitStep ==
    ASSUME DetachDetectUs <= MIN_DISCONNECT_TIME_US,
           TestInv, pc < Done, wait_us
    PROVE  TestInv'
<1>1. /\ Op = "wait" /\ Instr.op = "wait" /\ ~Scoped(Instr)
      /\ Instr.arg \in Nat
  <2>1. Instr \in CallSet /\ ItemOK(Instr)
    BY Advance DEF wait_us, Next_pc, TestInv
  <2>. QED
    BY <2>1 DEF wait_us, Op, Scoped, ItemOK
<1>2. kvIn = "none" /\ kvOut = "none" /\ hostTask = "none"
  BY <1>1, QuietKeys
<1>3. /\ pc' \in 1..Done
      /\ pc' < Done => Op' = Instr'.op /\ ~Scoped(Instr')
      /\ Op' # "assertConfigured"
  <2>1. /\ pc' \in 1..Done /\ (pc' < Done \/ pc' = Done)
        /\ pc' < Done => Op' = Instr'.op /\ PairOK(Instr, Instr')
        /\ pc' = Done => Op' = "end"
    BY Advance DEF wait_us, Next_pc, TestInv
  <2>. QED
    BY <1>1, <2>1 DEF PairOK, Scoped
<1>4. gap' \in 0..DetachDetectUs
  BY <1>1, BoundsAssumption DEF wait_us, TestInv, InvTypes
<1>5. conn => session' = session
  BY DEF wait_us
<1>6. inited /\ ~conn => session' = "none"
  <2>1. SUFFICES ASSUME inited, ~conn PROVE session' = "none"
    OBVIOUS
  <2>2. Arg = MIN_DISCONNECT_TIME_US \/ session = "none"
    BY <1>1, <2>1 DEF TestInv, InvCall
  <2>3. CASE Arg = MIN_DISCONNECT_TIME_US
    <3>1. Instr.arg = MIN_DISCONNECT_TIME_US
      BY <2>3 DEF Arg
    <3>2. gap' = DetachDetectUs
      BY <3>1, BoundsAssumption DEF wait_us, TestInv, InvTypes,
                                    MIN_DISCONNECT_TIME_US
    <3>. QED
      BY <2>1, <3>2 DEF wait_us
  <2>4. CASE session = "none"
    BY <2>4 DEF wait_us
  <2>. QED
    BY <2>2, <2>3, <2>4
<1>7. session' \in {"none", session}
  BY DEF wait_us
<1>8. InvTypes'
  BY <1>3, <1>4, <1>7 DEF wait_us, TestInv, InvTypes
<1>9. InvDevice'
  BY <1>5, <1>7 DEF wait_us, TestInv, InvDevice
<1>10. InvHost'
  BY <1>2 DEF wait_us, InvHost
<1>11. InvCall'
  BY <1>1, <1>3, <1>5, <1>6 DEF wait_us, TestInv, InvCall
<1>. QED
  BY <1>8, <1>9, <1>10, <1>11 DEF TestInv

(* A step that leaves pc alone leaves the test's call alone.               *)
LEMMA TestFrame ==
    ASSUME pc' = pc
    PROVE  Op' = Op /\ Arg' = Arg /\ Instr' = Instr
BY DEF Op, Arg, Instr

(* process() hands a latched reset to USBDevice; a reset is only latched   *)
(* while the host enumerates the device, so it is not taken from a device  *)
(* the test is asserting configured.                                       *)
LEMMA ProcessResetStep ==
    ASSUME TestInv, ProcessReset
    PROVE  TestInv'
<1>1. /\ pc' = pc /\ failed' = failed /\ inited' = inited /\ conn' = conn
      /\ gap' = gap /\ session' = session /\ hostTask' = hostTask
      /\ kvOut' = kvOut /\ kvIn' = kvIn /\ resetSupported' = resetSupported
      /\ resetsDone' = resetsDone
      /\ inited /\ pendingReset' = FALSE /\ devState' = "default"
      /\ resetCount' = resetCount + 1
  BY DEF ProcessReset, testVars, hostVars
<1>2. Op' = Op /\ Arg' = Arg /\ Instr' = Instr
  BY <1>1, TestFrame
<1>3. session # "enumerated" /\ Op # "assertConfigured"
  BY DEF ProcessReset, TestInv, InvDevice, InvCall
<1>4. InvTypes'
  <2>1. resetCount' \in Nat /\ devState' \in DevStates
    BY <1>1 DEF TestInv, InvTypes, DevStates
  <2>. QED
    BY <1>1, <2>1 DEF TestInv, InvTypes
<1>5. InvDevice'
  BY <1>1 DEF TestInv, InvDevice
<1>6. InvHost'
  BY <1>1, <1>2 DEF TestInv, InvHost
<1>7. InvCall'
  BY <1>1, <1>2, <1>3 DEF TestInv, InvCall
<1>. QED
  BY <1>4, <1>5, <1>6, <1>7 DEF TestInv

(* The host's enumeration of a device it does not know yet.                *)
LEMMA HostAttachStep ==
    ASSUME TestInv, HostAttach
    PROVE  TestInv'
<1>1. /\ pc' = pc /\ failed' = failed /\ inited' = inited /\ conn' = conn
      /\ devState' = devState /\ resetCount' = resetCount /\ gap' = gap
      /\ hostTask' = hostTask /\ kvOut' = kvOut /\ kvIn' = kvIn
      /\ resetSupported' = resetSupported /\ resetsDone' = resetsDone
      /\ inited /\ conn /\ session = "none"
      /\ session' = "enumerating" /\ pendingReset' = TRUE
  BY DEF HostAttach, testVars
<1>2. Op' = Op /\ Arg' = Arg /\ Instr' = Instr
  BY <1>1, TestFrame
<1>3. devState \notin {"addressed", "configured"} /\ Op # "assertConfigured"
  BY <1>1 DEF TestInv, InvDevice, InvCall
<1>4. InvTypes'
  BY <1>1 DEF TestInv, InvTypes
<1>5. InvDevice'
  BY <1>1, <1>3 DEF TestInv, InvDevice
<1>6. InvHost'
  BY <1>1, <1>2 DEF TestInv, InvHost
<1>7. InvCall'
  BY <1>1, <1>2, <1>3 DEF TestInv, InvCall
<1>. QED
  BY <1>4, <1>5, <1>6, <1>7 DEF TestInv

(* SET_ADDRESS after the enumeration reset has been processed.             *)
LEMMA HostSetAddressStep ==
    ASSUME TestInv, HostSetAddress
    PROVE  TestInv'
<1>1. /\ pc' = pc /\ failed' = failed /\ inited' = inited /\ conn' = conn
      /\ pendingReset' = pendingReset /\ resetCount' = resetCount
      /\ gap' = gap /\ session' = session /\ hostTask' = hostTask
      /\ kvOut' = kvOut /\ kvIn' = kvIn /\ resetSupported' = resetSupported
      /\ resetsDone' = resetsDone
      /\ session = "enumerating" /\ conn /\ ~pendingReset
      /\ devState = "default" /\ devState' = "addressed"
  BY DEF HostSetAddress, testVars, hostVars
<1>2. Op' = Op /\ Arg' = Arg /\ Instr' = Instr
  BY <1>1, TestFrame
<1>3. Op # "assertConfigured"
  BY <1>1 DEF TestInv, InvCall
<1>4. InvTypes'
  BY <1>1 DEF TestInv, InvTypes, DevStates
<1>5. InvDevice'
  BY <1>1 DEF TestInv, InvDevice
<1>6. InvHost'
  BY <1>1, <1>2 DEF TestInv, InvHost
<1>7. InvCall'
  BY <1>1, <1>2, <1>3 DEF TestInv, InvCall
<1>. QED
  BY <1>4, <1>5, <1>6, <1>7 DEF TestInv

(* SET_CONFIGURATION completes the enumeration.                            *)
LEMMA HostSetConfigurationStep ==
    ASSUME TestInv, HostSetConfiguration
    PROVE  TestInv'
<1>1. /\ pc' = pc /\ failed' = failed /\ inited' = inited /\ conn' = conn
      /\ pendingReset' = pendingReset /\ resetCount' = resetCount
      /\ gap' = gap /\ hostTask' = hostTask
      /\ kvOut' = kvOut /\ kvIn' = kvIn /\ resetSupported' = resetSupported
      /\ resetsDone' = resetsDone
      /\ session = "enumerating" /\ conn /\ devState = "addressed"
      /\ devState' = "configured" /\ session' = "enumerated"
  BY DEF HostSetConfiguration, testVars
<1>2. Op' = Op /\ Arg' = Arg /\ Instr' = Instr
  BY <1>1, TestFrame
<1>3. Op # "assertConfigured" /\ ~pendingReset
  BY <1>1 DEF TestInv, InvDevice, InvCall
<1>4. InvTypes'
  BY <1>1 DEF TestInv, InvTypes, DevStates
<1>5. InvDevice'
  BY <1>1, <1>3 DEF TestInv, InvDevice
<1>6. InvHost'
  BY <1>1, <1>2 DEF TestInv, InvHost
<1>7. InvCall'
  BY <1>1, <1>2, <1>3 DEF TestInv, InvCall
<1>. QED
  BY <1>4, <1>5, <1>6, <1>7 DEF TestInv

(* The host reads a key: reset_support is answered for ParseResetSupport;  *)
(* device_reset_test and the other keys become the task of a test that    *)
(* waits for the answer in a parse or in the spin on get_reset_count().    *)
LEMMA HostServeStep ==
    ASSUME TestInv, HostServe
    PROVE  TestInv'
<1>1. /\ pc' = pc /\ failed' = failed /\ inited' = inited /\ conn' = conn
      /\ devState' = devState /\ resetCount' = resetCount /\ gap' = gap
      /\ resetSupported' = resetSupported
      /\ kvOut # "none" /\ hostTask = "none" /\ kvIn = "none"
      /\ kvOut' = "none"
  BY DEF HostServe, testVars
<1>2. Op' = Op /\ Arg' = Arg /\ Instr' = Instr
  BY <1>1, TestFrame
<1>3. CASE kvOut = "reset_support"
  <2>1. Op = "parseSupport"
    BY <1>3 DEF TestInv, InvHost
  <2>2. /\ kvIn' \in {"true", "false"}
        /\ session' = session /\ hostTask' = hostTask
        /\ pendingReset' = pendingReset /\ resetsDone' = resetsDone
    BY <1>3 DEF HostServe
  <2>3. InvTypes'
    BY <1>1, <2>2 DEF TestInv, InvTypes, Replies
  <2>4. InvDevice'
    BY <1>1, <2>2 DEF TestInv, InvDevice
  <2>5. InvHost'
    BY <1>1, <1>2, <2>1, <2>2 DEF InvHost
  <2>6. InvCall'
    BY <1>1, <1>2, <2>1, <2>2 DEF TestInv, InvCall
  <2>. QED
    BY <2>3, <2>4, <2>5, <2>6 DEF TestInv
<1>4. CASE kvOut # "reset_support"
  <2>1. Op \in {"parse", "waitReset"} /\ kvOut \in Requests
    BY <1>1, <1>4 DEF TestInv, InvTypes, InvHost
  <2>2. hostTask' = kvOut /\ kvIn' = "none"
    BY <1>4 DEF HostServe
  <2>3. Op # "assertConfigured" /\ Op # "ready"
    BY <2>1
  <2>4. CASE /\ kvOut = "device_reset_test" /\ resetsDone < HostResets
             /\ session = "enumerated" /\ conn
             /\ session' = "enumerating" /\ pendingReset' = TRUE
             /\ resetsDone' = resetsDone + 1
    <3>1. devState # "addressed"
      BY <2>4 DEF TestInv, InvDevice
    <3>2. InvTypes'
      <4>1. resetsDone' \in 0..HostResets
        BY <2>4, BoundsAssumption DEF TestInv, InvTypes
      <4>. QED
        BY <1>1, <2>1, <2>2, <2>4, <4>1 DEF TestInv, InvTypes
    <3>3. InvDevice'
      BY <1>1, <2>2, <2>4, <3>1 DEF TestInv, InvDevice
    <3>4. InvHost'
      BY <1>1, <1>2, <2>1, <2>2 DEF InvHost
    <3>5. InvCall'
      BY <1>1, <1>2, <2>3, <2>4 DEF TestInv, InvCall
    <3>. QED
      BY <3>2, <3>3, <3>4, <3>5 DEF TestInv
  <2>5. CASE /\ session' = session /\ pendingReset' = pendingReset
             /\ resetsDone' = resetsDone
    <3>2. InvTypes'
      BY <1>1, <2>1, <2>2, <2>5 DEF TestInv, InvTypes
    <3>3. InvDevice'
      BY <1>1, <2>1, <2>2, <2>5 DEF TestInv, InvDevice
    <3>4. InvHost'
      BY <1>1, <1>2, <2>1, <2>2 DEF InvHost
    <3>5. InvCall'
      BY <1>1, <1>2, <2>3, <2>5 DEF TestInv, InvCall
    <3>. QED
      BY <3>2, <3>3, <3>4, <3>5 DEF TestInv
  <2>. QED
    BY <1>4, <2>4, <2>5 DEF HostServe
<1>. QED
  BY <1>3, <1>4

(* The host's verdict: the task is only held while the test is inside a   *)
(* scope and the device is enumerated, so the device is on the bus and     *)
(* configured, and the verdict is "pass".                                  *)
LEMMA HostReplyStep ==
    ASSUME TestInv, HostReply
    PROVE  TestInv'
<1>1. /\ pc' = pc /\ failed' = failed /\ inited' = inited /\ conn' = conn
      /\ devState' = devState /\ pendingReset' = pendingReset
      /\ resetCount' = resetCount /\ gap' = gap /\ session' = session
      /\ kvOut' = kvOut /\ resetSupported' = resetSupported
      /\ resetsDone' = resetsDone
      /\ hostTask # "none" /\ session = "enumerated" /\ hostTask' = "none"
      /\ kvIn' = IF conn /\ devState = "configured" THEN "pass" ELSE "fail"
  BY DEF HostReply, testVars, devVars
<1>2. Op' = Op /\ Arg' = Arg /\ Instr' = Instr
  BY <1>1, TestFrame
<1>3. Op \in {"parse", "waitReset"} /\ kvOut = "none"
  BY <1>1 DEF TestInv, InvHost
<1>4. pc < Done /\ Scoped(Instr)
  <2>1. pc < Done
    BY <1>3 DEF Op
  <2>. QED
    BY <1>3, <2>1 DEF Op, Scoped
<1>5. inited /\ conn
  BY <1>4 DEF TestInv, InvCall
<1>6. devState = "configured" /\ ~pendingReset
  BY <1>1, <1>3, <1>5 DEF TestInv, InvDevice, InvCall
<1>7. kvIn' = "pass"
  BY <1>1, <1>5, <1>6
<1>8. InvTypes'
  BY <1>1, <1>7 DEF TestInv, InvTypes, Replies
<1>9. InvDevice'
  BY <1>1, <1>6 DEF TestInv, InvDevice
<1>10. InvHost'
  BY <1>1, <1>2, <1>3, <1>7 DEF InvHost
<1>11. InvCall'
  BY <1>1, <1>2, <1>3, <1>6 DEF TestInv, InvCall
<1>. QED
  BY <1>8, <1>9, <1>10, <1>11 DEF TestInv

(* TestInv is inductive when the host notices a detach within the          *)
(* MIN_DISCONNECT_TIME_US the test waits after each disconnect().          *)
LEMMA TestInvStep ==
    ASSUME DetachDetectUs <= MIN_DISCONNECT_TIME_US, TestInv, [Next]_vars
    PROVE  TestInv'
<1>1. CASE TestStep
  <2> USE <1>1 DEF TestStep
  <2>1. CASE greentea_send_kv    BY <2>1, SendStep
  <2>2. CASE greentea_parse_kv   BY <2>2, ParseStep
  <2>3. CASE ParseResetSupport   BY <2>3, SupportStep
  <2>4. CASE USBTester           BY <2>4, ConstructStep
  <2>5. CASE WaitReady           BY <2>5, ReadyStep
  <2>6. CASE USBTester_destroy   BY <2>6, DestroyStep
  <2>7. CASE clear_reset_count   BY <2>7, ClearStep
  <2>8. CASE get_reset_count     BY <2>8, WaitResetStep
  <2>9. CASE configured          BY <2>9, WaitConfiguredStep
  <2>10. CASE AssertConfigured   BY <2>10, AssertConfiguredStep
  <2>11. CASE disconnect         BY <2>11, DisconnectStep
  <2>12. CASE connect            BY <2>12, ConnectStep
  <2>13. CASE wait_us            BY <2>13, WaitStep
  <2>. QED
    BY <2>1, <2>2, <2>3, <2>4, <2>5, <2>6, <2>7, <2>8, <2>9, <2>10, <2>11,
       <2>12, <2>13
<1>2. CASE ProcessReset
  BY <1>2, ProcessResetStep
<1>3. CASE HostStep
  <2>1. CASE HostAttach            BY <2>1, HostAttachStep
  <2>2. CASE HostSetAddress        BY <2>2, HostSetAddressStep
  <2>3. CASE HostSetConfiguration  BY <2>3, HostSetConfigurationStep
  <2>4. CASE HostServe             BY <2>4, HostServeStep
  <2>5. CASE HostReply             BY <2>5, HostReplyStep
  <2>. QED
    BY <1>3, <2>1, <2>2, <2>3, <2>4, <2>5 DEF HostStep
<1>4. CASE UNCHANGED vars
  BY <1>4 DEF vars, testVars, devVars, hostVars, TestInv, InvTypes,
              InvDevice, InvHost, InvCall, Op, Arg, Instr
<1>. QED
  BY <1>1, <1>2, <1>3, <1>4 DEF Next

(* TestInv holds in every reachable state when the host notices a detach  *)
(* within MIN_DISCONNECT_TIME_US.                                          *)
THEOREM TestInvariant ==
    ASSUME DetachDetectUs <= MIN_DISCONNECT_TIME_US
    PROVE  Spec => []TestInv
<1>1. Init => TestInv
  BY InitTestInv
<1>2. TestInv /\ [Next]_vars => TestInv'
  BY TestInvStep
<1>. QED
  BY <1>1, <1>2, PTL DEF Spec

(* No TEST_ASSERT of the basic USB test fails, for every host timing with  *)
(* which the host notices a detach within the MIN_DISCONNECT_TIME_US that  *)
(* main.cpp waits after disconnect(), every pause between cases and every  *)
(* number of resets the host's device_reset_test handler performs.         *)
THEOREM TestAssertionsHoldProved ==
    ASSUME DetachDetectUs <= MIN_DISCONNECT_TIME_US
    PROVE  Spec => []TestAssertionsHold
<1>1. TestInv => TestAssertionsHold
  BY DEF TestInv, InvTypes, TestAssertionsHold
<1>. QED
  BY <1>1, TestInvariant, PTL

(* In a TestInv state, connect() finds the host's session gone.            *)
LEMMA ReconnectStep ==
    ASSUME TestInv, pc < Done, connect
    PROVE  session = "none"
<1>1. Op = "connect" /\ inited /\ ~conn
  BY DEF connect, Op
<1>. QED
  BY <1>1 DEF TestInv, InvCall

(* Every connect() of the soft-reconnection case re-attaches a device the  *)
(* host has already seen leave, under the same timing hypothesis.          *)
THEOREM ReconnectAfterDetachProved ==
    ASSUME DetachDetectUs <= MIN_DISCONNECT_TIME_US
    PROVE  Spec => ReconnectAfterDetach
<1>1. TestInv => (pc < Done /\ connect => session = "none")
  BY ReconnectStep
<1>. QED
  BY <1>1, TestInvariant, PTL DEF Spec, ReconnectAfterDetach
=====
