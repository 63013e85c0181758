-------------------------- MODULE InboundMessagesProofs --------------------------
(***************************************************************************)
(* For any number of batches, bindings and attempts: no delivery is        *)
(* forgotten, the messages of a batch reach a binding in order, and the    *)
(* operator keeps the promise of EventDelivery.                            *)
(***************************************************************************)
EXTENDS InboundMessages, TLAPS

\* A message its handler has not read the bindings for.
Unreached(d) ==
  \/ d[1][2] > at[d[1][1]]
  \/ d[1][2] = at[d[1][1]] /\ handlerPc[d[1][1]] \in {"waiting", "record", "bindings"}

\* One whose forwarding the handler has stopped waiting for.
Passed(d) ==
  \/ d[1][2] < at[d[1][1]]
  \/ d[1][2] = at[d[1][1]] /\ handlerPc[d[1][1]] \in {"reply", "send", "done"}

\* Nothing has been done for a message its handler has not reached.
Untouched ==
  \A d \in Deliveries :
    Unreached(d) => deliveryPc[d] = "idle" /\ attempt[d] = 0 /\ outcome[d] = "none"

\* Behind the handler a delivery goes on only if Promise.all gave up on its message.
Settled ==
  \A d \in Deliveries :
    Passed(d) => deliveryPc[d] = "idle" \/ \E c \in Bindings : outcome[<<d[1], c>>] = "lost"

PauseBelowMax == \A d \in Deliveries : deliveryPc[d] = "pause" => attempt[d] < MaxAttempts

InboundInv == InboundTypeOK /\ PauseBelowMax /\ OwedIsAtWork /\ Untouched /\ Settled

-----------------------------------------------------------------------------
LEMMA DeliveryParts ==
  ASSUME NEW d \in Deliveries
  PROVE  /\ d = <<d[1], d[2]>> /\ d[1] = <<d[1][1], d[1][2]>>
         /\ d[1] \in Messages /\ d[1][1] \in Batches /\ d[1][2] \in 1..BatchSize
         /\ d[2] \in Bindings /\ \A c \in Bindings : <<d[1], c>> \in Deliveries
BY DEF Deliveries, Messages

LEMMA InitHolds == InboundInit => InboundInv
<1> SUFFICES ASSUME InboundInit PROVE InboundInv
  OBVIOUS
<1>1. InboundTypeOK
  <2>1. 1 \in 1..BatchSize /\ 0 \in 0..MaxAttempts /\ 0 \in 0..MaxCrashes
    BY AttemptsAssumption, BatchesAssumption, InboundBoundsAssumption
  <2>2. QED
    BY <2>1, Zenon DEF InboundInit, InboundTypeOK, Outcomes
<1>2. PauseBelowMax /\ OwedIsAtWork /\ Untouched /\ Settled
  BY DEF InboundInit, PauseBelowMax, OwedIsAtWork, Untouched, Settled
<1>3. QED
  BY <1>1, <1>2 DEF InboundInv

-----------------------------------------------------------------------------
\* The handler may leave its message: nothing was started for it, or what was has ended.
CurrentSettled(x) ==
  \A b \in Bindings : \/ deliveryPc[<<Current(x), b>>] = "idle"
                      \/ \E c \in Bindings : outcome[<<Current(x), c>>] = "lost"

\* A step of a handler that starts no delivery comes up to its message or leaves it.
Approach(x) ==
  /\ handlerPc[x] \in {"waiting", "record"}
  /\ \E pc \in {"record", "bindings"} : handlerPc' = [handlerPc EXCEPT ![x] = pc]
  /\ UNCHANGED at

Leave(x) ==
  /\ CurrentSettled(x)
  /\ \/ /\ at[x] < BatchSize
        /\ at' = [at EXCEPT ![x] = @ + 1]
        /\ handlerPc' = [handlerPc EXCEPT ![x] = "record"]
     \/ /\ \E pc \in {"reply", "send", "done"} : handlerPc' = [handlerPc EXCEPT ![x] = pc]
        /\ UNCHANGED at

HandlerMove(x) ==
  /\ UNCHANGED <<deliverVars, crashes>>
  /\ replying' \in [Batches -> BOOLEAN] /\ cooling' \in BOOLEAN
  /\ Approach(x) \/ Leave(x)

LEMMA MoveKeepsInv ==
  ASSUME InboundInv, NEW x \in Batches, HandlerMove(x)
  PROVE  InboundInv'
<1>1. InboundTypeOK'
  BY BatchesAssumption DEF InboundInv, InboundTypeOK, HandlerMove, Approach, Leave, deliverVars
<1>2. PauseBelowMax' /\ OwedIsAtWork'
  BY DEF InboundInv, HandlerMove, deliverVars, PauseBelowMax, OwedIsAtWork
<1> DEFINE Elsewhere(d) == d[1][1] # x
<1>t. at \in [Batches -> Nat] /\ handlerPc \in [Batches -> {"waiting", "record", "bindings",
                                                "deliver", "reply", "send", "done"}]
  BY BatchesAssumption DEF InboundInv, InboundTypeOK
<1>3. ASSUME NEW d \in Deliveries, Unreached(d)' PROVE Unreached(d)
  <2>1. d[1][1] \in Batches /\ d[1][2] \in Nat
    BY DeliveryParts, BatchesAssumption
  <2>2. CASE Elsewhere(d)
    BY <1>3, <2>1, <2>2, <1>t DEF HandlerMove, Approach, Leave, Unreached
  <2>3. CASE ~Elsewhere(d) /\ Approach(x)
    BY <1>3, <2>1, <2>3, <1>t DEF Approach, Unreached
  <2>4. CASE ~Elsewhere(d) /\ Leave(x)
    BY <1>3, <2>1, <2>4, <1>t DEF Leave, Unreached
  <2>5. QED
    BY <2>2, <2>3, <2>4 DEF HandlerMove
<1>4. ASSUME NEW d \in Deliveries, Passed(d)'
      PROVE  Passed(d) \/ (d[1] = Current(x) /\ CurrentSettled(x))
  <2>1. d[1][1] \in Batches /\ d[1][2] \in Nat /\ d[1] = <<d[1][1], d[1][2]>>
    BY DeliveryParts, BatchesAssumption
  <2>2. ASSUME Elsewhere(d) PROVE Passed(d)
    <3>1. at'[d[1][1]] = at[d[1][1]] /\ handlerPc'[d[1][1]] = handlerPc[d[1][1]]
      BY <2>1, <2>2, <1>t DEF HandlerMove, Approach, Leave
    <3>2. QED
      BY <1>4, <3>1 DEF Passed
  <2>3. ASSUME ~Elsewhere(d), Approach(x) PROVE Passed(d)
    <3>1. at' = at /\ handlerPc'[x] \in {"record", "bindings"}
      BY <2>3, <1>t DEF Approach
    <3>2. QED
      BY <1>4, <2>3, <3>1 DEF Passed
  <2>4. ASSUME ~Elsewhere(d), Leave(x) PROVE Passed(d) \/ (d[1] = Current(x) /\ CurrentSettled(x))
    BY <1>4, <2>1, <2>4, <1>t DEF Leave, Passed, Current
  <2>5. Approach(x) \/ Leave(x)
    BY DEF HandlerMove
  <2>6. QED
    BY <2>2, <2>3, <2>4, <2>5
<1>5. Untouched'
  BY <1>3 DEF InboundInv, HandlerMove, deliverVars, Untouched
<1>6. ASSUME NEW d \in Deliveries, Passed(d)'
      PROVE  deliveryPc[d] = "idle" \/ \E c \in Bindings : outcome[<<d[1], c>>] = "lost"
  <2>1. CASE Passed(d)
    BY <2>1 DEF InboundInv, Settled
  <2>2. CASE d[1] = Current(x) /\ CurrentSettled(x)
    <3>1. d[2] \in Bindings /\ d = <<Current(x), d[2]>>
      BY <2>2, DeliveryParts
    <3>2. QED
      BY <2>2, <3>1 DEF CurrentSettled
  <2>3. QED
    BY <1>4, <1>6, <2>1, <2>2
<1>7. Settled'
  BY <1>6 DEF HandlerMove, deliverVars, Settled
<1>8. QED
  BY <1>1, <1>2, <1>5, <1>7 DEF InboundInv

\* NextMessage is such a step once the message is settled.
LEMMA NextMessageLeaves ==
  ASSUME InboundInv, NEW x \in Batches, CurrentSettled(x), NextMessage(x)
  PROVE  Leave(x) /\ replying' \in [Batches -> BOOLEAN]
BY DEF InboundInv, InboundTypeOK, NextMessage, Leave

LEMMA AfterForwardLeaves ==
  ASSUME InboundInv, NEW x \in Batches, CurrentSettled(x), AfterForward(x)
  PROVE  Leave(x) /\ replying' \in [Batches -> BOOLEAN]
<1>1. CASE replying[x]
  BY <1>1 DEF InboundInv, InboundTypeOK, AfterForward, Leave
<1>2. CASE ~replying[x]
  BY <1>2, NextMessageLeaves DEF AfterForward
<1>3. QED
  BY <1>1, <1>2

\* The message a handler is at is settled before its deliveries start and after it
\* stopped waiting for them.
LEMMA SettledAround ==
  ASSUME InboundInv, NEW x \in Batches,
         handlerPc[x] \in {"waiting", "record", "bindings", "reply", "send", "done"}
  PROVE  CurrentSettled(x)
<1>1. at[x] \in 1..BatchSize
  BY DEF InboundInv, InboundTypeOK
<1> SUFFICES ASSUME NEW b \in Bindings
             PROVE  \/ deliveryPc[<<Current(x), b>>] = "idle"
                    \/ \E c \in Bindings : outcome[<<Current(x), c>>] = "lost"
  BY DEF CurrentSettled
<1> DEFINE d == <<Current(x), b>>
<1>2. d \in Deliveries
  BY <1>1 DEF Current, Deliveries, Messages
<1>3. d[1][1] = x /\ d[1][2] = at[x] /\ d[1] = Current(x)
  BY DEF Current
<1>4. Unreached(d) \/ Passed(d)
  BY <1>3 DEF Unreached, Passed
<1>5. QED
  BY <1>2, <1>3, <1>4 DEF InboundInv, Untouched, Settled

LEMMA HandlerStepsMove ==
  ASSUME InboundInv, NEW x \in Batches,
         \/ MessagesUpsert(x) \/ MessageRecorded(x) \/ BindingsFail(x) \/ ForwardSettles(x)
         \/ DemoReply(x) \/ DemoReplySent(x)
  PROVE  HandlerMove(x)
<1> USE DEF HandlerMove
<1>1. CASE MessagesUpsert(x)
  BY <1>1 DEF MessagesUpsert, Approach, InboundInv, InboundTypeOK, deliverVars
<1>2. CASE MessageRecorded(x)
  <2>1. CurrentSettled(x)
    BY <1>2, SettledAround DEF MessageRecorded
  <2>2. CASE NextMessage(x)
    BY <1>2, <2>1, <2>2, NextMessageLeaves DEF MessageRecorded, InboundInv, InboundTypeOK
  <2>3. CASE \E customer \in BOOLEAN :
               /\ replying' = [replying EXCEPT ![x] = customer]
               /\ handlerPc' = [handlerPc EXCEPT ![x] = "bindings"]
               /\ UNCHANGED at
    BY <1>2, <2>3 DEF MessageRecorded, Approach, InboundInv, InboundTypeOK
  <2>4. QED
    BY <1>2, <2>2, <2>3 DEF MessageRecorded
<1>3. CASE BindingsFail(x)
  <2>1. CurrentSettled(x)
    BY <1>3, SettledAround DEF BindingsFail
  <2>2. QED
    BY <1>3, <2>1, AfterForwardLeaves DEF BindingsFail, InboundInv, InboundTypeOK
<1>4. CASE ForwardSettles(x)
  <2>1. CurrentSettled(x)
    BY <1>4 DEF ForwardSettles, CurrentSettled
  <2>2. QED
    BY <1>4, <2>1, AfterForwardLeaves DEF ForwardSettles, InboundInv, InboundTypeOK
<1>5. CASE DemoReply(x)
  <2>1. CurrentSettled(x)
    BY <1>5, SettledAround DEF DemoReply
  <2>2. CASE NextMessage(x)
    BY <1>5, <2>1, <2>2, NextMessageLeaves DEF DemoReply, InboundInv, InboundTypeOK
  <2>3. CASE /\ handlerPc' = [handlerPc EXCEPT ![x] = "send"]
             /\ UNCHANGED <<at, replying>>
    BY <1>5, <2>1, <2>3 DEF DemoReply, Leave, InboundInv, InboundTypeOK
  <2>4. QED
    BY <1>5, <2>2, <2>3 DEF DemoReply
<1>6. CASE DemoReplySent(x)
  <2>1. CurrentSettled(x)
    BY <1>6, SettledAround DEF DemoReplySent
  <2>2. cooling' \in BOOLEAN
    BY <1>6 DEF DemoReplySent, InboundInv, InboundTypeOK
  <2>3. QED
    BY <1>6, <2>1, <2>2, NextMessageLeaves DEF DemoReplySent
<1>7. QED
  BY <1>1, <1>2, <1>3, <1>4, <1>5, <1>6

-----------------------------------------------------------------------------
\* The start of the deliveries of a message, to the bindings that are active by then.
LEMMA StartKeepsInv ==
  ASSUME InboundInv, NEW x \in Batches, BindingsRead(x)
  PROVE  InboundInv'
<1> PICK active \in SUBSET Bindings :
      LET addressed == {d \in Deliveries : d[1] = Current(x) /\ d[2] \in active} IN
        /\ deliveryPc' = [d \in Deliveries |-> IF d \in addressed THEN "post" ELSE deliveryPc[d]]
        /\ attempt' = [d \in Deliveries |-> IF d \in addressed THEN 1 ELSE attempt[d]]
        /\ outcome' = [d \in Deliveries |-> IF d \in addressed THEN "owed" ELSE outcome[d]]
  BY DEF BindingsRead
<1> DEFINE addressed == {d \in Deliveries : d[1] = Current(x) /\ d[2] \in active}
<1>1. /\ handlerPc[x] = "bindings" /\ handlerPc' = [handlerPc EXCEPT ![x] = "deliver"]
      /\ UNCHANGED <<at, replying, cooling, handled, crashes>>
  BY DEF BindingsRead
<1>2. ASSUME NEW d \in Deliveries
      PROVE  /\ d \in addressed => deliveryPc'[d] = "post" /\ attempt'[d] = 1 /\ outcome'[d] = "owed"
             /\ d \notin addressed => /\ deliveryPc'[d] = deliveryPc[d]
                                      /\ attempt'[d] = attempt[d]
                                      /\ outcome'[d] = outcome[d]
  OBVIOUS
<1>3. at \in [Batches -> Nat] /\ handlerPc \in [Batches -> {"waiting", "record", "bindings",
                                                "deliver", "reply", "send", "done"}]
  BY BatchesAssumption DEF InboundInv, InboundTypeOK
<1>4. ASSUME NEW d \in addressed PROVE Unreached(d) /\ ~Unreached(d)' /\ ~Passed(d)'
  BY <1>1, <1>3 DEF Current, Unreached, Passed
<1>5. ASSUME NEW d \in Deliveries, d \notin addressed
      PROVE  (Unreached(d)' => Unreached(d)) /\ (Passed(d)' => Passed(d))
  BY <1>1, <1>3, DeliveryParts DEF Unreached, Passed
<1>6. InboundTypeOK'
  <2>1. 1 \in 0..MaxAttempts
    BY AttemptsAssumption
  <2>2. /\ deliveryPc' \in [Deliveries -> {"idle", "post", "pause", "store"}]
        /\ attempt' \in [Deliveries -> 0..MaxAttempts]
        /\ outcome' \in [Deliveries -> Outcomes]
    BY <2>1 DEF InboundInv, InboundTypeOK, Outcomes
  <2>3. QED
    BY <1>1, <2>2 DEF InboundInv, InboundTypeOK
<1>7. PauseBelowMax' /\ OwedIsAtWork'
  BY <1>2 DEF InboundInv, PauseBelowMax, OwedIsAtWork
<1>8. Untouched'
  BY <1>2, <1>4, <1>5 DEF InboundInv, Untouched
<1>9. ASSUME NEW d \in Deliveries, Passed(d)'
      PROVE  deliveryPc'[d] = "idle" \/ \E c \in Bindings : outcome'[<<d[1], c>>] = "lost"
  <2>1. d \notin addressed /\ Passed(d)
    BY <1>4, <1>5, <1>9
  <2>2. deliveryPc[d] = "idle" \/ \E c \in Bindings : outcome[<<d[1], c>>] = "lost"
    BY <2>1 DEF InboundInv, Settled
  <2>3. ASSUME NEW c \in Bindings, outcome[<<d[1], c>>] = "lost"
        PROVE  outcome'[<<d[1], c>>] = "lost"
    <3>1. <<d[1], c>> \in Deliveries
      BY DeliveryParts
    <3>2. ~Unreached(<<d[1], c>>)
      BY <2>3, <3>1 DEF InboundInv, Untouched
    <3>3. QED
      BY <1>2, <1>4, <2>3, <3>1, <3>2
  <2>4. QED
    BY <1>2, <2>1, <2>2, <2>3
<1>10. Settled'
  BY <1>9 DEF Settled
<1>11. QED
  BY <1>6, <1>7, <1>8, <1>10 DEF InboundInv

\* A delivery at work is of a message its handler has reached, so its steps move only it.
LEMMA DeliveryKeepsInv ==
  ASSUME InboundInv, NEW e \in Deliveries, DeliveryStep(e)
  PROVE  InboundInv'
<1> USE DEF DeliveryStep, Accepted, Refused, Retry, DeadLettered, DeadLetterFails
<1>t. /\ deliveryPc \in [Deliveries -> {"idle", "post", "pause", "store"}]
      /\ attempt \in [Deliveries -> 0..MaxAttempts]
      /\ outcome \in [Deliveries -> Outcomes]
      /\ handled \in [Deliveries -> BOOLEAN]
  BY DEF InboundInv, InboundTypeOK
<1>1. UNCHANGED <<handlerVars, crashes>> /\ handled' \in [Deliveries -> BOOLEAN]
  BY <1>t
<1>2. deliveryPc[e] # "idle" /\ outcome[e] = "owed" /\ ~Unreached(e)
  BY DEF InboundInv, OwedIsAtWork, Untouched
<1>3. \E pc \in {"idle", "post", "pause", "store"} : deliveryPc' = [deliveryPc EXCEPT ![e] = pc]
  BY <1>t
<1>4. \E out \in Outcomes \ {"none"} : outcome' = [outcome EXCEPT ![e] = out]
  BY <1>2, <1>t DEF Outcomes
<1>5. attempt' \in [Deliveries -> 0..MaxAttempts]
      /\ \A d \in Deliveries \ {e} : attempt'[d] = attempt[d]
  <2>1. CASE Retry(e)
    <3>1. attempt[e] < MaxAttempts
      BY <2>1 DEF InboundInv, PauseBelowMax
    <3>2. attempt[e] + 1 \in 0..MaxAttempts
      BY <3>1, <1>t, AttemptsAssumption
    <3>3. QED
      BY <2>1, <3>2, <1>t
  <2>2. CASE ~Retry(e)
    BY <2>2, <1>t
  <2>3. QED
    BY <2>1, <2>2
<1>6. /\ outcome'[e] = "owed" <=> deliveryPc'[e] # "idle"
      /\ deliveryPc'[e] = "pause" => attempt'[e] < MaxAttempts
  BY <1>2, <1>t, AttemptsAssumption
<1>7. ASSUME NEW d \in Deliveries, d # e
      PROVE  deliveryPc'[d] = deliveryPc[d] /\ outcome'[d] = outcome[d] /\ attempt'[d] = attempt[d]
  BY <1>3, <1>4, <1>5, <1>7, <1>t
<1>8. ASSUME NEW d \in Deliveries
      PROVE  (Unreached(d)' <=> Unreached(d)) /\ (Passed(d)' <=> Passed(d))
  BY <1>1 DEF handlerVars, Unreached, Passed
<1>9. InboundTypeOK'
  BY <1>1, <1>3, <1>4, <1>5, <1>t DEF InboundInv, InboundTypeOK, handlerVars
<1>10. PauseBelowMax'
  BY <1>6, <1>7 DEF InboundInv, PauseBelowMax
<1>11. OwedIsAtWork'
  BY <1>6, <1>7 DEF InboundInv, OwedIsAtWork
<1>12. Untouched'
  BY <1>2, <1>7, <1>8 DEF InboundInv, Untouched
<1>13. ASSUME NEW d \in Deliveries, Passed(d)
       PROVE  deliveryPc'[d] = "idle" \/ \E c \in Bindings : outcome'[<<d[1], c>>] = "lost"
  <2>1. CASE \E c \in Bindings : outcome[<<d[1], c>>] = "lost"
    <3>1. PICK c \in Bindings : outcome[<<d[1], c>>] = "lost"
      BY <2>1
    <3>2. <<d[1], c>> \in Deliveries /\ <<d[1], c>> # e
      BY <3>1, <1>2, DeliveryParts
    <3>3. QED
      BY <3>1, <3>2, <1>7
  <2>2. CASE deliveryPc[d] = "idle"
    BY <2>2, <1>2, <1>7
  <2>3. QED
    BY <1>13, <2>1, <2>2 DEF InboundInv, Settled
<1>14. Settled'
  BY <1>8, <1>13 DEF Settled
<1>15. QED
  BY <1>9, <1>10, <1>11, <1>12, <1>14 DEF InboundInv

\* A process exit leaves nothing at work.
LEMMA CrashKeepsInv ==
  ASSUME InboundInv, Crash
  PROVE  InboundInv'
<1>t. /\ handlerPc \in [Batches -> {"waiting", "record", "bindings", "deliver", "reply", "send",
                                    "done"}]
      /\ outcome \in [Deliveries -> Outcomes]
      /\ crashes \in 0..MaxCrashes
  BY DEF InboundInv, InboundTypeOK
<1>1. InboundTypeOK'
  <2>1. crashes' \in 0..MaxCrashes
    BY <1>t, InboundBoundsAssumption DEF Crash
  <2>2. /\ handlerPc' \in [Batches -> {"waiting", "record", "bindings", "deliver", "reply",
                                       "send", "done"}]
        /\ outcome' \in [Deliveries -> Outcomes]
    BY <1>t DEF Crash, Outcomes
  <2>3. QED
    BY <2>1, <2>2 DEF Crash, InboundInv, InboundTypeOK
<1>2. \A d \in Deliveries : deliveryPc'[d] = "idle" /\ outcome'[d] # "owed"
  BY <1>t DEF Crash
<1>3. PauseBelowMax' /\ OwedIsAtWork' /\ Settled'
  BY <1>2 DEF PauseBelowMax, OwedIsAtWork, Settled
<1>4. ASSUME NEW d \in Deliveries, Unreached(d)'
      PROVE  Unreached(d) /\ outcome[d] = "none" /\ outcome'[d] = "none" /\ attempt'[d] = 0
  <2>1. Unreached(d)
    BY <1>4, <1>t, DeliveryParts DEF Crash, Unreached
  <2>2. QED
    BY <2>1 DEF Crash, InboundInv, Untouched
<1>5. Untouched'
  BY <1>2, <1>4 DEF Untouched
<1>6. QED
  BY <1>1, <1>3, <1>5 DEF InboundInv

LEMMA StepKeepsInv ==
  ASSUME InboundInv, [InboundNext]_inboundVars
  PROVE  InboundInv'
<1>1. CASE \E x \in Batches : \/ MessagesUpsert(x) \/ MessageRecorded(x) \/ BindingsFail(x)
                              \/ ForwardSettles(x) \/ DemoReply(x) \/ DemoReplySent(x)
  BY <1>1, HandlerStepsMove, MoveKeepsInv
<1>2. CASE \E x \in Batches : BindingsRead(x)
  BY <1>2, StartKeepsInv
<1>3. CASE \E d \in Deliveries : DeliveryStep(d)
  BY <1>3, DeliveryKeepsInv
<1>4. CASE Crash
  BY <1>4, CrashKeepsInv
<1>5. CASE (\E d \in Deliveries : HandledLate(d)) \/ CooldownEnds \/ UNCHANGED inboundVars
  <2>1. /\ UNCHANGED <<handlerPc, at, replying, deliveryPc, attempt, outcome, crashes>>
        /\ cooling' \in BOOLEAN /\ handled' \in [Deliveries -> BOOLEAN]
    BY <1>5 DEF HandledLate, CooldownEnds, inboundVars, handlerVars, deliverVars, InboundInv,
                InboundTypeOK
  <2>2. QED
    BY <2>1 DEF InboundInv, InboundTypeOK, PauseBelowMax, OwedIsAtWork, Untouched,
                Settled, Unreached, Passed
<1>6. QED
  BY <1>1, <1>2, <1>3, <1>4, <1>5 DEF InboundNext, HandlerStep

\* Everything the theorems below need holds in every state.
THEOREM InboundInvariant == InboundSpec => []InboundInv
BY InitHolds, StepKeepsInv, PTL DEF InboundSpec

-----------------------------------------------------------------------------
\* Every variable keeps to its values.
THEOREM InboundTypes == InboundSpec => []InboundTypeOK
BY InboundInvariant, PTL DEF InboundInv

\* deliverWithRetry: an event still owed has a delivery at work on it, one that is at
\* work is still owed.
THEOREM NoDeliveryForgotten == InboundSpec => []OwedIsAtWork
BY InboundInvariant, PTL DEF InboundInv

LEMMA InvImpliesOrder ==
  ASSUME InboundInv
  PROVE  BatchInOrder
<1> SUFFICES ASSUME NEW x \in Batches, NEW i \in 1..BatchSize, NEW j \in 1..BatchSize,
                    NEW b \in Bindings, i < j, attempt[<<<<x, j>>, b>>] > 0
             PROVE  \/ deliveryPc[<<<<x, i>>, b>>] = "idle"
                    \/ \E c \in Bindings \ {b} : outcome[<<<<x, i>>, c>>] = "lost"
  BY DEF BatchInOrder
<1> DEFINE d == <<<<x, i>>, b>>
           e == <<<<x, j>>, b>>
<1>1. d \in Deliveries /\ e \in Deliveries
  BY DEF Deliveries, Messages
<1>2. at[x] \in Nat /\ BatchSize \in Nat
  BY BatchesAssumption DEF InboundInv, InboundTypeOK
<1>3. ~Unreached(e)
  BY <1>1 DEF InboundInv, Untouched
<1>4. Passed(d)
  BY <1>2, <1>3 DEF Unreached, Passed
<1>5. deliveryPc[d] = "idle" \/ \E c \in Bindings : outcome[<<<<x, i>>, c>>] = "lost"
  BY <1>1, <1>4 DEF InboundInv, Settled
<1>6. outcome[d] = "lost" => deliveryPc[d] = "idle"
  BY <1>1 DEF InboundInv, OwedIsAtWork
<1>7. QED
  BY <1>5, <1>6

\* messages.upsert: the messages of a batch reach each binding in their order.
THEOREM MessagesInOrder == InboundSpec => []BatchInOrder
BY InboundInvariant, InvImpliesOrder, PTL

-----------------------------------------------------------------------------
(* The refinement of EventDelivery.                                        *)

LEMMA InitImplements == InboundInit => Abstract!DeliveryInit
BY DEF InboundInit, Abstract!DeliveryInit

LEMMA AddressImplements ==
  ASSUME InboundInv, NEW x \in Batches, BindingsRead(x)
  PROVE  Abstract!DeliveryNext
<1>1. PICK active \in SUBSET Bindings :
        outcome' = [d \in Deliveries |->
                      IF d \in {e \in Deliveries : e[1] = Current(x) /\ e[2] \in active}
                        THEN "owed" ELSE outcome[d]]
  BY DEF BindingsRead
<1> DEFINE D == {e \in Deliveries : e[1] = Current(x) /\ e[2] \in active}
<1>2. \A d \in D : outcome[d] = "none"
  BY DEF BindingsRead, InboundInv, Untouched, Unreached, Current
<1>3. Abstract!Address(D)
  BY <1>1, <1>2 DEF BindingsRead, Abstract!Address
<1>4. D \in SUBSET Deliveries
  OBVIOUS
<1>5. QED
  BY <1>3, <1>4 DEF Abstract!DeliveryNext

LEMMA DeliveryImplements ==
  ASSUME InboundInv, NEW d \in Deliveries, DeliveryStep(d)
  PROVE  [Abstract!DeliveryNext]_(Abstract!deliveryVars)
<1>t. outcome \in [Deliveries -> Outcomes] /\ handled \in [Deliveries -> BOOLEAN]
  BY DEF InboundInv, InboundTypeOK
<1>o. deliveryPc[d] # "idle" => outcome[d] = "owed"
  BY DEF InboundInv, OwedIsAtWork
<1>1. CASE Accepted(d)
  BY <1>1, <1>o DEF Accepted, Abstract!Acknowledge, Abstract!DeliveryNext
<1>2. CASE Refused(d) \/ Retry(d)
  BY <1>2, <1>o DEF Refused, Retry, Abstract!Handle, Abstract!DeliveryNext, Abstract!deliveryVars
<1>3. CASE DeadLettered(d)
  BY <1>3, <1>o DEF DeadLettered, Abstract!GiveUp, Abstract!DeliveryNext
<1>4. CASE DeadLetterFails(d)
  <2>1. outcome' = [e \in Deliveries |-> IF e \in {d} THEN "lost" ELSE outcome[e]]
    BY <1>4, <1>t DEF DeadLetterFails
  <2>2. Abstract!Lose({d})
    BY <1>4, <1>o, <2>1 DEF DeadLetterFails, Abstract!Lose
  <2>3. QED
    BY <2>2 DEF Abstract!DeliveryNext
<1>5. QED
  BY <1>1, <1>2, <1>3, <1>4 DEF DeliveryStep

LEMMA CrashImplements ==
  ASSUME Crash
  PROVE  Abstract!DeliveryNext
<1> DEFINE D == {d \in Deliveries : outcome[d] = "owed"}
<1>1. Abstract!Lose(D)
  BY DEF Crash, Abstract!Lose
<1>2. D \in SUBSET Deliveries
  OBVIOUS
<1>3. QED
  BY <1>1, <1>2 DEF Abstract!DeliveryNext

LEMMA StepImplements ==
  ASSUME InboundInv, [InboundNext]_inboundVars
  PROVE  [Abstract!DeliveryNext]_(Abstract!deliveryVars)
<1>1. CASE \E x \in Batches : BindingsRead(x)
  BY <1>1, AddressImplements
<1>2. CASE \E d \in Deliveries : DeliveryStep(d)
  BY <1>2, DeliveryImplements
<1>3. CASE Crash
  BY <1>3, CrashImplements
<1>4. CASE \/ \E x \in Batches : \/ MessagesUpsert(x) \/ MessageRecorded(x) \/ BindingsFail(x)
                                 \/ ForwardSettles(x) \/ DemoReply(x) \/ DemoReplySent(x)
           \/ CooldownEnds \/ UNCHANGED inboundVars
  <2>1. UNCHANGED <<outcome, handled>>
    BY <1>4 DEF MessagesUpsert, MessageRecorded, BindingsFail, ForwardSettles, DemoReply,
                DemoReplySent, CooldownEnds, inboundVars, deliverVars
  <2>2. QED
    BY <2>1 DEF Abstract!deliveryVars
<1>5. CASE \E d \in Deliveries : HandledLate(d)
  BY <1>5 DEF HandledLate, Abstract!Handle, Abstract!DeliveryNext
<1>6. QED
  BY <1>1, <1>2, <1>3, <1>4, <1>5 DEF InboundNext, HandlerStep

\* README.md, inbound webhooks with retry and dead-letter storage: whatever batches,
\* crashes and failing queries do, an addressed event ends as EventDelivery promises.
THEOREM DeliveryPromiseKept == InboundSpec => ImplementsDelivery
<1>1. InboundInv /\ [InboundNext]_inboundVars
        => [Abstract!DeliveryNext]_(Abstract!deliveryVars)
  BY StepImplements
<1>2. QED
  BY <1>1, InitImplements, InboundInvariant, PTL
     DEF InboundSpec, ImplementsDelivery, Abstract!DeliverySpec

\* The promise spelled out: for as long as EventDelivery is kept to.
PromiseTypeOK == outcome \in [Deliveries -> Outcomes] /\ handled \in [Deliveries -> BOOLEAN]

LEMMA PromiseKeepsHandled ==
  ASSUME PromiseTypeOK, Abstract!DeliveredWasHandled,
         [Abstract!DeliveryNext]_(Abstract!deliveryVars)
  PROVE  PromiseTypeOK' /\ Abstract!DeliveredWasHandled'
<1> USE DEF PromiseTypeOK, Abstract!DeliveredWasHandled
<1>1. ASSUME NEW D \in SUBSET Deliveries, Abstract!Address(D) \/ Abstract!Lose(D)
      PROVE  PromiseTypeOK' /\ Abstract!DeliveredWasHandled'
  BY <1>1 DEF Abstract!Address, Abstract!Lose, Outcomes
<1>2. ASSUME NEW d \in Deliveries,
             Abstract!Handle(d) \/ Abstract!Acknowledge(d) \/ Abstract!GiveUp(d)
      PROVE  PromiseTypeOK' /\ Abstract!DeliveredWasHandled'
  BY <1>2 DEF Abstract!Handle, Abstract!Acknowledge, Abstract!GiveUp, Outcomes
<1>3. CASE UNCHANGED Abstract!deliveryVars
  BY <1>3 DEF Abstract!deliveryVars
<1>4. QED
  BY <1>1, <1>2, <1>3 DEF Abstract!DeliveryNext

\* EventDelivery alone: what ended delivered was handled, and nobody handles what was
\* never addressed.
THEOREM PromiseMeansHandled == Abstract!DeliverySpec => []Abstract!DeliveredWasHandled
<1>1. Abstract!DeliveryInit => PromiseTypeOK /\ Abstract!DeliveredWasHandled
  BY DEF Abstract!DeliveryInit, PromiseTypeOK, Abstract!DeliveredWasHandled, Outcomes
<1>2. PromiseTypeOK /\ Abstract!DeliveredWasHandled /\ [Abstract!DeliveryNext]_(Abstract!deliveryVars)
        => PromiseTypeOK' /\ Abstract!DeliveredWasHandled'
  BY PromiseKeepsHandled
<1>3. QED
  BY <1>1, <1>2, PTL DEF Abstract!DeliverySpec

LEMMA PromiseStepIsFinal ==
  ASSUME PromiseTypeOK, [Abstract!DeliveryNext]_(Abstract!deliveryVars), NEW d \in Deliveries,
         outcome[d] \in {"delivered", "dead_letter", "lost"}
  PROVE  outcome'[d] = outcome[d]
<1>1. ASSUME NEW D \in SUBSET Deliveries, Abstract!Address(D) \/ Abstract!Lose(D)
      PROVE  outcome'[d] = outcome[d]
  BY <1>1 DEF Abstract!Address, Abstract!Lose
<1>2. ASSUME NEW e \in Deliveries,
             Abstract!Handle(e) \/ Abstract!Acknowledge(e) \/ Abstract!GiveUp(e)
      PROVE  outcome'[d] = outcome[d]
  BY <1>2 DEF Abstract!Handle, Abstract!Acknowledge, Abstract!GiveUp, PromiseTypeOK
<1>3. CASE UNCHANGED Abstract!deliveryVars
  BY <1>3 DEF Abstract!deliveryVars
<1>4. QED
  BY <1>1, <1>2, <1>3 DEF Abstract!DeliveryNext

\* EventDelivery alone: how a delivery ended is how it stays.
THEOREM PromiseIsFinal == Abstract!DeliverySpec => Abstract!EndsAreFinal
<1>1. Abstract!DeliveryInit => PromiseTypeOK /\ Abstract!DeliveredWasHandled
  BY DEF Abstract!DeliveryInit, PromiseTypeOK, Abstract!DeliveredWasHandled, Outcomes
<1>2. PromiseTypeOK /\ Abstract!DeliveredWasHandled /\ [Abstract!DeliveryNext]_(Abstract!deliveryVars)
        => PromiseTypeOK' /\ Abstract!DeliveredWasHandled'
  BY PromiseKeepsHandled
<1>3. PromiseTypeOK /\ [Abstract!DeliveryNext]_(Abstract!deliveryVars)
        => [\A d \in Deliveries :
              outcome[d] \in {"delivered", "dead_letter", "lost"}
                => outcome'[d] = outcome[d]]_(Abstract!deliveryVars)
  BY PromiseStepIsFinal
<1>4. QED
  BY <1>1, <1>2, <1>3, PTL DEF Abstract!DeliverySpec, Abstract!EndsAreFinal

\* deliverWithRetry: what was acknowledged was handled, and nothing that has ended is
\* delivered again or changes its record, through retries, exits and failing queries.
COROLLARY DeliveriesEndForGood ==
  InboundSpec => []Abstract!DeliveredWasHandled /\ Abstract!EndsAreFinal
BY DeliveryPromiseKept, PromiseMeansHandled, PromiseIsFinal, PTL DEF ImplementsDelivery

-----------------------------------------------------------------------------
(* When a delivery is given up, and how many steps it may take.            *)

\* The dead letter is written when the attempts are used up.
StoreAtMax == \A d \in Deliveries : deliveryPc[d] = "store" => attempt[d] = MaxAttempts

GivenUpInv == StoreAtMax /\ GivenUpLast

LEMMA DeliveryGivesUpLast ==
  ASSUME InboundInv, GivenUpInv, NEW e \in Deliveries, DeliveryStep(e)
  PROVE  GivenUpInv'
<1>t. /\ deliveryPc \in [Deliveries -> {"idle", "post", "pause", "store"}]
      /\ attempt \in [Deliveries -> 0..MaxAttempts]
      /\ outcome \in [Deliveries -> Outcomes]
      /\ MaxAttempts \in Nat
  BY AttemptsAssumption DEF InboundInv, InboundTypeOK
<1>1. deliveryPc[e] # "idle" => outcome[e] = "owed"
  BY DEF InboundInv, OwedIsAtWork
<1>2. crashes' = crashes
  BY DEF DeliveryStep, Accepted, Refused, Retry, DeadLettered, DeadLetterFails
<1>3. ASSUME NEW d \in Deliveries, d # e
      PROVE  deliveryPc'[d] = deliveryPc[d] /\ outcome'[d] = outcome[d] /\ attempt'[d] = attempt[d]
  BY <1>3, <1>t DEF DeliveryStep, Accepted, Refused, Retry, DeadLettered, DeadLetterFails
<1>4. /\ deliveryPc'[e] = "store" => attempt'[e] = MaxAttempts
      /\ outcome'[e] = "dead_letter" => attempt'[e] = MaxAttempts
      /\ outcome'[e] = "lost" => DbMayFail /\ attempt'[e] = MaxAttempts
  <2>1. CASE Accepted(e)
    BY <2>1, <1>t DEF Accepted
  <2>2. CASE Refused(e)
    BY <2>2, <1>1, <1>t DEF Refused
  <2>3. CASE Retry(e)
    BY <2>3, <1>1, <1>t DEF Retry
  <2>4. CASE DeadLettered(e)
    BY <2>4, <1>t DEF DeadLettered, GivenUpInv, StoreAtMax
  <2>5. CASE DeadLetterFails(e)
    BY <2>5, <1>t DEF DeadLetterFails, GivenUpInv, StoreAtMax
  <2>6. QED
    BY <2>1, <2>2, <2>3, <2>4, <2>5 DEF DeliveryStep
<1>5. QED
  BY <1>2, <1>3, <1>4 DEF GivenUpInv, StoreAtMax, GivenUpLast

LEMMA StepGivesUpLast ==
  ASSUME InboundInv, GivenUpInv, [InboundNext]_inboundVars
  PROVE  GivenUpInv'
<1>1. CASE \E d \in Deliveries : DeliveryStep(d)
  BY <1>1, DeliveryGivesUpLast
<1>2. CASE \E x \in Batches : BindingsRead(x)
  BY <1>2 DEF BindingsRead, GivenUpInv, StoreAtMax, GivenUpLast
<1>3. CASE Crash
  <2>1. crashes' > 0
    BY <1>3, InboundBoundsAssumption DEF Crash, InboundInv, InboundTypeOK
  <2>2. QED
    BY <1>3, <2>1 DEF Crash, GivenUpInv, StoreAtMax, GivenUpLast
<1>4. CASE \/ \E x \in Batches : \/ MessagesUpsert(x) \/ MessageRecorded(x) \/ BindingsFail(x)
                                 \/ ForwardSettles(x) \/ DemoReply(x) \/ DemoReplySent(x)
           \/ \E d \in Deliveries : HandledLate(d)
           \/ CooldownEnds \/ UNCHANGED inboundVars
  <2>1. UNCHANGED <<deliveryPc, attempt, outcome, crashes>>
    BY <1>4 DEF MessagesUpsert, MessageRecorded, BindingsFail, ForwardSettles, DemoReply,
                DemoReplySent, HandledLate, CooldownEnds, inboundVars, deliverVars
  <2>2. QED
    BY <2>1 DEF GivenUpInv, StoreAtMax, GivenUpLast
<1>5. QED
  BY <1>1, <1>2, <1>3, <1>4 DEF InboundNext, HandlerStep

\* deliverWithRetry: an application that answers within MaxAttempts POSTs is never given
\* up, unless the process ends.
THEOREM NobodyGivenUpEarly == InboundSpec => []GivenUpLast
<1>1. InboundInit => GivenUpInv
  BY DEF InboundInit, GivenUpInv, StoreAtMax, GivenUpLast
<1>2. InboundInv /\ GivenUpInv /\ [InboundNext]_inboundVars => GivenUpInv'
  BY StepGivesUpLast
<1>3. GivenUpInv => GivenUpLast
  BY DEF GivenUpInv
<1>4. QED
  BY <1>1, <1>2, <1>3, InboundInvariant, PTL DEF InboundSpec

\* Where no dead letter is refused, an event is lost with the process and all its
\* deliveries, so Promise.all gives up on nothing that is still under way.
LostSettled ==
  \A d \in Deliveries : outcome[d] = "lost" => \A c \in Bindings : deliveryPc[<<d[1], c>>] = "idle"

LEMMA StepKeepsLostSettled ==
  ASSUME DbMayFail = FALSE, InboundInv, LostSettled, [InboundNext]_inboundVars
  PROVE  LostSettled'
<1>t. /\ deliveryPc \in [Deliveries -> {"idle", "post", "pause", "store"}]
      /\ outcome \in [Deliveries -> Outcomes]
  BY DEF InboundInv, InboundTypeOK
<1>1. CASE \E e \in Deliveries : DeliveryStep(e)
  <2>1. PICK e \in Deliveries : DeliveryStep(e)
    BY <1>1
  <2>2. deliveryPc[e] # "idle"
    BY <2>1 DEF DeliveryStep, Accepted, Refused, Retry, DeadLettered, DeadLetterFails
  <2>3. \A d \in Deliveries \ {e} : deliveryPc'[d] = deliveryPc[d] /\ outcome'[d] = outcome[d]
    BY <2>1, <1>t DEF DeliveryStep, Accepted, Refused, Retry, DeadLettered, DeadLetterFails
  <2>4. outcome'[e] = "lost" => outcome[e] = "lost"
    BY <2>1, <1>t DEF DeliveryStep, Accepted, Refused, Retry, DeadLettered, DeadLetterFails
  <2>5. ASSUME NEW d \in Deliveries, outcome'[d] = "lost", NEW c \in Bindings
        PROVE  deliveryPc'[<<d[1], c>>] = "idle"
    <3>1. deliveryPc[<<d[1], c>>] = "idle"
      BY <2>3, <2>4, <2>5 DEF LostSettled
    <3>2. QED
      BY <2>2, <2>3, <3>1, DeliveryParts
  <2>6. QED
    BY <2>5 DEF LostSettled
<1>2. CASE \E x \in Batches : BindingsRead(x)
  <2>1. PICK x \in Batches : BindingsRead(x)
    BY <1>2
  <2>2. ASSUME NEW d \in Deliveries
        PROVE  /\ deliveryPc'[d] = deliveryPc[d] \/ d[1] = Current(x)
               /\ outcome'[d] = "lost" => outcome[d] = "lost"
    BY <2>1 DEF BindingsRead
  <2>3. ASSUME NEW d \in Deliveries, outcome'[d] = "lost", NEW c \in Bindings
        PROVE  deliveryPc'[<<d[1], c>>] = "idle"
    <3>1. outcome[d] = "lost" /\ deliveryPc[<<d[1], c>>] = "idle"
      BY <2>2, <2>3 DEF LostSettled
    <3>2. d[1] # Current(x)
      BY <2>1, <3>1 DEF BindingsRead, Current, Unreached, InboundInv, Untouched
    <3>3. <<d[1], c>> \in Deliveries
      BY DeliveryParts
    <3>4. QED
      BY <2>2, <3>1, <3>2, <3>3
  <2>4. QED
    BY <2>3 DEF LostSettled
<1>3. CASE Crash
  BY <1>3, DeliveryParts DEF Crash, LostSettled
<1>4. CASE \/ \E x \in Batches : \/ MessagesUpsert(x) \/ MessageRecorded(x) \/ BindingsFail(x)
                                 \/ ForwardSettles(x) \/ DemoReply(x) \/ DemoReplySent(x)
           \/ \E d \in Deliveries : HandledLate(d)
           \/ CooldownEnds \/ UNCHANGED inboundVars
  <2>1. UNCHANGED <<deliveryPc, attempt, outcome>>
    BY <1>4 DEF MessagesUpsert, MessageRecorded, BindingsFail, ForwardSettles, DemoReply,
                DemoReplySent, HandledLate, CooldownEnds, inboundVars, deliverVars
  <2>2. QED
    BY <2>1 DEF LostSettled
<1>5. QED
  BY <1>1, <1>2, <1>3, <1>4 DEF InboundNext, HandlerStep

LEMMA LostSettledImpliesStrict ==
  ASSUME InboundInv, LostSettled
  PROVE  StrictOrder
<1> SUFFICES ASSUME NEW x \in Batches, NEW i \in 1..BatchSize, NEW j \in 1..BatchSize,
                    NEW b \in Bindings, NEW c \in Bindings, i < j, attempt[<<<<x, j>>, b>>] > 0
             PROVE  deliveryPc[<<<<x, i>>, c>>] = "idle"
  BY DEF StrictOrder
<1> DEFINE d == <<<<x, i>>, c>>
           e == <<<<x, j>>, b>>
<1>1. d \in Deliveries /\ e \in Deliveries
  BY DEF Deliveries, Messages
<1>2. at[x] \in Nat /\ BatchSize \in Nat
  BY BatchesAssumption DEF InboundInv, InboundTypeOK
<1>3. ~Unreached(e)
  BY <1>1 DEF InboundInv, Untouched
<1>4. Passed(d)
  BY <1>2, <1>3 DEF Unreached, Passed
<1>5. deliveryPc[d] = "idle" \/ \E o \in Bindings : outcome[<<<<x, i>>, o>>] = "lost"
  BY <1>1, <1>4 DEF InboundInv, Settled
<1>6. \A o \in Bindings : <<<<x, i>>, o>> \in Deliveries
  BY DEF Deliveries, Messages
<1>7. QED
  BY <1>5, <1>6 DEF LostSettled

\* messages.upsert: the refused dead letter is the only way out of the order.  Where
\* none is refused, nothing of a message is under way once a later one was sent.
THEOREM OrderIsStrict ==
  ASSUME DbMayFail = FALSE
  PROVE  InboundSpec => []StrictOrder
<1>1. InboundInit => LostSettled
  BY DEF InboundInit, LostSettled
<1>2. InboundInv /\ LostSettled /\ [InboundNext]_inboundVars => LostSettled'
  BY StepKeepsLostSettled
<1>3. InboundInv /\ LostSettled => StrictOrder
  BY LostSettledImpliesStrict
<1>4. QED
  BY <1>1, <1>2, <1>3, InboundInvariant, PTL DEF InboundSpec

\* What one step of the system does to a delivery that is still owed.
Nearer(d) ==
  outcome[d] = "owed"
    => \/ UNCHANGED <<deliveryPc[d], attempt[d], outcome[d]>>
       \/ outcome'[d] # "owed"
       \/ StepsLeft(d)' \in Nat /\ StepsLeft(d)' < StepsLeft(d)

LEMMA DeliveryNearer ==
  ASSUME InboundInv, NEW e \in Deliveries, DeliveryStep(e), NEW d \in Deliveries
  PROVE  Nearer(d)
<1>t. /\ deliveryPc \in [Deliveries -> {"idle", "post", "pause", "store"}]
      /\ attempt \in [Deliveries -> 0..MaxAttempts]
      /\ outcome \in [Deliveries -> Outcomes]
      /\ MaxAttempts \in Nat
  BY AttemptsAssumption DEF InboundInv, InboundTypeOK
<1>1. CASE d # e
  BY <1>1, <1>t
     DEF DeliveryStep, Accepted, Refused, Retry, DeadLettered, DeadLetterFails, Nearer
<1>2. CASE d = e
  <2>1. CASE Accepted(e) \/ DeadLettered(e) \/ DeadLetterFails(e)
    BY <1>2, <2>1, <1>t DEF Accepted, DeadLettered, DeadLetterFails, Nearer
  <2>2. CASE Refused(e)
    <3>1. /\ deliveryPc[e] = "post" /\ deliveryPc'[e] \in {"pause", "store"}
          /\ attempt'[e] = attempt[e] /\ attempt[e] \in 0..MaxAttempts
      BY <2>2, <1>t DEF Refused
    <3>2. StepsLeft(e) = 3 * (MaxAttempts - attempt[e]) + 3
      BY <3>1 DEF StepsLeft
    <3>3. \/ StepsLeft(e)' = 3 * (MaxAttempts - attempt[e]) + 2
          \/ StepsLeft(e)' = 3 * (MaxAttempts - attempt[e]) + 1
      BY <3>1 DEF StepsLeft
    <3>4. QED
      BY <1>2, <3>1, <3>2, <3>3, <1>t DEF Nearer
  <2>3. CASE Retry(e)
    <3>1. /\ deliveryPc[e] = "pause" /\ deliveryPc'[e] = "post"
          /\ attempt'[e] = attempt[e] + 1 /\ attempt[e] \in Nat /\ attempt[e] < MaxAttempts
      BY <2>3, <1>t DEF Retry, InboundInv, PauseBelowMax
    <3>2. StepsLeft(e) = 3 * (MaxAttempts - attempt[e]) + 2
      BY <3>1 DEF StepsLeft
    <3>3. StepsLeft(e)' = 3 * (MaxAttempts - (attempt[e] + 1)) + 3
      BY <3>1 DEF StepsLeft
    <3>4. QED
      BY <1>2, <3>1, <3>2, <3>3, <1>t DEF Nearer
  <2>4. QED
    BY <2>1, <2>2, <2>3 DEF DeliveryStep
<1>3. QED
  BY <1>1, <1>2

LEMMA StepNearer ==
  ASSUME InboundInv, [InboundNext]_inboundVars, NEW d \in Deliveries
  PROVE  Nearer(d)
<1>1. CASE \E e \in Deliveries : DeliveryStep(e)
  BY <1>1, DeliveryNearer
<1>2. CASE \E x \in Batches : BindingsRead(x)
  <2>1. PICK x \in Batches : BindingsRead(x)
    BY <1>2
  <2>2. outcome[d] = "owed" => d[1] # Current(x)
    BY <2>1 DEF BindingsRead, Current, Unreached, InboundInv, Untouched
  <2>3. QED
    BY <2>1, <2>2 DEF BindingsRead, Nearer
<1>3. CASE Crash
  BY <1>3 DEF Crash, Nearer
<1>4. CASE \/ \E x \in Batches : \/ MessagesUpsert(x) \/ MessageRecorded(x) \/ BindingsFail(x)
                                 \/ ForwardSettles(x) \/ DemoReply(x) \/ DemoReplySent(x)
           \/ \E e \in Deliveries : HandledLate(e)
           \/ CooldownEnds \/ UNCHANGED inboundVars
  <2>1. UNCHANGED <<deliveryPc, attempt, outcome>>
    BY <1>4 DEF MessagesUpsert, MessageRecorded, BindingsFail, ForwardSettles, DemoReply,
                DemoReplySent, HandledLate, CooldownEnds, inboundVars, deliverVars
  <2>2. QED
    BY <2>1 DEF Nearer
<1>5. QED
  BY <1>1, <1>2, <1>3, <1>4 DEF InboundNext, HandlerStep

\* deliverWithRetry: no answer of an application and no step of another delivery keeps
\* one going for ever; how many steps are left is bounded and goes down.
THEOREM DeliveriesRunDown == InboundSpec => DeliveryRunsDown
<1>1. InboundInv /\ [InboundNext]_inboundVars
        => [\A d \in Deliveries :
              outcome[d] = "owed"
                => \/ UNCHANGED <<deliveryPc[d], attempt[d], outcome[d]>>
                   \/ outcome'[d] # "owed"
                   \/ StepsLeft(d)' \in Nat /\ StepsLeft(d)' < StepsLeft(d)]_inboundVars
  BY StepNearer DEF Nearer
<1>2. QED
  BY <1>1, InboundInvariant, PTL DEF InboundSpec, DeliveryRunsDown

\* What one step does to a handler that has started.
HandlerNearer(x) ==
  handlerPc[x] # "waiting"
    => \/ UNCHANGED <<handlerPc[x], at[x]>>
       \/ StepsToGo(x)' \in Nat /\ StepsToGo(x)' < StepsToGo(x)

\* What a handler has left, by where it is.
LEMMA StepsToGoIs ==
  ASSUME InboundTypeOK, NEW x \in Batches
  PROVE  /\ at[x] \in 1..BatchSize /\ BatchSize \in Nat
         /\ handlerPc[x] = "record"   => StepsToGo(x) = 5 * (BatchSize - at[x]) + 5
         /\ handlerPc[x] = "bindings" => StepsToGo(x) = 5 * (BatchSize - at[x]) + 4
         /\ handlerPc[x] = "deliver"  => StepsToGo(x) = 5 * (BatchSize - at[x]) + 3
         /\ handlerPc[x] = "reply"    => StepsToGo(x) = 5 * (BatchSize - at[x]) + 2
         /\ handlerPc[x] = "send"     => StepsToGo(x) = 5 * (BatchSize - at[x]) + 1
         /\ handlerPc[x] = "done"     => StepsToGo(x) = 0
BY BatchesAssumption DEF InboundTypeOK, StepsToGo

\* The next message is nearer to the end than any place in the present one.
LEMMA NextMessageNearer ==
  ASSUME InboundInv, NEW x \in Batches, NextMessage(x),
         handlerPc[x] \in {"record", "bindings", "deliver", "reply", "send"}
  PROVE  HandlerNearer(x)
<1>1. StepsToGo(x) \in Nat /\ StepsToGo(x) > 5 * (BatchSize - at[x])
  BY StepsToGoIs DEF InboundInv
<1>2. CASE at[x] < BatchSize
  <2>1. at'[x] = at[x] + 1 /\ handlerPc'[x] = "record"
    BY <1>2 DEF NextMessage, InboundInv, InboundTypeOK
  <2>2. StepsToGo(x)' = 5 * (BatchSize - at'[x]) + 5
    BY <2>1 DEF StepsToGo
  <2>3. at[x] \in 1..BatchSize /\ BatchSize \in Nat
    BY StepsToGoIs DEF InboundInv
  <2>4. QED
    BY <1>1, <1>2, <2>1, <2>2, <2>3 DEF HandlerNearer
<1>3. CASE ~(at[x] < BatchSize)
  <2>1. handlerPc'[x] = "done"
    BY <1>3 DEF NextMessage, InboundInv, InboundTypeOK
  <2>2. StepsToGo(x)' = 0
    BY <2>1 DEF StepsToGo
  <2>3. QED
    BY <1>1, <2>2, StepsToGoIs DEF HandlerNearer, InboundInv
<1>4. QED
  BY <1>2, <1>3

\* A step that leaves the message as it is takes its place forward.
LEMMA SameMessageNearer ==
  ASSUME InboundInv, NEW x \in Batches, UNCHANGED at,
         \/ handlerPc[x] = "record" /\ handlerPc' = [handlerPc EXCEPT ![x] = "bindings"]
         \/ handlerPc[x] = "bindings" /\ handlerPc' = [handlerPc EXCEPT ![x] = "deliver"]
         \/ handlerPc[x] \in {"bindings", "deliver"} /\ handlerPc' = [handlerPc EXCEPT ![x] = "reply"]
         \/ handlerPc[x] = "reply" /\ handlerPc' = [handlerPc EXCEPT ![x] = "send"]
  PROVE  HandlerNearer(x)
<1>1. at[x] \in 1..BatchSize /\ BatchSize \in Nat /\ at'[x] = at[x]
  BY BatchesAssumption DEF InboundInv, InboundTypeOK
<1>2. handlerPc'[x] \in {"bindings", "deliver", "reply", "send"}
  BY DEF InboundInv, InboundTypeOK
<1>3. StepsToGo(x)' = 5 * (BatchSize - at[x])
                        + CASE handlerPc'[x] = "bindings" -> 4 [] handlerPc'[x] = "deliver" -> 3
                            [] handlerPc'[x] = "reply" -> 2 [] OTHER -> 1
  BY <1>1, <1>2 DEF StepsToGo
<1>4. QED
  BY <1>1, <1>3, StepsToGoIs DEF HandlerNearer, InboundInv, InboundTypeOK

LEMMA AfterForwardNearer ==
  ASSUME InboundInv, NEW x \in Batches, AfterForward(x),
         handlerPc[x] \in {"bindings", "deliver"}
  PROVE  HandlerNearer(x)
<1>1. CASE replying[x]
  BY <1>1, SameMessageNearer DEF AfterForward
<1>2. CASE ~replying[x]
  BY <1>2, NextMessageNearer DEF AfterForward
<1>3. QED
  BY <1>1, <1>2

LEMMA HandlerStepNearer ==
  ASSUME InboundInv, NEW x \in Batches, HandlerStep(x)
  PROVE  HandlerNearer(x)
<1>1. CASE MessageRecorded(x)
  <2>1. CASE NextMessage(x)
    BY <1>1, <2>1, NextMessageNearer DEF MessageRecorded
  <2>2. CASE handlerPc' = [handlerPc EXCEPT ![x] = "bindings"] /\ UNCHANGED at
    BY <1>1, <2>2, SameMessageNearer DEF MessageRecorded
  <2>3. QED
    BY <1>1, <2>1, <2>2 DEF MessageRecorded
<1>2. CASE BindingsRead(x)
  BY <1>2, SameMessageNearer DEF BindingsRead
<1>3. CASE BindingsFail(x) \/ ForwardSettles(x)
  BY <1>3, AfterForwardNearer DEF BindingsFail, ForwardSettles
<1>4. CASE DemoReply(x)
  <2>1. CASE NextMessage(x)
    BY <1>4, <2>1, NextMessageNearer DEF DemoReply
  <2>2. CASE handlerPc' = [handlerPc EXCEPT ![x] = "send"] /\ UNCHANGED at
    BY <1>4, <2>2, SameMessageNearer DEF DemoReply
  <2>3. QED
    BY <1>4, <2>1, <2>2 DEF DemoReply
<1>5. CASE DemoReplySent(x)
  BY <1>5, NextMessageNearer DEF DemoReplySent
<1>6. QED
  BY <1>1, <1>2, <1>3, <1>4, <1>5 DEF HandlerStep

\* The steps of one handler leave the others where they are.
LEMMA OtherHandlersStay ==
  ASSUME InboundInv, NEW x \in Batches, MessagesUpsert(x) \/ HandlerStep(x), NEW y \in Batches,
         y # x
  PROVE  UNCHANGED <<handlerPc[y], at[y]>>
<1> USE DEF InboundInv, InboundTypeOK
<1>1. CASE MessagesUpsert(x) \/ BindingsRead(x)
  BY <1>1 DEF MessagesUpsert, BindingsRead
<1>2. CASE MessageRecorded(x) \/ DemoReply(x) \/ DemoReplySent(x)
  BY <1>2 DEF MessageRecorded, DemoReply, DemoReplySent, NextMessage
<1>3. CASE BindingsFail(x) \/ ForwardSettles(x)
  BY <1>3 DEF BindingsFail, ForwardSettles, AfterForward, NextMessage
<1>4. QED
  BY <1>1, <1>2, <1>3 DEF HandlerStep

LEMMA StepHandlerNearer ==
  ASSUME InboundInv, [InboundNext]_inboundVars, NEW x \in Batches
  PROVE  HandlerNearer(x)
<1>1. CASE \E y \in Batches : MessagesUpsert(y) \/ HandlerStep(y)
  <2>1. PICK y \in Batches : MessagesUpsert(y) \/ HandlerStep(y)
    BY <1>1
  <2>2. CASE y # x
    BY <2>1, <2>2, OtherHandlersStay DEF HandlerNearer
  <2>3. CASE y = x
    BY <2>1, <2>3, HandlerStepNearer DEF MessagesUpsert, HandlerNearer
  <2>4. QED
    BY <2>2, <2>3
<1>2. CASE Crash
  <2>1. CASE handlerPc[x] \in {"waiting", "done"}
    BY <1>2, <2>1 DEF Crash, HandlerNearer
  <2>2. CASE handlerPc[x] \notin {"waiting", "done"}
    <3>1. handlerPc'[x] = "done"
      BY <1>2, <2>2 DEF Crash
    <3>2. StepsToGo(x)' = 0
      BY <3>1 DEF StepsToGo
    <3>3. StepsToGo(x) \in Nat /\ StepsToGo(x) > 0
      BY <2>2, StepsToGoIs DEF InboundInv, InboundTypeOK
    <3>4. QED
      BY <3>2, <3>3 DEF HandlerNearer
  <2>3. QED
    BY <2>1, <2>2
<1>3. CASE (\E d \in Deliveries : DeliveryStep(d) \/ HandledLate(d)) \/ CooldownEnds \/ UNCHANGED inboundVars
  <2>1. UNCHANGED <<handlerPc, at>>
    BY <1>3 DEF DeliveryStep, Accepted, Refused, Retry, DeadLettered, DeadLetterFails,
                HandledLate, CooldownEnds, inboundVars, handlerVars
  <2>2. QED
    BY <2>1 DEF HandlerNearer
<1>4. QED
  BY <1>1, <1>2, <1>3 DEF InboundNext

\* messages.upsert: no rejected query, refused dead letter or demo reply keeps a handler
\* at its message or takes it back; what it has left is bounded and goes down.
THEOREM HandlersRunDown == InboundSpec => HandlerRunsDown
<1>1. InboundInv /\ [InboundNext]_inboundVars
        => [\A x \in Batches :
              handlerPc[x] # "waiting"
                => \/ UNCHANGED <<handlerPc[x], at[x]>>
                   \/ StepsToGo(x)' \in Nat /\ StepsToGo(x)' < StepsToGo(x)]_inboundVars
  BY StepHandlerNearer DEF HandlerNearer
<1>2. QED
  BY <1>1, InboundInvariant, PTL DEF InboundSpec, HandlerRunsDown

=============================================================================
