----------------------------- MODULE InboundMessages -----------------------------
(***************************************************************************)
(* From an incoming WhatsApp message to the applications' webhooks: the    *)
(* messages.upsert handler of session-manager.ts, webhook/forward.ts and   *)
(* the demo auto-reply of demo/never-miss-a-job.ts, for one account.       *)
(*                                                                         *)
(* The library emits batches; the handler of a batch takes its messages    *)
(* one by one, and the handlers of two batches interleave at their awaits. *)
(* The applications are external: a POST is answered or fails, and one     *)
(* whose answer is lost may have been handled.  A fetch has no timeout of  *)
(* its own, but the HTTP client of Node ends it at last.                   *)
(***************************************************************************)
EXTENDS Naturals, FiniteSets

CONSTANTS
  Batches,       \* batches of incoming messages
  BatchSize,     \* messages in each
  Bindings,      \* rows of wa_account_bindings for the account
  MaxAttempts,   \* MAX_ATTEMPTS
  MaxCrashes,    \* bound on process exits
  DbMayFail      \* may a query be rejected?

ASSUME BatchesAssumption == BatchSize \in Nat \ {0}
ASSUME AttemptsAssumption == MaxAttempts \in Nat \ {0}
ASSUME InboundBoundsAssumption ==
  MaxCrashes \in Nat /\ DbMayFail \in BOOLEAN

VARIABLES
  handlerPc,   \* where the handler of each batch is
  at,          \* the message it is at
  replying,    \* is the message of a kind the demo may answer?
  cooling,     \* did the demo answer the chat within the cooldown window?
  deliveryPc,  \* where deliverWithRetry is, for each message and binding
  attempt,     \* its loop counter
  outcome,     \* what became of the delivery
  handled,     \* history: has the application handled the event?
  crashes      \* process exits so far

handlerVars  == <<handlerPc, at, replying, cooling>>
deliverVars  == <<deliveryPc, attempt, outcome, handled>>
inboundVars  == <<handlerVars, deliverVars, crashes>>

Messages   == Batches \X (1..BatchSize)
Deliveries == Messages \X Bindings

Outcomes == {"none", "owed", "delivered", "dead_letter", "lost"}

InboundTypeOK ==
  /\ handlerPc \in [Batches -> {"waiting", "record", "bindings", "deliver", "reply", "send",
                                "done"}]
  /\ at \in [Batches -> 1..BatchSize]
  /\ replying \in [Batches -> BOOLEAN]
  /\ cooling \in BOOLEAN
  /\ deliveryPc \in [Deliveries -> {"idle", "post", "pause", "store"}]
  /\ attempt \in [Deliveries -> 0..MaxAttempts]
  /\ outcome \in [Deliveries -> Outcomes]
  /\ handled \in [Deliveries -> BOOLEAN]
  /\ crashes \in 0..MaxCrashes

InboundInit ==
  /\ handlerPc = [x \in Batches |-> "waiting"]
  /\ at = [x \in Batches |-> 1]
  /\ replying = [x \in Batches |-> FALSE]
  /\ cooling = FALSE
  /\ deliveryPc = [d \in Deliveries |-> "idle"]
  /\ attempt = [d \in Deliveries |-> 0]
  /\ outcome = [d \in Deliveries |-> "none"]
  /\ handled = [d \in Deliveries |-> FALSE]
  /\ crashes = 0

-----------------------------------------------------------------------------
(* The handler of a batch.                                                 *)

Current(x) == <<x, at[x]>>

\* On to the next message of the batch, or out of the loop.
NextMessage(x) ==
  /\ replying' = [replying EXCEPT ![x] = FALSE]
  /\ IF at[x] < BatchSize
       THEN /\ at' = [at EXCEPT ![x] = @ + 1]
            /\ handlerPc' = [handlerPc EXCEPT ![x] = "record"]
       ELSE /\ handlerPc' = [handlerPc EXCEPT ![x] = "done"]
            /\ UNCHANGED at

\* A batch of type 'notify' arrives.
MessagesUpsert(x) ==
  /\ handlerPc[x] = "waiting"
  /\ handlerPc' = [handlerPc EXCEPT ![x] = "record"]
  /\ UNCHANGED <<at, replying, cooling, deliverVars, crashes>>

\* recordMessageEvent settles, one way or the other.  A customer's message, and a
\* text the owner sends to their own number, are forwarded; another message of the
\* account itself is not.  The operator's own text to that number is among those if
\* sendMessage has noted its id, and passes for the owner's if its echo came first.
MessageRecorded(x) ==
  /\ handlerPc[x] = "record"
  /\ \/ \E customer \in BOOLEAN :
          /\ replying' = [replying EXCEPT ![x] = customer]
          /\ handlerPc' = [handlerPc EXCEPT ![x] = "bindings"]
          /\ UNCHANGED at
     \/ NextMessage(x)
  /\ UNCHANGED <<cooling, deliverVars, crashes>>

\* forwardEvent reads the rows that are active and starts a delivery to each that has
\* a webhook_url.  Requests bind, rebind and deactivate at any time, and nothing here
\* looks at the rows again, so they may be any.
BindingsRead(x) ==
  /\ handlerPc[x] = "bindings"
  /\ handlerPc' = [handlerPc EXCEPT ![x] = "deliver"]
  /\ \E active \in SUBSET Bindings :
       LET addressed == {d \in Deliveries : d[1] = Current(x) /\ d[2] \in active} IN
         /\ deliveryPc' = [d \in Deliveries |-> IF d \in addressed THEN "post" ELSE deliveryPc[d]]
         /\ attempt' = [d \in Deliveries |-> IF d \in addressed THEN 1 ELSE attempt[d]]
         /\ outcome' = [d \in Deliveries |-> IF d \in addressed THEN "owed" ELSE outcome[d]]
  /\ UNCHANGED <<at, replying, cooling, handled, crashes>>

\* What follows forwardInboundMessage, whether it resolved or was rejected.
AfterForward(x) ==
  IF replying[x]
    THEN handlerPc' = [handlerPc EXCEPT ![x] = "reply"] /\ UNCHANGED <<at, replying>>
    ELSE NextMessage(x)

\* The query is rejected: the event is only logged.
BindingsFail(x) ==
  /\ DbMayFail
  /\ handlerPc[x] = "bindings"
  /\ AfterForward(x)
  /\ UNCHANGED <<cooling, deliverVars, crashes>>

\* A handler that does not wait for the deliveries it started.
ForwardNotAwaited(x) ==
  /\ handlerPc[x] = "deliver"
  /\ AfterForward(x)
  /\ UNCHANGED <<cooling, deliverVars, crashes>>

\* One that waits until every application has accepted the message.
ForwardAwaitsAcceptance(x) ==
  /\ handlerPc[x] = "deliver"
  /\ \A b \in Bindings : outcome[<<Current(x), b>>] \in {"none", "delivered"}
  /\ AfterForward(x)
  /\ UNCHANGED <<cooling, deliverVars, crashes>>

\* Promise.all settles when every delivery has, or as soon as one is rejected.
ForwardSettles(x) ==
  /\ handlerPc[x] = "deliver"
  /\ \/ \A b \in Bindings : deliveryPc[<<Current(x), b>>] = "idle"
     \/ \E b \in Bindings : outcome[<<Current(x), b>>] = "lost"
  /\ AfterForward(x)
  /\ UNCHANGED <<cooling, deliverVars, crashes>>

\* maybeSendNmjDemoReply: off, not an allowed chat, or in the cooldown window; or
\* the reply is sent.
DemoReply(x) ==
  /\ handlerPc[x] = "reply"
  /\ \/ NextMessage(x)
     \/ /\ ~cooling
        /\ handlerPc' = [handlerPc EXCEPT ![x] = "send"]
        /\ UNCHANGED <<at, replying>>
  /\ UNCHANGED <<cooling, deliverVars, crashes>>

\* sendMessage resolves, and only then is the time of the reply noted; or it is
\* rejected, which is only logged.
DemoReplySent(x) ==
  /\ handlerPc[x] = "send"
  /\ NextMessage(x)
  /\ cooling' \in {cooling, TRUE}
  /\ UNCHANGED <<deliverVars, crashes>>

CooldownEnds ==
  /\ cooling
  /\ cooling' = FALSE
  /\ UNCHANGED <<handlerPc, at, replying, deliverVars, crashes>>

-----------------------------------------------------------------------------
(* deliverWithRetry, for one message and one binding.                      *)

\* A 2xx answer.
Accepted(d) ==
  /\ deliveryPc[d] = "post"
  /\ deliveryPc' = [deliveryPc EXCEPT ![d] = "idle"]
  /\ outcome' = [outcome EXCEPT ![d] = "delivered"]
  /\ handled' = [handled EXCEPT ![d] = TRUE]
  /\ UNCHANGED <<handlerVars, attempt, crashes>>

\* A loop with one attempt too many.
RefusedOffByOne(d) ==
  /\ deliveryPc[d] = "post"
  /\ deliveryPc' = [deliveryPc EXCEPT ![d] = IF attempt[d] <= MaxAttempts THEN "pause" ELSE "store"]
  /\ handled' \in {handled, [handled EXCEPT ![d] = TRUE]}
  /\ UNCHANGED <<handlerVars, attempt, outcome, crashes>>

\* One that ends without a dead letter.
RefusedForgotten(d) ==
  /\ deliveryPc[d] = "post"
  /\ deliveryPc' = [deliveryPc EXCEPT ![d] = IF attempt[d] < MaxAttempts THEN "pause" ELSE "idle"]
  /\ handled' \in {handled, [handled EXCEPT ![d] = TRUE]}
  /\ UNCHANGED <<handlerVars, attempt, outcome, crashes>>

\* One that takes any answer for an acceptance.
RefusedTakenForAccepted(d) ==
  /\ deliveryPc[d] = "post"
  /\ deliveryPc' = [deliveryPc EXCEPT ![d] = "idle"]
  /\ outcome' = [outcome EXCEPT ![d] = "delivered"]
  /\ UNCHANGED <<handlerVars, attempt, handled, crashes>>

\* One that never counts.
RefusedForever(d) ==
  /\ deliveryPc[d] = "post"
  /\ deliveryPc' = [deliveryPc EXCEPT ![d] = "pause"]
  /\ attempt' = [attempt EXCEPT ![d] = 0]
  /\ handled' \in {handled, [handled EXCEPT ![d] = TRUE]}
  /\ UNCHANGED <<handlerVars, outcome, crashes>>

\* Another answer, or none: the application may have handled the event all the same.
Refused(d) ==
  /\ deliveryPc[d] = "post"
  /\ deliveryPc' = [deliveryPc EXCEPT ![d] = IF attempt[d] < MaxAttempts THEN "pause" ELSE "store"]
  /\ handled' \in {handled, [handled EXCEPT ![d] = TRUE]}
  /\ UNCHANGED <<handlerVars, attempt, outcome, crashes>>

\* The pause before the next attempt is over.
Retry(d) ==
  /\ deliveryPc[d] = "pause"
  /\ deliveryPc' = [deliveryPc EXCEPT ![d] = "post"]
  /\ attempt' = [attempt EXCEPT ![d] = @ + 1]
  /\ UNCHANGED <<handlerVars, outcome, handled, crashes>>

\* The insert into wa_webhook_dead_letters commits.
DeadLettered(d) ==
  /\ deliveryPc[d] = "store"
  /\ deliveryPc' = [deliveryPc EXCEPT ![d] = "idle"]
  /\ outcome' = [outcome EXCEPT ![d] = "dead_letter"]
  /\ UNCHANGED <<handlerVars, attempt, handled, crashes>>

\* The insert is rejected, and with it forwardEvent.
DeadLetterFails(d) ==
  /\ DbMayFail
  /\ deliveryPc[d] = "store"
  /\ deliveryPc' = [deliveryPc EXCEPT ![d] = "idle"]
  /\ outcome' = [outcome EXCEPT ![d] = "lost"]
  /\ UNCHANGED <<handlerVars, attempt, handled, crashes>>

\* The application handles an event it was sent after its delivery was given up, or the process
\* ended.  One handled between two attempts is among the outcomes of Refused.
HandledLate(d) ==
  /\ outcome[d] # "none" /\ deliveryPc[d] = "idle" /\ ~handled[d]
  /\ handled' = [handled EXCEPT ![d] = TRUE]
  /\ UNCHANGED <<handlerVars, deliveryPc, attempt, outcome, crashes>>

-----------------------------------------------------------------------------
\* The process ends: handlers and deliveries are in its memory alone.
Crash ==
  /\ crashes < MaxCrashes
  /\ crashes' = crashes + 1
  /\ handlerPc' = [x \in Batches |-> IF handlerPc[x] = "waiting" THEN "waiting" ELSE "done"]
  /\ replying' = [x \in Batches |-> FALSE]
  /\ cooling' = FALSE
  /\ deliveryPc' = [d \in Deliveries |-> "idle"]
  /\ outcome' = [d \in Deliveries |-> IF outcome[d] = "owed" THEN "lost" ELSE outcome[d]]
  /\ UNCHANGED <<at, attempt, handled>>

HandlerStep(x) ==
  MessageRecorded(x) \/ BindingsRead(x) \/ BindingsFail(x) \/ ForwardSettles(x)
    \/ DemoReply(x) \/ DemoReplySent(x)

DeliveryStep(d) == Accepted(d) \/ Refused(d) \/ Retry(d) \/ DeadLettered(d) \/ DeadLetterFails(d)

InboundNext ==
  \/ \E x \in Batches : MessagesUpsert(x) \/ HandlerStep(x)
  \/ \E d \in Deliveries : DeliveryStep(d) \/ HandledLate(d)
  \/ CooldownEnds
  \/ Crash

InboundSpec == InboundInit /\ [][InboundNext]_inboundVars

\* Every awaited promise settles: a query, the end of a fetch, a pause.
InboundFairness ==
  /\ \A x \in Batches : WF_inboundVars(HandlerStep(x))
  /\ \A d \in Deliveries : WF_inboundVars(DeliveryStep(d))

FairInboundSpec == InboundSpec /\ InboundFairness

-----------------------------------------------------------------------------
(* Properties.                                                             *)

\* The messages of a batch reach a binding in their order: one is sent only when the
\* delivery of those before it has ended.  The exception is Promise.all giving up on
\* an earlier message because another binding's dead letter was refused.
BatchInOrder ==
  \A x \in Batches, i, j \in 1..BatchSize, b \in Bindings :
    i < j /\ attempt[<<<<x, j>>, b>>] > 0
      => \/ deliveryPc[<<<<x, i>>, b>>] = "idle"
         \/ \E c \in Bindings \ {b} : outcome[<<<<x, i>>, c>>] = "lost"

\* An event the process is still responsible for has a delivery at work on it, and a
\* delivery at work is of an event still owed: none is forgotten and none is
\* sent again once it was acknowledged, dead-lettered or lost.
OwedIsAtWork == \A d \in Deliveries : outcome[d] = "owed" <=> deliveryPc[d] # "idle"

\* README.md: inbound webhooks with retry and dead-letter storage.
Abstract == INSTANCE EventDelivery WITH
              Deliveries <- Deliveries, outcome <- outcome, handled <- handled
ImplementsDelivery == Abstract!DeliverySpec

\* However slow or broken an application is, the handler of a batch comes to its
\* last message, and every delivery ends.
BatchHandled == \A x \in Batches : handlerPc[x] # "waiting" ~> handlerPc[x] = "done"
DeliveryEnds == \A d \in Deliveries : outcome[d] = "owed" ~> outcome[d] # "owed"

-----------------------------------------------------------------------------
(* What holds behind those, for every schedule.                            *)

\* No event is given up early: one is dead-lettered after MaxAttempts POSTs, and
\* one is lost only with the process, or when its dead letter is refused then.
GivenUpLast ==
  \A d \in Deliveries :
    /\ outcome[d] = "dead_letter" => attempt[d] = MaxAttempts
    /\ outcome[d] = "lost" => crashes > 0 \/ (DbMayFail /\ attempt[d] = MaxAttempts)

\* The order without the exception: where no dead letter is refused, nothing of a
\* message is under way when the next one is sent.
StrictOrder ==
  \A x \in Batches, i, j \in 1..BatchSize, b, c \in Bindings :
    i < j /\ attempt[<<<<x, j>>, b>>] > 0 => deliveryPc[<<<<x, i>>, c>>] = "idle"

\* How many steps a delivery has left at most: three for each attempt, the POST, its
\* refusal and the pause, or the dead letter, after it.
StepsLeft(d) ==
  3 * (MaxAttempts - attempt[d])
    + CASE deliveryPc[d] = "post" -> 3 [] deliveryPc[d] = "pause" -> 2
        [] deliveryPc[d] = "store" -> 1 [] OTHER -> 0

\* A delivery never starts over: each of its steps brings it nearer to its end,
\* whatever the application answers, and what the others do leaves it alone.
DeliveryRunsDown ==
  [][\A d \in Deliveries :
       outcome[d] = "owed"
         => \/ UNCHANGED <<deliveryPc[d], attempt[d], outcome[d]>>
            \/ outcome'[d] # "owed"
            \/ StepsLeft(d)' \in Nat /\ StepsLeft(d)' < StepsLeft(d)]_inboundVars

\* How many steps the handler of a batch has left at most, five for a message.
StepsToGo(x) ==
  CASE handlerPc[x] = "done" -> 0
    [] OTHER -> 5 * (BatchSize - at[x])
                  + CASE handlerPc[x] = "record" -> 5 [] handlerPc[x] = "bindings" -> 4
                      [] handlerPc[x] = "deliver" -> 3 [] handlerPc[x] = "reply" -> 2
                      [] OTHER -> 1

\* Nor does a handler: whatever is rejected, each of its steps brings it nearer to
\* the end of its batch, and it is held up only by the deliveries it waits for.
HandlerRunsDown ==
  [][\A x \in Batches :
       handlerPc[x] # "waiting"
         => \/ UNCHANGED <<handlerPc[x], at[x]>>
            \/ StepsToGo(x)' \in Nat /\ StepsToGo(x)' < StepsToGo(x)]_inboundVars

=============================================================================
