--------------------------- MODULE PubSubDatasource ----------------------------
(***************************************************************************)
(* pubSubDatasource on one topic URL, with the Google provider: what       *)
(* Subscribe, Unsubscribe and Publish do, and the two goroutines of        *)
(* getSubscription.                                                        *)
(*                                                                         *)
(* Three threads meet.  "worker" is the reconcile worker, which subscribes *)
(* on every reconcile and publishes.  "receiver" takes messages from the   *)
(* subscription and hands them over one at a time.  "delivery" selects     *)
(* between a new callback and the next message, runs the callback, which   *)
(* may publish, and acks.  Each of them may find that the topic or the     *)
(* subscription does not exist and run ensurePubSubTopicSubscription; a    *)
(* step of a thread is one call to the service or one channel operation.   *)
(*                                                                         *)
(*   topicExists, subExists   the topic and this client's subscription     *)
(*   backlog                  messages of the subscription, not acked      *)
(*   process                  "up", or why it ended                        *)
(*   hasTask, topicCached, hasClient    entries of the maps in memory      *)
(*   currentTask              the channel of capacity 1 for callbacks      *)
(*   at, resume               where each thread is; for which call it runs *)
(*                            ensurePubSubTopicSubscription                *)
(*   out                      what a thread is publishing                  *)
(*   newCb, cb                the callback the worker passes, the one the  *)
(*                            delivery goroutine uses                      *)
(*   received, inHand         the message each goroutine holds             *)
(*   unsent, faults           bounds: messages not published yet, failures *)
(*   handled, accepted        history: messages a callback has returned    *)
(*                            for, messages the topic has taken            *)
(***************************************************************************)
EXTENDS Naturals

CONSTANTS
    Msg,              \* messages, each published once
    Callback,         \* what Subscribe may be given
    NoMessage, NoCallback, Empty,
    MayUnsubscribe,   \* nothing in the operator calls Unsubscribe
    MaxFaults         \* bound on failed calls, crashes and lost subscriptions

ASSUME PubSubAssumption ==
    /\ NoMessage \notin Msg
    /\ NoCallback \notin Callback
    /\ Empty \notin Callback \cup {NoCallback}
    /\ MayUnsubscribe \in BOOLEAN
    /\ MaxFaults \in Nat

VARIABLES
    topicExists, subExists, backlog,
    process, hasTask, topicCached, hasClient, currentTask,
    at, resume, out, newCb, cb, received, inHand,
    unsent, faults, handled, accepted

cloud == <<topicExists, subExists, backlog, accepted>>
maps == <<hasTask, topicCached, hasClient>>
held == <<out, newCb, cb, received, inHand>>
memory == <<process, maps, currentTask, at, resume, held>>
vars == <<topicExists, subExists, backlog, process, hasTask, topicCached,
          hasClient, currentTask, at, resume, out, newCb, cb, received,
          inHand, unsent, faults, handled, accepted>>

Thread == {"worker", "receiver", "delivery"}
Publisher == {"worker", "delivery"}

(* Where a thread may find that the topic or the subscription is missing.  *)
Call == {"opening", "sending", "open", "receive"}
Ensuring == {"checkTopic", "createTopic", "checkSub", "createSub"}

-----------------------------------------------------------------------------
(* The threads of a process before its first Subscribe.                    *)
AtStart == [t \in Thread |-> IF t = "worker" THEN "idle" ELSE "off"]
NoResume == [t \in Thread |-> "none"]
NoOut == [t \in Publisher |-> NoMessage]

Init ==
    /\ topicExists \in BOOLEAN /\ subExists \in BOOLEAN
    /\ subExists => topicExists
    /\ backlog = {} /\ unsent = Msg /\ accepted = {} /\ handled = {}
    /\ process = "up"
    /\ hasTask = FALSE /\ topicCached = FALSE /\ hasClient = FALSE
    /\ currentTask = Empty
    /\ at = AtStart /\ resume = NoResume /\ out = NoOut
    /\ newCb = NoCallback /\ cb = NoCallback
    /\ received = NoMessage /\ inHand = NoMessage
    /\ faults = 0

NoFault == UNCHANGED faults
Fault == faults < MaxFaults /\ faults' = faults + 1

Up(t, pc) == process = "up" /\ at[t] = pc
Goto(t, pc) == at' = [at EXCEPT ![t] = pc]

(* The end of the process: what is in memory is lost.                      *)
Stop(why) ==
    /\ process' = why
    /\ hasTask' = FALSE /\ topicCached' = FALSE /\ hasClient' = FALSE
    /\ currentTask' = Empty
    /\ at' = AtStart /\ resume' = NoResume /\ out' = NoOut
    /\ newCb' = NoCallback /\ cb' = NoCallback
    /\ received' = NoMessage /\ inHand' = NoMessage

-----------------------------------------------------------------------------
(* ensurePubSubTopicSubscription, called by any thread.                    *)

(* Mutant: the call that met the error is not remembered.                  *)
EnsureForgetting(t, for) == Goto(t, "checkTopic") /\ UNCHANGED resume

Ensure(t, for) ==
    /\ Goto(t, "checkTopic")
    /\ resume' = [resume EXCEPT ![t] = for]

(* Mutant: what failed is not tried again.                                 *)
EnsuredAndReturn(t) ==
    /\ Goto(t, CASE t = "worker" -> "idle"
                [] t = "delivery" -> "calling"
                [] t = "receiver" -> "open")
    /\ resume' = [resume EXCEPT ![t] = "none"]
    /\ out' = IF t \in Publisher THEN [out EXCEPT ![t] = NoMessage] ELSE out
    /\ NoFault
    /\ UNCHANGED <<process, maps, currentTask, newCb, cb, received, inHand>>

(* Publishing and opening are tried again, a receive starts from opening.  *)
Ensured(t) ==
    /\ Goto(t, IF resume[t] = "receive" THEN "open" ELSE resume[t])
    /\ resume' = [resume EXCEPT ![t] = "none"]
    /\ NoFault
    /\ UNCHANGED <<process, maps, currentTask, held>>

(* Mutant: the receive loop ends.                                          *)
NotEnsuredReturns(t) ==
    /\ Goto(t, "returned")
    /\ UNCHANGED <<process, maps, currentTask, resume, held>>

(* An error: the receive loop goes on, every other caller panics.          *)
NotEnsured(t) ==
    IF resume[t] = "receive"
    THEN /\ Goto(t, "receive")
         /\ resume' = [resume EXCEPT ![t] = "none"]
         /\ UNCHANGED <<process, maps, currentTask, held>>
    ELSE Stop("ensureFailed")

Step(t, pc) ==
    /\ Goto(t, pc) /\ NoFault
    /\ UNCHANGED <<process, hasTask, topicCached, currentTask, resume, held>>

CheckTopic(t) ==
    /\ Up(t, "checkTopic")
    /\ \/ /\ Step(t, IF topicExists THEN "checkSub" ELSE "createTopic")
          /\ hasClient' = TRUE
       \/ Fault /\ NotEnsured(t)
    /\ UNCHANGED <<cloud, unsent, handled>>

(* CreateTopic fails with AlreadyExists when another has created it since. *)
CreateTopic(t) ==
    /\ Up(t, "createTopic")
    /\ \/ /\ ~topicExists /\ topicExists' = TRUE
          /\ Step(t, "checkSub") /\ UNCHANGED hasClient
       \/ /\ (topicExists /\ NoFault) \/ Fault
          /\ NotEnsured(t)
          /\ UNCHANGED topicExists
    /\ UNCHANGED <<subExists, backlog, accepted, unsent, handled>>

CheckSub(t) ==
    /\ Up(t, "checkSub")
    /\ \/ subExists /\ Ensured(t)
       \/ ~subExists /\ Step(t, "createSub") /\ UNCHANGED hasClient
       \/ Fault /\ NotEnsured(t)
    /\ UNCHANGED <<cloud, unsent, handled>>

CreateSub(t) ==
    /\ Up(t, "createSub")
    /\ \/ /\ ~subExists /\ subExists' = TRUE
          /\ Ensured(t)
       \/ /\ (subExists /\ NoFault) \/ Fault
          /\ NotEnsured(t)
          /\ UNCHANGED subExists
    /\ UNCHANGED <<topicExists, backlog, accepted, unsent, handled>>

EnsureStep(t) == CheckTopic(t) \/ CreateTopic(t) \/ CheckSub(t) \/ CreateSub(t)

-----------------------------------------------------------------------------
(* Publish, by the worker or from within the callback.                     *)

ToTopic(m) ==
    /\ accepted' = accepted \cup {m}
    /\ backlog' = IF subExists THEN backlog \cup {m} ELSE backlog

(* Where the caller of Publish goes on.                                    *)
Caller(t) == IF t = "worker" THEN "idle" ELSE "calling"

Publish(t, m) ==
    /\ Up(t, Caller(t))
    /\ m \in unsent /\ unsent' = unsent \ {m}
    /\ out' = [out EXCEPT ![t] = m]
    /\ Goto(t, IF topicCached THEN "sending" ELSE "opening")
    /\ NoFault
    /\ UNCHANGED <<cloud, process, maps, currentTask, resume, newCb, cb,
                   received, inHand, handled>>

OpenTopic(t) ==
    /\ Up(t, "opening")
    /\ \/ /\ topicCached' = TRUE
          /\ Goto(t, "sending") /\ NoFault /\ UNCHANGED resume
       \/ /\ Fault /\ Ensure(t, "opening") /\ UNCHANGED topicCached
    /\ UNCHANGED <<cloud, process, hasTask, hasClient, currentTask, held,
                   unsent, handled>>

(* Errors other than NotFound are logged, and Publish returns.             *)
Send(t) ==
    /\ Up(t, "sending")
    /\ \/ /\ (topicExists /\ NoFault) \/ Fault
          /\ IF faults' = faults THEN ToTopic(out[t])
                                 ELSE UNCHANGED <<accepted, backlog>>
          /\ out' = [out EXCEPT ![t] = NoMessage]
          /\ Goto(t, Caller(t)) /\ UNCHANGED resume
       \/ /\ ~topicExists
          /\ Ensure(t, "sending")
          /\ NoFault /\ UNCHANGED <<accepted, backlog, out>>
    /\ UNCHANGED <<topicExists, subExists, process, maps, currentTask, newCb,
                   cb, received, inHand, unsent, handled>>

-----------------------------------------------------------------------------
(* Subscribe and Unsubscribe, by the worker.  getSubscription starts the   *)
(* goroutines once; then the callback is put into the channel, which       *)
(* blocks while an earlier one is waiting there.                           *)

Subscribe(c) ==
    /\ Up("worker", "idle")
    /\ newCb' = c
    /\ hasTask' = TRUE
    /\ at' = IF hasTask THEN [at EXCEPT !["worker"] = "subscribing"]
             ELSE [t \in Thread |-> CASE t = "worker" -> "subscribing"
                                      [] t = "receiver" -> "open"
                                      [] t = "delivery" -> "select"]
    /\ NoFault
    /\ UNCHANGED <<cloud, process, topicCached, hasClient, currentTask, resume,
                   out, cb, received, inHand, unsent, handled>>

(* With a task the channel gets nil, and the task stays registered; what   *)
(* is done without a task changes nothing.                                 *)
Unsubscribe ==
    /\ MayUnsubscribe
    /\ Up("worker", "idle") /\ hasTask
    /\ newCb' = NoCallback
    /\ Goto("worker", "subscribing")
    /\ NoFault
    /\ UNCHANGED <<cloud, process, maps, currentTask, resume, out, cb,
                   received, inHand, unsent, handled>>

PassCallback ==
    /\ Up("worker", "subscribing")
    /\ currentTask = Empty
    /\ currentTask' = newCb /\ newCb' = NoCallback
    /\ Goto("worker", "idle")
    /\ NoFault
    /\ UNCHANGED <<cloud, process, maps, resume, out, cb, received, inHand,
                   unsent, handled>>

-----------------------------------------------------------------------------
(* The goroutine that receives.                                            *)

OpenSubscription ==
    /\ Up("receiver", "open")
    /\ \/ Goto("receiver", "receive") /\ NoFault /\ UNCHANGED resume
       \/ Fault /\ Ensure("receiver", "open")
    /\ UNCHANGED <<cloud, process, maps, currentTask, held, unsent, handled>>

(* Mutant: a message is acked when it is received.                         *)
ReceiveAndAck(m) ==
    /\ Up("receiver", "receive")
    /\ m \in backlog /\ backlog' = backlog \ {m}
    /\ received' = m
    /\ Goto("receiver", "handover")
    /\ NoFault
    /\ UNCHANGED <<topicExists, subExists, accepted, process, maps,
                   currentTask, resume, out, newCb, cb, inHand, unsent,
                   handled>>

Receive(m) ==
    /\ Up("receiver", "receive")
    /\ m \in backlog
    /\ received' = m
    /\ Goto("receiver", "handover")
    /\ NoFault
    /\ UNCHANGED <<cloud, process, maps, currentTask, resume, out, newCb, cb,
                   inHand, unsent, handled>>

ReceiveFails ==
    /\ Up("receiver", "receive")
    /\ (~subExists /\ NoFault) \/ Fault
    /\ Ensure("receiver", "receive")
    /\ UNCHANGED <<cloud, process, maps, currentTask, held, unsent, handled>>

-----------------------------------------------------------------------------
(* The goroutine that delivers: a select between a callback and a message. *)

(* Mutant: the callback is taken from the channel once.                    *)
TakeFirstCallback ==
    /\ Up("delivery", "select")
    /\ currentTask # Empty /\ cb = NoCallback
    /\ cb' = currentTask /\ currentTask' = Empty
    /\ NoFault
    /\ UNCHANGED <<cloud, process, maps, at, resume, out, newCb, received,
                   inHand, unsent, handled>>

(* nil ends the goroutine.                                                 *)
TakeCallback ==
    /\ Up("delivery", "select")
    /\ currentTask # Empty /\ currentTask' = Empty
    /\ IF currentTask = NoCallback
       THEN Goto("delivery", "returned") /\ UNCHANGED cb
       ELSE cb' = currentTask /\ UNCHANGED at
    /\ NoFault
    /\ UNCHANGED <<cloud, process, maps, resume, out, newCb, received, inHand,
                   unsent, handled>>

Handover ==
    /\ Up("receiver", "handover") /\ at["delivery"] = "select"
    /\ cb # NoCallback
    /\ inHand' = received /\ received' = NoMessage
    /\ at' = [at EXCEPT !["receiver"] = "receive", !["delivery"] = "calling"]
    /\ NoFault
    /\ UNCHANGED <<cloud, process, maps, currentTask, resume, out, newCb, cb,
                   unsent, handled>>

(* select may pick a message before the first callback has been taken.     *)
NilCallbackPanic ==
    /\ Up("receiver", "handover") /\ at["delivery"] = "select"
    /\ cb = NoCallback
    /\ Stop("nilCallback") /\ NoFault
    /\ UNCHANGED <<cloud, unsent, handled>>

CallbackReturns ==
    /\ Up("delivery", "calling")
    /\ handled' = handled \cup {inHand}
    /\ Goto("delivery", "acking")
    /\ NoFault
    /\ UNCHANGED <<cloud, process, maps, currentTask, resume, held, unsent>>

(* An ack may not arrive.                                                  *)
Ack ==
    /\ Up("delivery", "acking")
    /\ \/ NoFault /\ backlog' = backlog \ {inHand}
       \/ Fault /\ UNCHANGED backlog
    /\ inHand' = NoMessage
    /\ Goto("delivery", "select")
    /\ UNCHANGED <<topicExists, subExists, accepted, process, maps,
                   currentTask, resume, out, newCb, cb, received, unsent,
                   handled>>

-----------------------------------------------------------------------------
(* Outside the process.                                                    *)

PeerPublishes(m) ==
    /\ topicExists
    /\ m \in unsent /\ unsent' = unsent \ {m}
    /\ ToTopic(m)
    /\ NoFault
    /\ UNCHANGED <<topicExists, subExists, memory, handled>>

PeerCreatesTopic ==
    /\ ~topicExists /\ topicExists' = TRUE
    /\ NoFault
    /\ UNCHANGED <<subExists, backlog, accepted, memory, unsent, handled>>

Crash ==
    /\ process = "up"
    /\ Fault /\ Stop("killed")
    /\ UNCHANGED <<cloud, unsent, handled>>

(* Two threads write one of the maps at once: the runtime ends the process *)
(* when it notices; when it does not, one of the writes wins and both      *)
(* entries are as good.                                                    *)
ConcurrentMapWrites ==
    /\ process = "up" /\ Fault
    /\ \/ \A t \in Publisher : at[t] = "opening"
       \/ \E t, u \in Thread : /\ t # u /\ ~hasClient
                                /\ at[t] = "checkTopic" /\ at[u] = "checkTopic"
    /\ Stop("fatal")
    /\ UNCHANGED <<cloud, unsent, handled>>

(* While no client runs, the subscription expires, or the next pod has     *)
(* another host name and so another subscription.                          *)
SubscriptionLost ==
    /\ process # "up" /\ subExists
    /\ Fault
    /\ subExists' = FALSE /\ backlog' = {}
    /\ UNCHANGED <<topicExists, accepted, memory, unsent, handled>>

Restart ==
    /\ process # "up" /\ process' = "up"
    /\ NoFault
    /\ UNCHANGED <<cloud, maps, currentTask, at, resume, held, unsent, handled>>

-----------------------------------------------------------------------------
WorkerStep == OpenTopic("worker") \/ Send("worker")
ReceiverStep == OpenSubscription \/ ReceiveFails
DeliveryStep ==
    OpenTopic("delivery") \/ Send("delivery") \/ CallbackReturns \/ Ack

Next ==
    \/ \E c \in Callback : Subscribe(c)
    \/ Unsubscribe
    \/ \E t \in Publisher, m \in Msg : Publish(t, m)
    \/ \E t \in Thread : EnsureStep(t)
    \/ WorkerStep \/ PassCallback \/ ReceiverStep \/ DeliveryStep
    \/ \E m \in Msg : Receive(m) \/ PeerPublishes(m)
    \/ TakeCallback \/ Handover \/ NilCallbackPanic
    \/ PeerCreatesTopic \/ Crash \/ ConcurrentMapWrites
    \/ SubscriptionLost \/ Restart

Spec == Init /\ [][Next]_vars

(* Threads go on, the deployment restarts the process, the worker          *)
(* subscribes on its first reconcile and on each one after.  Passing the   *)
(* callback on does not lose every race against the first message, select  *)
(* does not pass over a ready case for ever, nor the service a message.    *)
Fairness ==
    /\ WF_vars(Restart)
    /\ WF_vars(\E c \in Callback : Subscribe(c))
    /\ \A t \in Thread : WF_vars(EnsureStep(t))
    /\ WF_vars(WorkerStep) /\ WF_vars(ReceiverStep) /\ WF_vars(DeliveryStep)
    /\ SF_vars(PassCallback) /\ SF_vars(TakeCallback) /\ SF_vars(Handover)
    /\ \A m \in Msg : SF_vars(Receive(m))

FairSpec == Spec /\ Fairness

-----------------------------------------------------------------------------
(* Properties.                                                             *)

Busy == {"calling", "acking", "opening", "sending"} \cup Ensuring

Place == {"idle", "off", "subscribing", "open", "receive", "handover",
          "select", "returned"} \cup Busy

(* Every variable holds a value of its kind.                               *)
TypeOK ==
    /\ topicExists \in BOOLEAN /\ subExists \in BOOLEAN
    /\ backlog \subseteq Msg /\ unsent \subseteq Msg
    /\ handled \subseteq Msg /\ accepted \subseteq Msg
    /\ process \in {"up", "killed", "fatal", "ensureFailed", "nilCallback"}
    /\ hasTask \in BOOLEAN /\ topicCached \in BOOLEAN /\ hasClient \in BOOLEAN
    /\ currentTask \in Callback \cup {NoCallback, Empty}
    /\ newCb \in Callback \cup {NoCallback} /\ cb \in Callback \cup {NoCallback}
    /\ at \in [Thread -> Place]
    /\ resume \in [Thread -> Call \cup {"none"}]
    /\ out \in [Publisher -> Msg \cup {NoMessage}]
    /\ received \in Msg \cup {NoMessage} /\ inHand \in Msg \cup {NoMessage}
    /\ faults \in 0..MaxFaults

(* A message leaves the subscription only after a callback has returned    *)
(* for it, whatever the goroutines, the service and the process do.        *)
Queue == INSTANCE AckedQueue WITH Message <- Msg
QueueSpec == Queue!Spec

(* A message of the subscription is handled, through redelivery, restarts  *)
(* and a subscription that has to be made, unless the subscription is lost *)
(* or the topic was unsubscribed.                                          *)
Handled ==
    \A m \in Msg : m \in backlog ~> \/ m \notin backlog \/ m \in handled
                                    \/ at["delivery"] = "returned"

(* Subscribe, which every reconcile calls, blocks only until the delivery  *)
(* goroutine has taken the callback before, unless it was unsubscribed.    *)
SubscribeReturns ==
    at["worker"] = "subscribing" ~> \/ at["worker"] # "subscribing"
                                    \/ at["delivery"] = "returned"

(* A Publish that meets no failure reaches the topic, also when the topic  *)
(* must be created first, unless the process ends.                         *)
PublishReaches ==
    \A t \in Publisher, m \in Msg :
        out[t] = m ~> m \in accepted \/ faults > 0 \/ process # "up"
=============================================================================
