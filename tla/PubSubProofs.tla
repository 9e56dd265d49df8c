----------------------------- MODULE PubSubProofs ------------------------------
(***************************************************************************)
(* PubSubDatasource keeps what AckedQueue promises.                        *)
(***************************************************************************)
EXTENDS PubSubDatasource, TLAPS

(* A message that a goroutine holds is in the subscription or was handled, *)
(* the one to be acked was handled; a thread that ensures knows where to   *)
(* go on, and one that publishes knows what.                               *)
HoldInv ==
    /\ \A m \in {received, inHand} \ {NoMessage} : m \in backlog \cup handled
    /\ at["receiver"] = "handover" => received \in Msg
    /\ at["delivery"] \in Busy => inHand \in Msg
    /\ at["delivery"] = "acking" => inHand \in handled
    /\ process # "up" => received = NoMessage /\ inHand = NoMessage
    /\ \A t \in Thread : at[t] \in Ensuring => resume[t] # "none"
    /\ \A t \in Publisher :
          at[t] \in {"opening", "sending"} \cup Ensuring => out[t] \in Msg

Inv == TypeOK /\ HoldInv

LEMMA StartTyped ==
    /\ AtStart \in [Thread -> Place]
    /\ NoResume \in [Thread -> Call \cup {"none"}]
    /\ NoOut \in [Publisher -> Msg \cup {NoMessage}]
    /\ \A t \in Thread : AtStart[t] \in {"idle", "off"}
BY DEF AtStart, NoResume, NoOut, Place, Thread

(* A thread that moves leaves the others where they are.                   *)
LEMMA GotoTyped ==
    ASSUME TypeOK, NEW t \in Thread, NEW pc \in Place, Goto(t, pc)
    PROVE  /\ at' \in [Thread -> Place]
           /\ at'[t] = pc
           /\ \A u \in Thread \ {t} : at'[u] = at[u]
BY DEF Goto, TypeOK

LEMMA FaultsBounded ==
    ASSUME TypeOK, NoFault \/ Fault
    PROVE  faults' \in 0..MaxFaults
BY PubSubAssumption DEF NoFault, Fault, TypeOK

(* Stopping leaves nothing in hand.                                        *)
LEMMA StopKeepsInv ==
    ASSUME Inv,
           NEW why \in {"killed", "fatal", "ensureFailed", "nilCallback"},
           Stop(why),
           topicExists' \in BOOLEAN, subExists' \in BOOLEAN,
           UNCHANGED <<backlog, accepted, unsent, handled>>,
           NoFault \/ Fault
    PROVE  Inv'
<1>1. TypeOK'
  BY StartTyped, FaultsBounded DEF Stop, Inv, TypeOK
<1>2. HoldInv'
  BY StartTyped DEF Stop, HoldInv, Thread, Publisher, Busy, Ensuring
<1> QED BY <1>1, <1>2 DEF Inv

(* The initial states.                                                     *)
LEMMA InitInv == ASSUME Init PROVE Inv
<1>1. backlog \subseteq Msg /\ unsent \subseteq Msg /\ handled \subseteq Msg
      /\ accepted \subseteq Msg /\ faults \in 0..MaxFaults
  BY PubSubAssumption DEF Init
<1>2. TypeOK
  BY <1>1, StartTyped DEF Init, TypeOK
<1>3. HoldInv
  BY StartTyped DEF Init, HoldInv, Thread, Publisher, Busy, Ensuring
<1> QED BY <1>2, <1>3 DEF Inv

(* The outcomes of ensurePubSubTopicSubscription.                          *)
LEMMA EnsuredKeepsInv ==
    ASSUME Inv, NEW t \in Thread, at[t] \in Ensuring,
           Ensured(t),
           topicExists' \in BOOLEAN, subExists' \in BOOLEAN,
           UNCHANGED <<backlog, accepted, unsent, handled>>
    PROVE  Inv'
<1> DEFINE next == IF resume[t] = "receive" THEN "open" ELSE resume[t]
<1>1. next \in {"open", "opening", "sending"} /\ next \in Place
  BY DEF Inv, TypeOK, HoldInv, Place, Busy, Call
<1>2. /\ at' \in [Thread -> Place] /\ at'[t] = next
      /\ \A u \in Thread \ {t} : at'[u] = at[u]
  BY <1>1, GotoTyped DEF Ensured, Inv
<1>3. /\ resume' \in [Thread -> Call \cup {"none"}]
      /\ \A u \in Thread \ {t} : resume'[u] = resume[u]
  BY DEF Ensured, Inv, TypeOK
<1>4. TypeOK'
  BY <1>2, <1>3, FaultsBounded DEF Ensured, Inv, TypeOK, maps, held
<1>5. HoldInv'
  BY <1>1, <1>2, <1>3
     DEF Ensured, Inv, HoldInv, Thread, Publisher, Busy, Ensuring, maps, held
<1> QED BY <1>4, <1>5 DEF Inv

LEMMA NotEnsuredKeepsInv ==
    ASSUME Inv, NEW t \in Thread, at[t] \in Ensuring,
           NotEnsured(t),
           topicExists' \in BOOLEAN, subExists' \in BOOLEAN,
           UNCHANGED <<backlog, accepted, unsent, handled>>,
           NoFault \/ Fault
    PROVE  Inv'
<1>1. CASE resume[t] # "receive"
  BY <1>1, StopKeepsInv DEF NotEnsured
<1>2. CASE resume[t] = "receive"
  <2>1. /\ at' \in [Thread -> Place] /\ at'[t] = "receive"
        /\ \A u \in Thread \ {t} : at'[u] = at[u]
    BY <1>2, GotoTyped DEF NotEnsured, Inv, Place
  <2>2. /\ resume' \in [Thread -> Call \cup {"none"}]
        /\ \A u \in Thread \ {t} : resume'[u] = resume[u]
    BY <1>2 DEF NotEnsured, Inv, TypeOK
  <2>3. TypeOK'
    BY <1>2, <2>1, <2>2, FaultsBounded DEF NotEnsured, Inv, TypeOK, maps, held
  <2>4. HoldInv'
    BY <1>2, <2>1, <2>2
       DEF NotEnsured, Inv, HoldInv, Thread, Publisher, Busy, Ensuring, maps, held
  <2> QED BY <2>3, <2>4 DEF Inv
<1> QED BY <1>1, <1>2

(* From one of its calls to the next.                                      *)
LEMMA StepKeepsInv ==
    ASSUME Inv, NEW t \in Thread, NEW pc \in Ensuring,
           at[t] \in Ensuring, Step(t, pc),
           hasClient' \in BOOLEAN,
           topicExists' \in BOOLEAN, subExists' \in BOOLEAN,
           UNCHANGED <<backlog, accepted, unsent, handled>>
    PROVE  Inv'
<1>1. /\ at' \in [Thread -> Place] /\ at'[t] = pc
      /\ \A u \in Thread \ {t} : at'[u] = at[u]
  BY GotoTyped DEF Step, Inv, Place, Busy
<1>2. TypeOK'
  BY <1>1, FaultsBounded DEF Step, Inv, TypeOK, held
<1>3. HoldInv'
  BY <1>1 DEF Step, Inv, HoldInv, Thread, Publisher, Busy, Ensuring, held
<1> QED BY <1>2, <1>3 DEF Inv

LEMMA EnsureKeepsInv ==
    ASSUME Inv, NEW t \in Thread, EnsureStep(t)
    PROVE  Inv'
<1> USE DEF cloud, Up, Ensuring
<1>0. topicExists \in BOOLEAN /\ subExists \in BOOLEAN /\ hasClient \in BOOLEAN
  BY DEF Inv, TypeOK
<1>2. CASE CheckTopic(t)
  BY <1>0, <1>2, StepKeepsInv, NotEnsuredKeepsInv DEF CheckTopic
<1>3. CASE CreateTopic(t)
  BY <1>0, <1>3, StepKeepsInv, NotEnsuredKeepsInv DEF CreateTopic
<1>4. CASE CheckSub(t)
  BY <1>0, <1>4, StepKeepsInv, EnsuredKeepsInv, NotEnsuredKeepsInv DEF CheckSub
<1>5. CASE CreateSub(t)
  BY <1>0, <1>5, EnsuredKeepsInv, NotEnsuredKeepsInv DEF CreateSub
<1> QED BY <1>2, <1>3, <1>4, <1>5 DEF EnsureStep

(* Publish.                                                                *)
LEMMA PublishKeepsInv ==
    ASSUME Inv, NEW t \in Publisher, NEW m \in Msg,
           Publish(t, m)
    PROVE  Inv'
<1> DEFINE next == IF topicCached THEN "sending" ELSE "opening"
<1>1. /\ at' \in [Thread -> Place] /\ at'[t] = next
      /\ \A u \in Thread \ {t} : at'[u] = at[u]
  BY GotoTyped DEF Publish, Inv, Place, Busy, Thread, Publisher
<1>2. out'[t] = m /\ \A u \in Publisher \ {t} : out'[u] = out[u]
  BY DEF Publish, Inv, TypeOK
<1>3. TypeOK'
  BY <1>1, FaultsBounded
     DEF Publish, Inv, TypeOK, cloud, maps, Publisher
<1>4. HoldInv'
  BY <1>1, <1>2 DEF Publish, Inv, HoldInv, Up, Caller, Thread, Publisher,
                   Busy, Ensuring, cloud
<1> QED BY <1>3, <1>4 DEF Inv

LEMMA Calls == /\ {"opening", "sending", "open", "receive"} = Call
               /\ "none" \notin Call
BY DEF Call

LEMMA EnsureStarts ==
    ASSUME Inv, NEW t \in Thread,
           NEW for \in Call,
           Ensure(t, for)
    PROVE  /\ at' \in [Thread -> Place] /\ at'[t] = "checkTopic"
           /\ \A u \in Thread \ {t} : at'[u] = at[u]
           /\ resume' \in [Thread -> Call \cup {"none"}]
           /\ resume'[t] = for
           /\ \A u \in Thread \ {t} : resume'[u] = resume[u]
<1>1. "checkTopic" \in Place
  BY DEF Place, Busy, Ensuring
<1> QED BY <1>1, GotoTyped DEF Ensure, Inv, TypeOK

LEMMA OpenTopicKeepsInv ==
    ASSUME Inv, NEW t \in Publisher, OpenTopic(t)
    PROVE  Inv'
<1>1. t \in Thread
  BY DEF Thread, Publisher
<1>2. CASE /\ topicCached' = TRUE
           /\ Goto(t, "sending") /\ NoFault /\ UNCHANGED resume
  <2>1. /\ at' \in [Thread -> Place] /\ at'[t] = "sending"
        /\ \A u \in Thread \ {t} : at'[u] = at[u]
    BY <1>1, <1>2, GotoTyped DEF Inv, Place, Busy
  <2>2. TypeOK'
    BY <1>2, <2>1, FaultsBounded DEF OpenTopic, Inv, TypeOK, cloud, held
  <2>3. HoldInv'
    BY <1>1, <1>2, <2>1 DEF OpenTopic, Inv, HoldInv, Up, Thread, Publisher, Busy,
                           Ensuring, cloud, held
  <2> QED BY <2>2, <2>3 DEF Inv
<1>3. CASE Fault /\ Ensure(t, "opening") /\ UNCHANGED topicCached
  <2>1. TypeOK'
    BY <1>1, <1>3, Calls, EnsureStarts, FaultsBounded
       DEF OpenTopic, Inv, TypeOK, cloud, held
  <2>2. HoldInv'
    BY <1>1, <1>3, Calls, EnsureStarts
       DEF OpenTopic, Inv, HoldInv, Up, Thread, Publisher, Busy, Ensuring, cloud, held
  <2> QED BY <2>1, <2>2 DEF Inv
<1> QED BY <1>2, <1>3 DEF OpenTopic

LEMMA SendKeepsInv ==
    ASSUME Inv, NEW t \in Publisher, Send(t)
    PROVE  Inv'
<1>1. t \in Thread
  BY DEF Thread, Publisher
<1>2. CASE /\ (topicExists /\ NoFault) \/ Fault
           /\ IF faults' = faults THEN ToTopic(out[t])
                                  ELSE UNCHANGED <<accepted, backlog>>
           /\ out' = [out EXCEPT ![t] = NoMessage]
           /\ Goto(t, Caller(t)) /\ UNCHANGED resume
  <2>1. Caller(t) \in Place
    BY DEF Caller, Place, Busy
  <2>2. /\ at' \in [Thread -> Place] /\ at'[t] = Caller(t)
        /\ \A u \in Thread \ {t} : at'[u] = at[u]
    BY <1>1, <1>2, <2>1, GotoTyped DEF Inv
  <2>3. backlog \subseteq backlog'
    BY <1>2 DEF ToTopic
  <2>4. backlog' \subseteq Msg /\ accepted' \subseteq Msg
    BY <1>2 DEF Send, Up, ToTopic, Inv, TypeOK, HoldInv
  <2>5. TypeOK'
    BY <1>2, <2>2, <2>4, FaultsBounded DEF Send, Inv, TypeOK, maps
  <2>6. HoldInv'
    BY <1>1, <1>2, <2>2, <2>3
       DEF Send, Inv, HoldInv, Up, Caller, Thread, Publisher, Busy, Ensuring
  <2> QED BY <2>5, <2>6 DEF Inv
<1>3. CASE /\ ~topicExists
           /\ Ensure(t, "sending")
           /\ NoFault /\ UNCHANGED <<accepted, backlog, out>>
  <2>1. TypeOK'
    BY <1>1, <1>3, Calls, EnsureStarts, FaultsBounded DEF Send, Inv, TypeOK, maps
  <2>2. HoldInv'
    BY <1>1, <1>3, Calls, EnsureStarts
       DEF Send, Inv, HoldInv, Up, Thread, Publisher, Busy, Ensuring
  <2> QED BY <2>1, <2>2 DEF Inv
<1> QED BY <1>2, <1>3 DEF Send

(* Subscribe, Unsubscribe and the channel they use.                        *)
LEMMA SubscribeKeepsInv ==
    ASSUME Inv, NEW c \in Callback, Subscribe(c)
    PROVE  Inv'
<1>1. at' \in [Thread -> Place]
  BY DEF Subscribe, Inv, TypeOK, Place, Thread
<1>2. TypeOK'
  <2>1. /\ hasTask' = TRUE /\ newCb' = c /\ NoFault
        /\ UNCHANGED <<cloud, process, topicCached, hasClient, currentTask,
                       resume, out, cb, received, inHand, unsent, handled>>
    BY DEF Subscribe
  <2> QED BY <1>1, <2>1, FaultsBounded DEF Inv, TypeOK, cloud
<1>3. HoldInv'
  <2>1. at'["worker"] = "subscribing"
    BY DEF Subscribe, Inv, TypeOK, Thread
  <2>2. CASE hasTask
    <3>1. \A t \in {"receiver", "delivery"} : at'[t] = at[t]
      BY <2>2 DEF Subscribe, Inv, TypeOK, Thread
    <3> QED BY <2>1, <3>1 DEF Subscribe, Inv, HoldInv, Thread, Publisher,
                             Busy, Ensuring, cloud
  <2>3. CASE ~hasTask
    <3>1. at'["receiver"] = "open" /\ at'["delivery"] = "select"
      BY <2>3 DEF Subscribe, Inv, TypeOK, Thread
    <3> QED BY <2>1, <3>1 DEF Subscribe, Inv, HoldInv, Thread, Publisher,
                             Busy, Ensuring, cloud
  <2> QED BY <2>2, <2>3
<1> QED BY <1>2, <1>3 DEF Inv

LEMMA WorkerKeepsInv ==
    ASSUME Inv, Unsubscribe \/ PassCallback
    PROVE  Inv'
<1>1. \E pc \in {"subscribing", "idle"} :
          /\ at' \in [Thread -> Place] /\ at'["worker"] = pc
          /\ \A u \in Thread \ {"worker"} : at'[u] = at[u]
  BY GotoTyped DEF Unsubscribe, PassCallback, Inv, Place, Thread
<1>2. TypeOK'
  BY <1>1, FaultsBounded
     DEF Unsubscribe, PassCallback, Inv, TypeOK, cloud, maps
<1>3. HoldInv'
  BY <1>1 DEF Unsubscribe, PassCallback, Inv, HoldInv, Thread, Publisher,
             Busy, Ensuring, cloud
<1> QED BY <1>2, <1>3 DEF Inv

(* The receiving goroutine.                                                *)
LEMMA OpenKeepsInv ==
    ASSUME Inv, OpenSubscription \/ ReceiveFails
    PROVE  Inv'
<1>1. "receiver" \in Thread /\ "receive" \in Place
  BY DEF Thread, Place
<1>2. UNCHANGED <<cloud, process, maps, currentTask, held, unsent, handled>>
  BY DEF OpenSubscription, ReceiveFails
<1>3. CASE Goto("receiver", "receive") /\ NoFault /\ UNCHANGED resume
  <2>1. /\ at' \in [Thread -> Place] /\ at'["receiver"] = "receive"
        /\ \A u \in Thread \ {"receiver"} : at'[u] = at[u]
    BY <1>1, <1>3, GotoTyped DEF Inv
  <2>2. TypeOK'
    BY <1>2, <1>3, <2>1, FaultsBounded DEF Inv, TypeOK, cloud, maps, held
  <2>3. HoldInv'
    BY <1>2, <1>3, <2>1
       DEF Inv, HoldInv, Thread, Publisher, Busy, Ensuring, cloud, held
  <2> QED BY <2>2, <2>3 DEF Inv
<1>4. ASSUME NEW for \in {"open", "receive"}, Ensure("receiver", for),
             NoFault \/ Fault
      PROVE  Inv'
  <2>1. TypeOK'
    BY <1>1, <1>2, <1>4, Calls, EnsureStarts, FaultsBounded
       DEF Inv, TypeOK, cloud, maps, held
  <2>2. HoldInv'
    BY <1>1, <1>2, <1>4, Calls, EnsureStarts
       DEF Inv, HoldInv, Thread, Publisher, Busy, Ensuring, cloud, held
  <2> QED BY <2>1, <2>2 DEF Inv
<1> QED BY <1>3, <1>4 DEF OpenSubscription, ReceiveFails

LEMMA ReceiveKeepsInv ==
    ASSUME Inv, NEW m \in Msg, Receive(m)
    PROVE  Inv'
<1>1. /\ at' \in [Thread -> Place] /\ at'["receiver"] = "handover"
      /\ \A u \in Thread \ {"receiver"} : at'[u] = at[u]
  BY GotoTyped DEF Receive, Inv, Place, Thread
<1>2. TypeOK'
  BY <1>1, FaultsBounded DEF Receive, Inv, TypeOK, cloud, maps
<1>3. HoldInv'
  BY <1>1 DEF Receive, Up, Inv, HoldInv, Thread, Publisher, Busy, Ensuring,
             cloud
<1> QED BY <1>2, <1>3 DEF Inv

(* The delivering goroutine.                                               *)
LEMMA TakeKeepsInv ==
    ASSUME Inv, TakeCallback
    PROVE  Inv'
<1>1. /\ at' \in [Thread -> Place] /\ at'["delivery"] \in {"returned", "select"}
      /\ \A u \in Thread \ {"delivery"} : at'[u] = at[u]
  <2>1. CASE Goto("delivery", "returned")
    BY <2>1, GotoTyped DEF Inv, Place, Thread
  <2>2. CASE UNCHANGED at
    BY <2>2 DEF TakeCallback, Up, Inv, TypeOK
  <2> QED BY <2>1, <2>2 DEF TakeCallback
<1>2. cb' \in Callback \cup {NoCallback}
  BY DEF TakeCallback, Inv, TypeOK
<1>3. TypeOK'
  BY <1>1, <1>2, FaultsBounded DEF TakeCallback, Inv, TypeOK, cloud, maps
<1>4. HoldInv'
  BY <1>1 DEF TakeCallback, Inv, HoldInv, Thread, Publisher, Busy, Ensuring,
             cloud
<1> QED BY <1>3, <1>4 DEF Inv

LEMMA HandoverKeepsInv ==
    ASSUME Inv, Handover
    PROVE  Inv'
<1>1. /\ at' \in [Thread -> Place]
      /\ at'["receiver"] = "receive" /\ at'["delivery"] = "calling"
      /\ at'["worker"] = at["worker"]
  BY DEF Handover, Inv, TypeOK, Place, Busy, Thread
<1>2. received \in Msg
  BY DEF Handover, Up, Inv, HoldInv
<1>3. TypeOK'
  BY <1>1, <1>2, FaultsBounded DEF Handover, Inv, TypeOK, cloud, maps
<1>4. HoldInv'
  BY <1>1, <1>2 DEF Handover, Up, Inv, HoldInv, Thread, Publisher, Busy,
                   Ensuring, cloud
<1> QED BY <1>3, <1>4 DEF Inv

LEMMA ReturnKeepsInv ==
    ASSUME Inv, CallbackReturns
    PROVE  Inv'
<1>1. /\ at' \in [Thread -> Place] /\ at'["delivery"] = "acking"
      /\ \A u \in Thread \ {"delivery"} : at'[u] = at[u]
  BY GotoTyped DEF CallbackReturns, Inv, Place, Busy, Thread
<1>2. inHand \in Msg
  BY DEF CallbackReturns, Up, Busy, Inv, HoldInv
<1>3. TypeOK'
  BY <1>1, <1>2, FaultsBounded DEF CallbackReturns, Inv, TypeOK, cloud, maps, held
<1>4. HoldInv'
  BY <1>1, <1>2 DEF CallbackReturns, Up, Inv, HoldInv, Thread, Publisher,
                   Busy, Ensuring, cloud, held
<1> QED BY <1>3, <1>4 DEF Inv

LEMMA AckKeepsInv ==
    ASSUME Inv, Ack
    PROVE  Inv'
<1>1. /\ at' \in [Thread -> Place] /\ at'["delivery"] = "select"
      /\ \A u \in Thread \ {"delivery"} : at'[u] = at[u]
  BY GotoTyped DEF Ack, Inv, Place, Thread
<1>2. backlog' \subseteq backlog /\ backlog \ {inHand} \subseteq backlog'
  BY DEF Ack
<1>3. inHand \in handled
  BY DEF Ack, Up, Inv, HoldInv
<1>4. TypeOK'
  BY <1>1, <1>2, FaultsBounded DEF Ack, Inv, TypeOK, maps
<1>5. HoldInv'
  BY <1>1, <1>2, <1>3 DEF Ack, Up, Inv, HoldInv, Thread, Publisher, Busy,
                         Ensuring
<1> QED BY <1>4, <1>5 DEF Inv

(* Outside the process.                                                    *)
LEMMA CloudKeepsInv ==
    ASSUME Inv,
           \/ \E m \in Msg : PeerPublishes(m)
           \/ PeerCreatesTopic \/ SubscriptionLost \/ Restart
    PROVE  Inv'
<1> USE DEF Inv
<1>1. CASE \E m \in Msg : PeerPublishes(m)
  <2>1. PICK m \in Msg : PeerPublishes(m)
    BY <1>1
  <2>2. backlog' \subseteq Msg /\ accepted' \subseteq Msg /\ backlog \subseteq backlog'
    BY <2>1 DEF PeerPublishes, ToTopic, TypeOK
  <2>3. TypeOK'
    BY <2>1, <2>2, FaultsBounded DEF PeerPublishes, TypeOK, memory, maps, held
  <2>4. HoldInv'
    BY <2>1, <2>2 DEF PeerPublishes, HoldInv, memory, held
  <2> QED BY <2>3, <2>4
<1>2. CASE PeerCreatesTopic
  <2>1. TypeOK'
    BY <1>2, FaultsBounded DEF PeerCreatesTopic, TypeOK, memory, maps, held
  <2>2. HoldInv'
    BY <1>2 DEF PeerCreatesTopic, HoldInv, memory, held
  <2> QED BY <2>1, <2>2
<1>3. CASE SubscriptionLost
  <2>0. backlog' \subseteq Msg /\ subExists' \in BOOLEAN
    BY <1>3 DEF SubscriptionLost
  <2>1. TypeOK'
    BY <1>3, <2>0, FaultsBounded
       DEF SubscriptionLost, TypeOK, memory, maps, held
  <2>2. HoldInv'
    BY <1>3 DEF SubscriptionLost, HoldInv, memory, held
  <2> QED BY <2>1, <2>2
<1>4. CASE Restart
  <2>1. TypeOK'
    BY <1>4, FaultsBounded DEF Restart, TypeOK, cloud, maps, held
  <2>2. HoldInv'
    BY <1>4 DEF Restart, HoldInv, cloud, held
  <2> QED BY <2>1, <2>2
<1> QED BY <1>1, <1>2, <1>3, <1>4

LEMMA EndKeepsInv ==
    ASSUME Inv,
           NilCallbackPanic \/ Crash \/ ConcurrentMapWrites
    PROVE  Inv'
<1>1. topicExists \in BOOLEAN /\ subExists \in BOOLEAN
  BY DEF Inv, TypeOK
<1> QED BY <1>1, StopKeepsInv
        DEF NilCallbackPanic, Crash, ConcurrentMapWrites, cloud

LEMMA NextKeepsInv == ASSUME Inv, [Next]_vars PROVE Inv'
<1>1. CASE UNCHANGED vars
  BY <1>1 DEF Inv, TypeOK, HoldInv, vars
<1>2. CASE Next
  BY <1>2, EnsureKeepsInv, PublishKeepsInv, OpenTopicKeepsInv, SendKeepsInv,
     SubscribeKeepsInv, WorkerKeepsInv, OpenKeepsInv, ReceiveKeepsInv,
     TakeKeepsInv, HandoverKeepsInv, ReturnKeepsInv, AckKeepsInv,
     CloudKeepsInv, EndKeepsInv
     DEF Next, WorkerStep, ReceiverStep, DeliveryStep, Publisher
<1> QED BY <1>1, <1>2

(* The goroutines of the datasource only hold messages they have yet to    *)
(* handle or to ack, in every state.                                       *)
THEOREM InvCorrect == Spec => []Inv
BY InitInv, NextKeepsInv, PTL DEF Spec

(* Type correctness of the datasource.                                     *)
THEOREM PubSubTypeCorrect == Spec => []TypeOK
<1>1. Inv => TypeOK
  BY DEF Inv
<1> QED BY <1>1, InvCorrect, PTL

-----------------------------------------------------------------------------
(* Each step is one of the queue, or one that the queue does not see.      *)
LEMMA StepRefines ==
    ASSUME Inv, [Next]_vars
    PROVE  [Queue!Next]_<<backlog, handled>>
<1> DEFINE Quiet == UNCHANGED <<backlog, handled>>
<1>1. CASE UNCHANGED vars
  BY <1>1 DEF vars
<1>2. ASSUME NEW t \in Thread, EnsureStep(t) PROVE Quiet
  BY <1>2 DEF EnsureStep, CheckTopic, CreateTopic, CheckSub, CreateSub, cloud
<1>3. ASSUME NEW t \in Publisher, OpenTopic(t) PROVE Quiet
  BY <1>3 DEF OpenTopic, cloud
<1>4. ASSUME NEW t \in Publisher, Send(t) PROVE [Queue!Next]_<<backlog, handled>>
  <2>1. out[t] \in Msg
    BY <1>4 DEF Send, Up, Inv, HoldInv
  <2>2. UNCHANGED handled /\ backlog' \in {backlog, backlog \cup {out[t]}}
    BY <1>4 DEF Send, ToTopic
  <2> QED BY <2>1, <2>2 DEF Queue!Next, Queue!Arrives
<1>5. ASSUME NEW m \in Msg, PeerPublishes(m)
      PROVE  [Queue!Next]_<<backlog, handled>>
  BY <1>5 DEF PeerPublishes, ToTopic, Queue!Next, Queue!Arrives
<1>6. CASE CallbackReturns
  <2>1. inHand \in Msg /\ inHand \in backlog \cup handled
    BY <1>6, PubSubAssumption DEF CallbackReturns, Up, Busy, Inv, HoldInv
  <2> QED BY <1>6, <2>1 DEF CallbackReturns, cloud, Queue!Next, Queue!Handle
<1>7. CASE Ack
  <2>1. inHand \in Msg /\ inHand \in handled
    BY <1>7 DEF Ack, Up, Busy, Inv, HoldInv
  <2> QED BY <1>7, <2>1 DEF Ack, Queue!Next, Queue!Acked
<1>8. CASE SubscriptionLost
  BY <1>8 DEF SubscriptionLost, Queue!Next, Queue!Dropped
<1>9. ASSUME \/ \E c \in Callback : Subscribe(c)
             \/ Unsubscribe \/ PassCallback
             \/ \E t \in Publisher, m \in Msg : Publish(t, m)
             \/ ReceiverStep \/ \E m \in Msg : Receive(m)
             \/ TakeCallback \/ Handover \/ NilCallbackPanic
             \/ PeerCreatesTopic \/ Crash \/ ConcurrentMapWrites \/ Restart
      PROVE  Quiet
  BY <1>9 DEF Subscribe, Unsubscribe, PassCallback, Publish, ReceiverStep,
     OpenSubscription, ReceiveFails, Receive, TakeCallback, Handover,
     NilCallbackPanic, PeerCreatesTopic, Crash, ConcurrentMapWrites, Restart,
     cloud
<1> QED
  BY <1>1, <1>2, <1>3, <1>4, <1>5, <1>6, <1>7, <1>8, <1>9
     DEF Next, WorkerStep, DeliveryStep, Publisher

(* Every behaviour of the goroutines, the callers and the service, with    *)
(* crashes, lost acks and subscriptions, is a behaviour of a queue that    *)
(* forgets a message only after it was handled.                            *)
THEOREM QueueImplemented == Spec => QueueSpec
<1>1. Init => Queue!Init
  BY DEF Init, Queue!Init
<1> QED
  BY <1>1, StepRefines, InvCorrect, PTL DEF Spec, QueueSpec, Queue!Spec
=============================================================================
