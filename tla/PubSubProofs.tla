---------------------------- MODULE PubSubProofs ----------------------------
(***************************************************************************)
(* Proofs about PubSub: for any clients, channels and number of commands   *)
(* the subscription maps agree, no connection sleeps beside a frame, and   *)
(* answers and messages are sent in the order they were produced in.       *)
(***************************************************************************)
EXTENDS PubSub, TLAPS

(* NoLostWakeup over all the places of a connection from which it reaches     *)
(* poll without emptying its queue.                                           *)
WakeupPending ==
  \A c \in Clients :
    conn[c].pc \notin {"drain", "unregister", "closed"} /\ pending_frames[c] # <<>>
      => notified[c] \/ holding = c

(* There is a frame while there is someone to get it. *)
FrameReady == recipients # {} => frame \in Items

PInv == TypeOK /\ SubscriptionsAgree /\ WakeupPending /\ FrameReady

-----------------------------------------------------------------------------
(* The task at the head of the queue. *)
LEMMA HeadTask ==
  ASSUME TypeOK, NEW c \in Clients, NEW op, Take(c, op)
  PROVE  /\ Head(tasks) \in Task
         /\ tasks' \in Seq(Task)
         /\ Head(tasks).cmd \in Command \cup Registration
         /\ Head(tasks).cmd.op = op
         /\ Head(tasks).n \in Nat
<1>1. Head(tasks) \in Task /\ tasks' \in Seq(Task)
  BY DEF TypeOK, Take
<1> QED
  BY <1>1 DEF Take, Task

(* What a task produces leaves the types and the wake-ups alone. *)
LEMMA ProduceInv ==
  ASSUME TypeOK, WakeupPending, NEW c \in Clients, NEW to \in SUBSET Clients,
         NEW f, NEW r \in Replies,
         f \in Items \/ (f = NoResponse /\ to = {}),
         tasks' \in Seq(Task),
         registered' \in SUBSET Clients,
         client_subscriptions' \in [Clients -> SUBSET Channels],
         channel_subscribers' \in [Channels -> SUBSET Clients],
         Produce(c, to, f, r)
  PROVE  TypeOK' /\ WakeupPending' /\ FrameReady'
<1>1. TypeOK'
  BY ZenonT(20) DEF TypeOK, Produce, sessions, connections
<1>2. WakeupPending'
  BY DEF WakeupPending, Produce, sessions, connections
<1>3. FrameReady'
  BY DEF FrameReady, Produce
<1> QED
  BY <1>1, <1>2, <1>3

(* The same for an answer that takes the way of the client's messages. *)
LEMMA ProduceQueuedInv ==
  ASSUME TypeOK, WakeupPending, NEW c \in Clients,
         NEW kind \in {"reply", "error", "subscribe", "unsubscribe"}, NEW n \in Nat,
         tasks' \in Seq(Task),
         registered' \in SUBSET Clients,
         client_subscriptions' \in [Clients -> SUBSET Channels],
         channel_subscribers' \in [Channels -> SUBSET Clients],
         ProduceQueued(c, Item(kind, n))
  PROVE  TypeOK' /\ WakeupPending' /\ FrameReady'
<1> DEFINE to == {c} \cap registered
           r == IF c \in registered THEN NoResponse ELSE Item("error", Item(kind, n).n)
<1>1. Item(kind, n) \in Items /\ r \in Replies /\ to \in SUBSET Clients
  BY DEF Item, Items, Replies, TypeOK
<1>2. Produce(c, to, Item(kind, n), r)
  BY DEF ProduceQueued
<1> HIDE DEF to, r
<1> QED
  BY <1>1, <1>2, ProduceInv

(* Dropping the subscriptions of a client to some channels keeps the maps in step. *)
LEMMA RemoveInv ==
  ASSUME TypeOK, SubscriptionsAgree, NEW c \in Clients, NEW chs \in SUBSET Channels,
         remove_subscriptions(c, chs)
  PROVE  /\ client_subscriptions' \in [Clients -> SUBSET Channels]
         /\ channel_subscribers' \in [Channels -> SUBSET Clients]
         /\ \A d \in Clients, ch \in Channels :
              /\ d \in channel_subscribers'[ch] <=> ch \in client_subscriptions'[d]
              /\ d \in channel_subscribers'[ch] => d \in registered
              /\ d = c /\ ch \in chs => d \notin channel_subscribers'[ch]
  BY DEF TypeOK, SubscriptionsAgree, remove_subscriptions

-----------------------------------------------------------------------------
(* Every step of the worker keeps the invariant. *)
LEMMA ProcessInv ==
  ASSUME PInv, NEW c \in Clients, Process(c)
  PROVE  PInv'
<1> USE DEF PInv
<1>1. CASE process_client_registration(c)
  <2>1. tasks' \in Seq(Task)
    BY <1>1, HeadTask DEF process_client_registration
  <2>2. /\ registered' \in SUBSET Clients
        /\ client_subscriptions' = client_subscriptions
        /\ channel_subscribers' = channel_subscribers
        /\ registered \subseteq registered'
        /\ Produce(c, {}, NoResponse, Done)
    BY <1>1 DEF process_client_registration, TypeOK
  <2>3. TypeOK' /\ WakeupPending' /\ FrameReady'
    BY <2>1, <2>2, ProduceInv, Zenon DEF Replies, TypeOK
  <2>4. SubscriptionsAgree'
    BY <2>2 DEF SubscriptionsAgree
  <2> QED
    BY <2>3, <2>4
<1>2. CASE process_client_unregistration(c)
  <2>1. tasks' \in Seq(Task)
    BY <1>2, HeadTask DEF process_client_unregistration
  <2>2. client_subscriptions[c] \in SUBSET Channels
    BY DEF TypeOK
  <2>3. /\ remove_subscriptions(c, client_subscriptions[c])
        /\ registered' = registered \ {c}
        /\ Produce(c, {}, NoResponse, Done)
    BY <1>2 DEF process_client_unregistration
  <2>4. /\ client_subscriptions' \in [Clients -> SUBSET Channels]
        /\ channel_subscribers' \in [Channels -> SUBSET Clients]
        /\ \A d \in Clients, ch \in Channels :
             /\ d \in channel_subscribers'[ch] <=> ch \in client_subscriptions'[d]
             /\ d \in channel_subscribers'[ch] => d \in registered
             /\ d = c /\ ch \in client_subscriptions[c] => d \notin channel_subscribers'[ch]
    BY <2>2, <2>3, RemoveInv
  <2>5. registered' \in SUBSET Clients
    BY <2>3 DEF TypeOK
  <2>6. TypeOK' /\ WakeupPending' /\ FrameReady'
    BY <2>1, <2>3, <2>4, <2>5, ProduceInv, ZenonT(20) DEF Replies
  <2>7. \A ch \in Channels : c \notin channel_subscribers'[ch]
    BY <2>3, <2>4 DEF remove_subscriptions, TypeOK
  <2>8. SubscriptionsAgree'
    BY <2>3, <2>4, <2>7 DEF SubscriptionsAgree
  <2> QED
    BY <2>6, <2>8
<1>3. CASE RefuseWhileSubscribed(c)
  <2>1. tasks' \in Seq(Task) /\ Head(tasks).n \in Nat
    BY <1>3, HeadTask DEF RefuseWhileSubscribed
  <2>2. /\ ProduceQueued(c, Item("error", Head(tasks).n))
        /\ registered' = registered
        /\ client_subscriptions' = client_subscriptions
        /\ channel_subscribers' = channel_subscribers
    BY <1>3 DEF RefuseWhileSubscribed, maps
  <2>3. TypeOK' /\ WakeupPending' /\ FrameReady'
    BY <2>1, <2>2, ProduceQueuedInv, Zenon DEF TypeOK
  <2>4. SubscriptionsAgree'
    BY <2>2 DEF SubscriptionsAgree
  <2> QED
    BY <2>3, <2>4
<1>4. CASE subscribe(c)
  <2> DEFINE chs == IF c \in registered THEN Head(tasks).cmd.channels ELSE {}
  <2>1. /\ tasks' \in Seq(Task) /\ Head(tasks).n \in Nat
        /\ Head(tasks).cmd \in Command \cup Registration
        /\ Head(tasks).cmd.op = "SUBSCRIBE"
    BY <1>4, HeadTask, ZenonT(20) DEF subscribe
  <2>2. chs \in SUBSET Channels
    BY <2>1 DEF Command, Registration
  <2>3. /\ client_subscriptions' = [client_subscriptions EXCEPT ![c] = @ \cup chs]
        /\ channel_subscribers' = [ch \in Channels |->
                                     IF ch \in chs THEN channel_subscribers[ch] \cup {c}
                                     ELSE channel_subscribers[ch]]
        /\ registered' = registered
        /\ ProduceQueued(c, Item("subscribe", Head(tasks).n))
    BY <1>4, ZenonT(20) DEF subscribe
  <2>4. chs # {} => c \in registered
    OBVIOUS
  <2> HIDE DEF chs
  <2>5. /\ client_subscriptions' \in [Clients -> SUBSET Channels]
        /\ channel_subscribers' \in [Channels -> SUBSET Clients]
        /\ registered' \in SUBSET Clients
    BY <2>2, <2>3 DEF TypeOK
  <2>6. TypeOK' /\ WakeupPending' /\ FrameReady'
    BY <2>1, <2>3, <2>5, ProduceQueuedInv, ZenonT(20)
  <2>7. SubscriptionsAgree'
    BY <2>2, <2>3, <2>4 DEF SubscriptionsAgree, TypeOK
  <2> QED
    BY <2>6, <2>7
<1>5. CASE unsubscribe(c)
  <2> DEFINE chs == IF c \notin registered THEN {}
                    ELSE IF Head(tasks).cmd.channels = {} THEN client_subscriptions[c]
                    ELSE Head(tasks).cmd.channels
  <2>1. /\ tasks' \in Seq(Task) /\ Head(tasks).n \in Nat
        /\ Head(tasks).cmd \in Command \cup Registration
        /\ Head(tasks).cmd.op = "UNSUBSCRIBE"
    BY <1>5, HeadTask, ZenonT(20) DEF unsubscribe
  <2>2. chs \in SUBSET Channels
    BY <2>1, ZenonT(20) DEF Command, Registration, TypeOK
  <2>3. /\ remove_subscriptions(c, chs)
        /\ registered' = registered
        /\ ProduceQueued(c, Item("unsubscribe", Head(tasks).n))
    BY <1>5, ZenonT(20) DEF unsubscribe
  <2> HIDE DEF chs
  <2>4. /\ client_subscriptions' \in [Clients -> SUBSET Channels]
        /\ channel_subscribers' \in [Channels -> SUBSET Clients]
        /\ \A d \in Clients, ch \in Channels :
             /\ d \in channel_subscribers'[ch] <=> ch \in client_subscriptions'[d]
             /\ d \in channel_subscribers'[ch] => d \in registered
    BY <2>2, <2>3, RemoveInv
  <2>5. TypeOK' /\ WakeupPending' /\ FrameReady'
    BY <2>1, <2>3, <2>4, ProduceQueuedInv, Zenon DEF TypeOK
  <2>6. SubscriptionsAgree'
    BY <2>3, <2>4 DEF SubscriptionsAgree
  <2> QED
    BY <2>5, <2>6
<1>6. CASE publish(c)
  <2> DEFINE ch == Head(tasks).cmd.channel
             gone == channel_subscribers[ch] \ registered
             n == Head(tasks).n
             to == channel_subscribers[ch] \cap registered
  <2>1. /\ tasks' \in Seq(Task) /\ n \in Nat
        /\ Head(tasks).cmd \in Command \cup Registration
        /\ Head(tasks).cmd.op = "PUBLISH"
    BY <1>6, HeadTask, ZenonT(20) DEF publish
  <2>2. ch \in Channels
    BY <2>1 DEF Command, Registration
  <2>3. gone = {} /\ to \in SUBSET Clients
    BY <2>2, ZenonT(20) DEF SubscriptionsAgree, TypeOK
  <2>4. /\ channel_subscribers' = [channel_subscribers EXCEPT ![ch] = @ \ gone]
        /\ client_subscriptions' = [s \in Clients |->
                                      IF s \in gone THEN client_subscriptions[s] \ {ch}
                                      ELSE client_subscriptions[s]]
        /\ Produce(c, to, Item("message", n), Item("reply", n))
        /\ registered' = registered
    BY <1>6, ZenonT(20) DEF publish
  <2> HIDE DEF ch, gone, n, to
  <2>5. channel_subscribers' = channel_subscribers /\ client_subscriptions' = client_subscriptions
    BY <2>2, <2>3, <2>4, ZenonT(20) DEF TypeOK
  <2>6. Item("message", n) \in Items /\ Item("reply", n) \in Replies
    BY <2>1 DEF Item, Items, Replies
  <2>7. TypeOK' /\ WakeupPending' /\ FrameReady'
    BY <2>1, <2>3, <2>4, <2>5, <2>6, ProduceInv, Zenon DEF TypeOK
  <2>8. SubscriptionsAgree'
    BY <2>4, <2>5 DEF SubscriptionsAgree
  <2> QED
    BY <2>7, <2>8, SMTT(30)
<1>7. CASE AnswerPlain(c)
  <2> DEFINE item == Item("reply", Head(tasks).n)
  <2>1. tasks' \in Seq(Task) /\ Head(tasks).n \in Nat
    BY <1>7, HeadTask DEF AnswerPlain
  <2>2. /\ ProduceQueued(c, item) \/ Produce(c, {}, NoResponse, item)
        /\ registered' = registered
        /\ client_subscriptions' = client_subscriptions
        /\ channel_subscribers' = channel_subscribers
    BY <1>7 DEF AnswerPlain, maps
  <2>3. item \in Replies
    BY <2>1 DEF Item, Items, Replies
  <2>4. TypeOK' /\ WakeupPending' /\ FrameReady'
    <3>1. CASE ProduceQueued(c, item)
      BY <2>1, <2>2, <3>1, ProduceQueuedInv, Zenon DEF TypeOK
    <3>2. CASE Produce(c, {}, NoResponse, item)
      <4> HIDE DEF item
      <4> QED
        BY <2>1, <2>2, <2>3, <3>2, ProduceInv, Zenon DEF TypeOK
    <3> QED
      BY <2>2, <3>1, <3>2
  <2>5. SubscriptionsAgree'
    BY <2>2 DEF SubscriptionsAgree
  <2> QED
    BY <2>4, <2>5
<1>8. CASE EnqueueFrame(c)
  <2> USE <1>8 DEF EnqueueFrame, maps, connections
  <2>1. frame \in Items
    BY DEF FrameReady
  <2>2. TypeOK'
    BY <2>1 DEF TypeOK
  <2>3. SubscriptionsAgree' /\ FrameReady'
    BY <2>1, ZenonT(20) DEF SubscriptionsAgree, FrameReady
  <2>4. WakeupPending'
    BY PubSubAssumption DEF WakeupPending, TypeOK, notification_needed
  <2> QED
    BY <2>2, <2>3, <2>4, ZenonT(20)
<1>9. CASE Notify(c)
  <2> USE <1>9 DEF Notify, maps, connections
  <2>1. TypeOK'
    BY ZenonT(20) DEF TypeOK
  <2>2. SubscriptionsAgree' /\ FrameReady'
    BY DEF SubscriptionsAgree, FrameReady
  <2>3. WakeupPending'
    BY ZenonT(20) DEF WakeupPending, TypeOK
  <2> QED
    BY <2>1, <2>2, <2>3
<1> QED
  BY <1>1, <1>2, <1>3, <1>4, <1>5, <1>6, <1>7, <1>8, <1>9, ZenonT(20) DEF Process

(* The worker sets the promise of the task. *)
LEMMA CompleteInv ==
  ASSUME PInv, Complete
  PROVE  PInv'
<1> USE DEF PInv, Complete, maps, sessions
<1>1. TypeOK'
  BY ZenonT(20) DEF TypeOK
<1>2. SubscriptionsAgree' /\ FrameReady'
  BY DEF SubscriptionsAgree, FrameReady
<1>3. WakeupPending'
  BY DEF WakeupPending
<1> QED
  BY <1>1, <1>2, <1>3

(* A task that a connection adds to the queue. *)
LEMMA SubmitType ==
  ASSUME TypeOK, NEW c \in Clients, NEW cmd \in Command \cup Registration,
         submitted' \in Nat, SubmitTask(c, cmd)
  PROVE  tasks' \in Seq(Task)
<1>1. [client |-> c, cmd |-> cmd, n |-> submitted'] \in Task
  BY DEF Task
<1> QED
  BY <1>1 DEF SubmitTask, TypeOK

Places == {"new", "register", "poll", "input", "wait", "clear", "drain", "unregister", "closed"}

(* A connection goes to a place, or to a place and from there to a next one. *)
MovesTo(c, place, next) ==
  \/ conn' = [conn EXCEPT ![c].pc = place]
  \/ conn' = [conn EXCEPT ![c] = [pc |-> place, then |-> next]]

(* The state of the connections after one of them moved to another place. *)
LEMMA Moved ==
  ASSUME TypeOK,
         NEW c \in Clients, NEW place \in Places, NEW next \in {"poll", "input"},
         MovesTo(c, place, next)
  PROVE  /\ conn' \in [Clients -> [pc: Places, then: {"poll", "input"}]]
         /\ conn'[c].pc = place
         /\ \A d \in Clients \ {c} : conn'[d] = conn[d]
<1>1. conn \in [Clients -> [pc: Places, then: {"poll", "input"}]]
  BY DEF TypeOK, Places
<1>2. CASE conn' = [conn EXCEPT ![c].pc = place]
  BY <1>1, <1>2
<1>3. CASE conn' = [conn EXCEPT ![c] = [pc |-> place, then |-> next]]
  BY <1>1, <1>3
<1> QED
  BY <1>2, <1>3, Zenon DEF MovesTo

(* A connection that moves keeps the invariant unless it comes from a place    *)
(* where its queue was being emptied with a frame left in it.                  *)
LEMMA MoveInv ==
  ASSUME PInv, NEW c \in Clients, NEW place \in Places, NEW next \in {"poll", "input"},
         MovesTo(c, place, next),
         UNCHANGED <<maps, worker>>,
         tasks' \in Seq(Task), submitted' \in Nat,
         response' \in [Clients -> Replies \cup {Unset}],
         pending_frames' \in [Clients -> Seq(Items)],
         notified' \in [Clients -> BOOLEAN],
         \A d \in Clients \ {c} : /\ pending_frames'[d] = pending_frames[d]
                                  /\ notified'[d] = notified[d],
         \/ place \in {"drain", "unregister", "closed"}
         \/ pending_frames'[c] = <<>>
         \/ /\ conn[c].pc \notin {"drain", "unregister", "closed"}
            /\ UNCHANGED <<pending_frames, notified>>
  PROVE  PInv'
<1> USE DEF maps, worker
<1>1. TypeOK
  BY Zenon DEF PInv
<1>2. /\ conn' \in [Clients -> [pc: Places, then: {"poll", "input"}]]
      /\ conn'[c].pc = place
      /\ \A d \in Clients \ {c} : conn'[d] = conn[d]
  BY <1>1, Moved
<1>3. TypeOK'
  BY <1>2, Zenon DEF PInv, TypeOK, Places
<1>4. SubscriptionsAgree' /\ FrameReady'
  BY Zenon DEF PInv, SubscriptionsAgree, FrameReady
<1>5. WakeupPending'
  <2> SUFFICES ASSUME NEW d \in Clients,
                      conn'[d].pc \notin {"drain", "unregister", "closed"},
                      pending_frames'[d] # <<>>
               PROVE  notified'[d] \/ holding = d
    BY Zenon DEF WakeupPending
  <2>1. CASE d = c
    BY <1>2, <2>1, Zenon DEF PInv, WakeupPending
  <2>2. CASE d # c
    BY <1>2, <2>2, Zenon DEF PInv, WakeupPending
  <2> QED
    BY <2>1, <2>2, Zenon
<1> QED
  BY <1>3, <1>4, <1>5, Zenon DEF PInv

(* Every step of a connection keeps the invariant.  Only the steps between    *)
(* "drain" and "poll" matter for the wake-ups: the queue is empty there.      *)
LEMMA ConnectionInv ==
  ASSUME PInv, NEW c \in Clients,
         ConnectionStep(c) \/ Register(c) \/ Submit(c) \/ Disconnect(c)
  PROVE  PInv'
<1> USE DEF sessions, At, GoTo
<1>1. /\ tasks \in Seq(Task) /\ submitted \in Nat
      /\ response \in [Clients -> Replies \cup {Unset}]
      /\ pending_frames \in [Clients -> Seq(Items)]
      /\ notified \in [Clients -> BOOLEAN]
      /\ conn[c].then \in {"poll", "input"}
  BY DEF PInv, TypeOK
<1>2. /\ [response EXCEPT ![c] = Unset] \in [Clients -> Replies \cup {Unset}]
      /\ [notified EXCEPT ![c] = FALSE] \in [Clients -> BOOLEAN]
      /\ \A d \in Clients \ {c} : [notified EXCEPT ![c] = FALSE][d] = notified[d]
  BY <1>1
<1>3. {"new", "register", "poll", "input", "wait", "clear", "drain", "unregister", "closed"}
        = Places
  BY DEF Places
<1>4. CASE Register(c)
  <2>1. tasks' \in Seq(Task)
    BY <1>4, SubmitType, ZenonT(20) DEF Register, Registration, PInv, TypeOK
  <2>2. /\ conn[c].pc = "new" /\ conn' = [conn EXCEPT ![c].pc = "register"]
        /\ UNCHANGED <<maps, worker, pending_frames, notified, response, submitted>>
    BY <1>4 DEF Register
  <2>3. conn[c].pc \notin {"drain", "unregister", "closed"}
    BY <2>2
  <2> QED
    BY <1>1, <1>3, <2>1, <2>2, <2>3, MoveInv, Zenon DEF MovesTo
<1>5. CASE Submit(c)
  <2>1. tasks' \in Seq(Task) /\ submitted' \in Nat
    BY <1>1, <1>5, SubmitType DEF Submit, PInv
  <2>2. /\ conn[c].pc = "input" /\ conn' = [conn EXCEPT ![c].pc = "wait"]
        /\ UNCHANGED <<maps, worker, pending_frames, notified, response>>
    BY <1>5 DEF Submit
  <2>3. conn[c].pc \notin {"drain", "unregister", "closed"}
    BY <2>2
  <2> QED
    BY <1>1, <1>3, <2>1, <2>2, <2>3, MoveInv, Zenon DEF MovesTo
<1>6. CASE Disconnect(c)
  <2>1. tasks' \in Seq(Task)
    BY <1>6, SubmitType, ZenonT(20) DEF Disconnect, Registration, PInv, TypeOK
  <2>2. /\ conn' = [conn EXCEPT ![c].pc = "unregister"]
        /\ response' = [response EXCEPT ![c] = Unset]
        /\ UNCHANGED <<maps, worker, pending_frames, notified, submitted>>
    BY <1>6, ZenonT(20) DEF Disconnect
  <2> QED
    BY <1>1, <1>2, <1>3, <2>1, <2>2, MoveInv, Zenon DEF MovesTo
<1>7. CASE Registered(c)
  <2>1. /\ conn[c].pc = "register" /\ conn' = [conn EXCEPT ![c].pc = "poll"]
        /\ response' = [response EXCEPT ![c] = Unset]
        /\ UNCHANGED <<maps, worker, tasks, pending_frames, notified, submitted>>
    BY <1>7 DEF Registered
  <2>2. conn[c].pc \notin {"drain", "unregister", "closed"}
    BY <2>1
  <2> QED
    BY <1>1, <1>2, <1>3, <2>1, <2>2, MoveInv, Zenon DEF MovesTo
<1>8. CASE Poll(c)
  <2>1. /\ conn[c].pc = "poll"
        /\ UNCHANGED <<maps, worker, tasks, pending_frames, notified, response, submitted>>
    BY <1>8 DEF Poll
  <2>2. PICK place \in {"clear", "input"}, next \in {"poll", "input"} :
          conn' = [conn EXCEPT ![c] = [pc |-> place, then |-> next]]
    BY <1>8, Zenon DEF Poll
  <2>3. conn[c].pc \notin {"drain", "unregister", "closed"} /\ place \in Places
    BY <2>1, <2>2, <1>3
  <2> QED
    BY <1>1, <2>1, <2>2, <2>3, MoveInv, Zenon DEF MovesTo
<1>9. CASE Incomplete(c)
  <2>1. /\ conn[c].pc = "input" /\ conn' = [conn EXCEPT ![c].pc = "poll"]
        /\ UNCHANGED <<maps, worker, tasks, pending_frames, notified, response, submitted>>
    BY <1>9 DEF Incomplete
  <2>2. conn[c].pc \notin {"drain", "unregister", "closed"}
    BY <2>1
  <2> QED
    BY <1>1, <1>3, <2>1, <2>2, MoveInv, Zenon DEF MovesTo
<1>10. CASE Answered(c)
  <2>1. /\ conn[c].pc = "wait"
        /\ response' = [response EXCEPT ![c] = Unset]
        /\ UNCHANGED <<maps, worker, tasks, pending_frames, notified, submitted>>
    BY <1>10 DEF Answered
  <2>2. \/ conn' = [conn EXCEPT ![c] = [pc |-> "clear", then |-> "input"]]
        \/ conn' = [conn EXCEPT ![c].pc = "input"]
    BY <1>10 DEF Answered
  <2>3. conn[c].pc \notin {"drain", "unregister", "closed"}
    BY <2>1
  <2> QED
    BY <1>1, <1>2, <1>3, <2>1, <2>2, <2>3, MoveInv, Zenon DEF MovesTo
<1>11. CASE clear_notification(c)
  <2>1. /\ conn' = [conn EXCEPT ![c].pc = "drain"]
        /\ notified' = [notified EXCEPT ![c] = FALSE]
        /\ UNCHANGED <<maps, worker, tasks, pending_frames, response, submitted>>
    BY <1>11 DEF clear_notification
  <2> QED
    BY <1>1, <1>2, <1>3, <2>1, MoveInv, Zenon DEF MovesTo
<1>12. CASE pop_frame(c)
  <2>1. /\ conn[c].pc = "drain"
        /\ UNCHANGED <<maps, worker, tasks, notified, response, submitted>>
    BY <1>12 DEF pop_frame
  <2>2. CASE pending_frames[c] = <<>>
    <3>1. conn' = [conn EXCEPT ![c].pc = conn[c].then] /\ UNCHANGED pending_frames
      BY <1>12, <2>2 DEF pop_frame
    <3>2. conn[c].then \in Places
      BY <1>1, <1>3
    <3> QED
      BY <1>1, <2>1, <2>2, <3>1, <3>2, MoveInv, Zenon DEF MovesTo
  <2>3. CASE pending_frames[c] # <<>>
    <3>1. pending_frames' = [pending_frames EXCEPT ![c] = Tail(@)] /\ UNCHANGED conn
      BY <1>12, <2>3 DEF pop_frame
    <3>2. /\ pending_frames' \in [Clients -> Seq(Items)]
          /\ \A d \in Clients \ {c} : pending_frames'[d] = pending_frames[d]
      BY <1>1, <2>3, <3>1
    <3>3. TypeOK'
      BY <2>1, <3>1, <3>2, Zenon DEF PInv, TypeOK, maps, worker
    <3>4. SubscriptionsAgree' /\ FrameReady'
      BY <2>1, Zenon DEF PInv, SubscriptionsAgree, FrameReady, maps, worker
    <3>5. WakeupPending'
      BY <2>1, <3>1, <3>2, ZenonT(20) DEF PInv, WakeupPending, worker
    <3> QED
      BY <3>3, <3>4, <3>5, Zenon DEF PInv
  <2> QED
    BY <2>2, <2>3, Zenon
<1>13. CASE Close(c)
  <2>1. /\ conn' = [conn EXCEPT ![c].pc = "closed"]
        /\ response' = [response EXCEPT ![c] = Unset]
        /\ notified' = [notified EXCEPT ![c] = FALSE]
        /\ pending_frames' = [pending_frames EXCEPT ![c] = <<>>]
        /\ UNCHANGED <<maps, worker, tasks, submitted>>
    BY <1>13 DEF Close
  <2>2. /\ pending_frames' \in [Clients -> Seq(Items)]
        /\ \A d \in Clients \ {c} : pending_frames'[d] = pending_frames[d]
    BY <1>1, <2>1
  <2> QED
    BY <1>1, <1>2, <1>3, <2>1, <2>2, MoveInv, Zenon DEF MovesTo
<1> QED
  BY <1>4, <1>5, <1>6, <1>7, <1>8, <1>9, <1>10, <1>11, <1>12, <1>13, Zenon DEF ConnectionStep

-----------------------------------------------------------------------------
(* The invariant holds in every reachable state of the worker, the sessions    *)
(* and the connections.                                                        *)
THEOREM PubSubInvariance == Spec => []PInv
<1>1. Init => PInv
  BY PubSubAssumption
     DEF Init, PInv, TypeOK, SubscriptionsAgree, WakeupPending, FrameReady, Replies
<1>2. PInv /\ [Next]_vars => PInv'
  <2> SUFFICES ASSUME PInv, [Next]_vars PROVE PInv'
    OBVIOUS
  <2>1. CASE WorkerStep
    BY <2>1, ProcessInv, CompleteInv DEF WorkerStep
  <2>2. CASE \E c \in Clients : ConnectionStep(c) \/ Register(c) \/ Submit(c) \/ Disconnect(c)
    BY <2>2, ConnectionInv
  <2>3. CASE UNCHANGED vars
    BY <2>3, ZenonT(20) DEF vars, maps, worker, sessions, connections, PInv, TypeOK, SubscriptionsAgree,
                WakeupPending, FrameReady
  <2> QED
    BY <2>1, <2>2, <2>3 DEF Next
<1> QED
  BY <1>1, <1>2, PTL DEF Spec

(* The subscription maps of the processor agree and hold only clients that are *)
(* registered, however clients subscribe, publish and disconnect.              *)
THEOREM MapsAgree == Spec => []SubscriptionsAgree
<1>1. PInv => SubscriptionsAgree
  BY DEF PInv
<1> QED
  BY <1>1, PubSubInvariance, PTL

(* No connection sleeps in poll beside a frame, however the two steps of       *)
(* enqueue interleave with clear_notification and pop_frame.                   *)
THEOREM WakeupNotLost == Spec => []NoLostWakeup
<1>1. PInv => NoLostWakeup
  BY DEF PInv, WakeupPending, NoLostWakeup
<1> QED
  BY <1>1, PubSubInvariance, PTL

-----------------------------------------------------------------------------
(* The order of answers and messages *)

(* Where a connection waits for a task.                                       *)
WaitsAt(op) ==
  CASE op = "REGISTER" -> "register" [] op = "UNREGISTER" -> "unregister" [] OTHER -> "wait"

(* What the answer to a waiting connection may be.                            *)
Expects(c, r) ==
  \/ conn[c].pc = "wait" /\ r \in Items \cup {NoResponse}
  \/ conn[c].pc \in {"register", "unregister"} /\ r = Done

(* A connection has one task at a time: it is queued, ...                     *)
Queued ==
  \A i \in DOMAIN tasks :
    LET c == tasks[i].client IN
    /\ conn[c].pc = WaitsAt(tasks[i].cmd.op)
    /\ current # c /\ response[c] = Unset
    /\ \A j \in DOMAIN tasks : tasks[j].client = c => j = i

(* ... or is executed, ...                                                    *)
Executing == current # Nobody => Expects(current, reply) /\ response[current] = Unset

(* ... or is answered.                                                        *)
Answers == \A c \in Clients : response[c] # Unset => Expects(c, response[c])

(* Frames go to subscribers, or are the answer to the client itself.          *)
Recipients == \A c \in recipients : is_subscribed(c) \/ (current = c /\ reply = NoResponse)

(* A client without subscriptions has frames only while it is told so or      *)
(* empties its queue.                                                         *)
Emptied ==
  \A c \in Clients :
    /\ conn[c].pc \notin {"clear", "drain", "unregister", "closed"}
    /\ ~is_subscribed(c) /\ pending_frames[c] # <<>>
    => (current = c /\ reply = NoResponse) \/ response[c] = NoResponse

(* Only a client without subscriptions is answered by promise.                *)
ByPromise ==
  \A c \in Clients :
    (current = c /\ reply \in Items) \/ response[c] \in Items => ~is_subscribed(c)

(* A client is owed its frames, or an answer by promise.                      *)
InOrder ==
  /\ owed \in [Clients -> Seq(Items)]
  /\ \A c \in Clients : conn[c].pc \notin {"unregister", "closed"} =>
       owed[c] = IF response[c] \in Items THEN <<response[c]>> ELSE pending_frames[c]

DInv == /\ PInv /\ Queued /\ Executing /\ Answers /\ Recipients
        /\ Emptied /\ ByPromise /\ InOrder

(* An answer that is not an item.                                             *)
LEMMA NotItems == NoResponse \notin Items /\ Done \notin Items /\ Unset \notin Items
                  /\ NoResponse # Unset /\ NoResponse # Done /\ Done # Unset
BY DEF NoResponse, Done, Unset, Items

(* The client of the task at the head of the queue waits for it.              *)
LEMMA HeadClient ==
  ASSUME DInv, NEW c \in Clients, NEW op, Take(c, op)
  PROVE  /\ current = Nobody /\ conn[c].pc = WaitsAt(op) /\ response[c] = Unset
         /\ \A i \in DOMAIN tasks' :
              /\ i + 1 \in DOMAIN tasks /\ tasks'[i] = tasks[i + 1] /\ tasks'[i].client # c
              /\ tasks'[i] \in Task
<1>1. /\ tasks \in Seq(Task) /\ tasks # <<>> /\ tasks' = Tail(tasks) /\ current = Nobody
      /\ Head(tasks).client = c /\ Head(tasks).cmd.op = op
  BY ZenonT(20) DEF DInv, PInv, TypeOK, Take
<1>2. 1 \in DOMAIN tasks /\ Head(tasks) = tasks[1]
  BY <1>1
<1>3. \A i \in DOMAIN tasks' : i + 1 \in DOMAIN tasks /\ i + 1 # 1 /\ tasks'[i] = tasks[i + 1]
                               /\ tasks'[i] \in Task
  BY <1>1
<1>4. /\ conn[c].pc = WaitsAt(op) /\ response[c] = Unset
      /\ \A j \in DOMAIN tasks : tasks[j].client = c => j = 1
  BY <1>1, <1>2, ZenonT(20) DEF DInv, Queued
<1> QED
  BY <1>1, <1>3, <1>4, ZenonT(20)

(* A task of c whose frame goes to the subscribers in `to`.                   *)
LEMMA ProduceOrder ==
  ASSUME DInv, PInv', NEW c \in Clients, NEW op, Take(c, op), NEW to, NEW f, NEW r,
         Produce(c, to, f, r), Expects(c, r),
         \A d \in Clients \ {c} : client_subscriptions'[d] = client_subscriptions[d],
         \A d \in to : client_subscriptions'[d] # {} \/ (d = c /\ r = NoResponse),
         r \in Items => client_subscriptions'[c] = {},
         \/ is_subscribed(c) => client_subscriptions'[c] # {}
         \/ r = NoResponse
         \/ conn[c].pc = "unregister"
  PROVE  DInv'
<1>1. /\ current' = c /\ recipients' = to /\ reply' = r
      /\ conn' = conn /\ response' = response /\ pending_frames' = pending_frames /\ owed' = owed
  BY DEF Produce, sessions, connections
<1>2. /\ current = Nobody /\ response[c] = Unset /\ c # Nobody
      /\ \A i \in DOMAIN tasks' :
           /\ i + 1 \in DOMAIN tasks /\ tasks'[i] = tasks[i + 1] /\ tasks'[i].client # c
  BY HeadClient, PubSubAssumption, ZenonT(20)
<1>3. Queued'
  <2>1. ASSUME NEW i \in DOMAIN tasks', NEW j \in DOMAIN tasks', tasks'[j].client = tasks'[i].client
        PROVE  j = i
    <3>1. j + 1 = i + 1
      BY <1>2, <2>1 DEF DInv, Queued
    <3>2. tasks' \in Seq(Task)
      BY ZenonT(20) DEF PInv, TypeOK
    <3> QED
      BY <3>1, <3>2
  <2>2. ASSUME NEW i \in DOMAIN tasks'
        PROVE  /\ conn[tasks'[i].client].pc = WaitsAt(tasks'[i].cmd.op)
               /\ c # tasks'[i].client /\ response[tasks'[i].client] = Unset
    BY <1>2 DEF DInv, Queued
  <2> QED
    BY <1>1, <2>1, <2>2, ZenonT(20) DEF Queued
<1>4. Executing'
  BY <1>1, <1>2, ZenonT(20) DEF Executing, Expects
<1>5. Answers'
  BY <1>1, ZenonT(20) DEF DInv, Answers, Expects
<1>6. Recipients'
  BY <1>1 DEF Recipients, is_subscribed
<1>7. Emptied'
  <2> SUFFICES ASSUME NEW d \in Clients, conn[d].pc \notin {"clear", "drain", "unregister", "closed"},
                      client_subscriptions'[d] = {}, pending_frames[d] # <<>>
               PROVE  (c = d /\ r = NoResponse) \/ response[d] = NoResponse
    BY <1>1, ZenonT(20) DEF Emptied, is_subscribed
  <2>1. ~is_subscribed(d) => response[d] = NoResponse
    BY <1>2, PubSubAssumption, ZenonT(20) DEF DInv, Emptied
  <2> QED
    BY <1>2, <2>1, NotItems, ZenonT(20) DEF is_subscribed
<1>8. ByPromise'
  BY <1>1, <1>2, NotItems, ZenonT(20) DEF DInv, ByPromise, is_subscribed
<1>9. InOrder'
  BY <1>1, ZenonT(20) DEF DInv, InOrder
<1> QED
  BY <1>3, <1>4, <1>5, <1>6, <1>7, <1>8, <1>9, ZenonT(20) DEF DInv

(* The same for an answer that takes the way of the client's messages, if the *)
(* client has a session.                                                      *)
LEMMA ProduceQueuedOrder ==
  ASSUME DInv, PInv', NEW c \in Clients, NEW op, Take(c, op), WaitsAt(op) = "wait",
         NEW f \in Items, ProduceQueued(c, f),
         \A d \in Clients \ {c} : client_subscriptions'[d] = client_subscriptions[d],
         c \notin registered => client_subscriptions'[c] = client_subscriptions[c]
  PROVE  DInv'
<1> DEFINE to == {c} \cap registered
           r == IF c \in registered THEN NoResponse ELSE Item("error", f.n)
<1>1. Produce(c, to, f, r)
  BY DEF ProduceQueued
<1>2. conn[c].pc = "wait"
  BY HeadClient
<1>3. r \in Items \cup {NoResponse} /\ (c \in registered <=> r = NoResponse)
  <2>1. Item("error", f.n) \in Items
    BY DEF Item, Items
  <2> QED
    BY <2>1, NotItems
<1>4. Expects(c, r)
  BY <1>2, <1>3 DEF Expects
<1>5. is_subscribed(c) => c \in registered
  BY ZenonT(20) DEF DInv, PInv, TypeOK, SubscriptionsAgree, is_subscribed
<1>6. to \subseteq {c} /\ (to # {} => r = NoResponse)
  OBVIOUS
<1> HIDE DEF to, r
<1>7. \A d \in to : client_subscriptions'[d] # {} \/ (d = c /\ r = NoResponse)
  BY <1>6
<1>8. r \in Items => client_subscriptions'[c] = {}
  BY <1>3, <1>5, NotItems DEF is_subscribed
<1>9. (is_subscribed(c) => client_subscriptions'[c] # {}) \/ r = NoResponse
  BY <1>3, <1>5
<1> QED
  BY <1>1, <1>4, <1>7, <1>8, <1>9, ProduceOrder, Zenon

(* The worker executes a task.                                                *)
LEMMA ProcessOrder ==
  ASSUME DInv, NEW c \in Clients, Process(c)
  PROVE  DInv'
<1>0. PInv /\ PInv'
  BY ProcessInv DEF DInv
<1>1. CASE process_client_registration(c)
  <2>1. /\ Take(c, "REGISTER") /\ Produce(c, {}, NoResponse, Done)
        /\ client_subscriptions' = client_subscriptions
    BY <1>1 DEF process_client_registration
  <2>2. Expects(c, Done)
    BY <2>1, HeadClient DEF Expects, WaitsAt
  <2> QED
    BY <1>0, <2>1, <2>2, ProduceOrder, NotItems, ZenonT(20) DEF is_subscribed
<1>2. CASE process_client_unregistration(c)
  <2>1. /\ Take(c, "UNREGISTER") /\ Produce(c, {}, NoResponse, Done)
        /\ remove_subscriptions(c, client_subscriptions[c])
    BY <1>2 DEF process_client_unregistration
  <2>2. conn[c].pc = "unregister" /\ Expects(c, Done)
    BY <2>1, HeadClient DEF Expects, WaitsAt
  <2>3. \A d \in Clients \ {c} : client_subscriptions'[d] = client_subscriptions[d]
    BY <1>0, <2>1, ZenonT(20) DEF remove_subscriptions, PInv, TypeOK
  <2> QED
    BY <1>0, <2>1, <2>2, <2>3, ProduceOrder, NotItems, ZenonT(20)
<1>3. CASE RefuseWhileSubscribed(c)
  <2>1. PICK op \in {"PUBLISH", "GET"} : Take(c, op)
    BY <1>3 DEF RefuseWhileSubscribed
  <2>2. WaitsAt(op) = "wait"
    BY DEF WaitsAt
  <2>3. /\ Item("error", Head(tasks).n) \in Items /\ ProduceQueued(c, Item("error", Head(tasks).n))
        /\ client_subscriptions' = client_subscriptions
    BY <1>0, <1>3, <2>1, HeadTask, ZenonT(20) DEF RefuseWhileSubscribed, maps, Item, Items, PInv
  <2> QED
    BY <1>0, <2>1, <2>2, <2>3, ProduceQueuedOrder
<1>4. CASE subscribe(c)
  <2>1. Take(c, "SUBSCRIBE") /\ WaitsAt("SUBSCRIBE") = "wait"
    BY <1>4 DEF subscribe, WaitsAt
  <2>2. /\ Item("subscribe", Head(tasks).n) \in Items
        /\ ProduceQueued(c, Item("subscribe", Head(tasks).n))
    BY <1>0, <1>4, <2>1, HeadTask, ZenonT(20) DEF subscribe, Item, Items, PInv
  <2>3. /\ \A d \in Clients \ {c} : client_subscriptions'[d] = client_subscriptions[d]
        /\ c \notin registered => client_subscriptions'[c] = client_subscriptions[c]
    BY <1>0, <1>4, ZenonT(20) DEF subscribe, PInv, TypeOK
  <2> QED
    BY <1>0, <2>1, <2>2, <2>3, ProduceQueuedOrder, ZenonT(20)
<1>5. CASE unsubscribe(c)
  <2>1. Take(c, "UNSUBSCRIBE") /\ WaitsAt("UNSUBSCRIBE") = "wait"
    BY <1>5 DEF unsubscribe, WaitsAt
  <2>2. /\ Item("unsubscribe", Head(tasks).n) \in Items
        /\ ProduceQueued(c, Item("unsubscribe", Head(tasks).n))
    BY <1>0, <1>5, <2>1, HeadTask, ZenonT(20) DEF unsubscribe, Item, Items, PInv
  <2>3. /\ \A d \in Clients \ {c} : client_subscriptions'[d] = client_subscriptions[d]
        /\ c \notin registered => client_subscriptions'[c] = client_subscriptions[c]
    BY <1>0, <1>5, ZenonT(20) DEF unsubscribe, remove_subscriptions, PInv, TypeOK
  <2> QED
    BY <1>0, <2>1, <2>2, <2>3, ProduceQueuedOrder, ZenonT(20)
<1>6. CASE publish(c)
  <2> DEFINE ch == Head(tasks).cmd.channel
             gone == channel_subscribers[ch] \ registered
             n == Head(tasks).n
             to == channel_subscribers[ch] \cap registered
  <2>1. /\ Take(c, "PUBLISH") /\ ~is_subscribed(c)
        /\ Produce(c, to, Item("message", n), Item("reply", n))
        /\ client_subscriptions' = [s \in Clients |->
                                      IF s \in gone THEN client_subscriptions[s] \ {ch}
                                      ELSE client_subscriptions[s]]
    BY <1>6, ZenonT(20) DEF publish
  <2>2. ch \in Channels /\ n \in Nat
    <3>1. /\ n \in Nat /\ Head(tasks).cmd \in Command \cup Registration
          /\ Head(tasks).cmd.op = "PUBLISH"
      BY <1>0, <2>1, HeadTask, ZenonT(20) DEF PInv
    <3> QED
      BY <3>1, ZenonT(20) DEF Command, Registration
  <2>3. gone = {} /\ \A d \in to : d \in Clients /\ is_subscribed(d)
    BY <1>0, <2>2, ZenonT(20) DEF PInv, SubscriptionsAgree, TypeOK, is_subscribed
  <2>4. Item("reply", n) \in Items /\ Expects(c, Item("reply", n))
    BY <2>1, <2>2, HeadClient DEF Item, Items, Expects, WaitsAt
  <2> HIDE DEF ch, gone, n, to
  <2>5. \A d \in Clients : client_subscriptions'[d] = client_subscriptions[d]
    BY <2>1, <2>3
  <2> QED
    BY <1>0, <2>1, <2>3, <2>4, <2>5, ProduceOrder DEF is_subscribed
<1>7. CASE AnswerPlain(c)
  <2> DEFINE item == Item("reply", Head(tasks).n)
  <2>1. PICK op \in {"PING", "GET"} : Take(c, op)
    BY <1>7 DEF AnswerPlain
  <2>2. WaitsAt(op) = "wait"
    BY DEF WaitsAt
  <2>3. item \in Items /\ client_subscriptions' = client_subscriptions
    BY <1>0, <1>7, <2>1, HeadTask, ZenonT(20) DEF AnswerPlain, maps, Item, Items, PInv
  <2>4. CASE is_subscribed(c)
    <3>1. ProduceQueued(c, item)
      BY <1>7, <2>4 DEF AnswerPlain, answers_through_session
    <3> QED
      BY <1>0, <2>1, <2>2, <2>3, <3>1, ProduceQueuedOrder
  <2>5. CASE ~is_subscribed(c)
    <3>1. Produce(c, {}, NoResponse, item)
      BY <1>7, <2>5 DEF AnswerPlain, answers_through_session
    <3>2. Expects(c, item)
      BY <2>1, <2>2, <2>3, HeadClient, ZenonT(20) DEF Expects
    <3> HIDE DEF item
    <3> QED
      BY <1>0, <2>1, <2>3, <2>5, <3>1, <3>2, ProduceOrder, ZenonT(20) DEF is_subscribed
  <2> QED
    BY <2>4, <2>5
<1>8. CASE EnqueueFrame(c)
  <2>1. /\ c \in recipients /\ recipients' \subseteq recipients
        /\ pending_frames' = [pending_frames EXCEPT ![c] = Append(@, frame)]
        /\ owed' = [owed EXCEPT ![c] = Append(@, frame)]
        /\ UNCHANGED <<client_subscriptions, tasks, current, reply, conn, response>>
    BY <1>8 DEF EnqueueFrame, maps, connections
  <2>2. frame \in Items /\ pending_frames \in [Clients -> Seq(Items)] /\ owed \in [Clients -> Seq(Items)]
    BY <1>0, <2>1, ZenonT(20) DEF DInv, PInv, FrameReady, TypeOK, InOrder
  <2>3. response[c] \notin Items /\ (is_subscribed(c) \/ (current = c /\ reply = NoResponse))
    <3>1. is_subscribed(c) \/ (current = c /\ reply = NoResponse)
      BY <2>1, ZenonT(20) DEF DInv, Recipients
    <3>2. current = c => response[c] = Unset
      BY PubSubAssumption DEF DInv, Executing
    <3> QED
      BY <3>1, <3>2, NotItems DEF DInv, ByPromise
  <2>4. Queued' /\ Executing' /\ Answers'
    BY <2>1, ZenonT(20) DEF DInv, Queued, Executing, Answers, Expects
  <2>5. Recipients' /\ ByPromise'
    BY <2>1, ZenonT(20) DEF DInv, Recipients, ByPromise, is_subscribed
  <2>6. \A d \in Clients \ {c} : pending_frames'[d] = pending_frames[d] /\ owed'[d] = owed[d]
    BY <2>1, <2>2
  <2>7. Emptied'
    BY <2>1, <2>3, <2>6, ZenonT(20) DEF DInv, Emptied, is_subscribed
  <2>8. InOrder'
    <3>1. owed' \in [Clients -> Seq(Items)]
      BY <2>1, <2>2
    <3>2. /\ pending_frames'[c] = Append(pending_frames[c], frame)
          /\ owed'[c] = Append(owed[c], frame)
      BY <2>1, <2>2, ZenonT(20)
    <3> QED
      BY <2>1, <2>3, <2>6, <3>1, <3>2, ZenonT(20) DEF DInv, InOrder
  <2> QED
    BY <1>0, <2>4, <2>5, <2>7, <2>8 DEF DInv
<1>9. CASE Notify(c)
  <2>1. /\ recipients' \subseteq recipients
        /\ UNCHANGED <<client_subscriptions, tasks, current, reply, conn, response, pending_frames, owed>>
    BY <1>9 DEF Notify, maps, connections
  <2>2. Queued' /\ Executing' /\ Answers'
    BY <2>1, ZenonT(20) DEF DInv, Queued, Executing, Answers, Expects
  <2>3. Recipients' /\ ByPromise' /\ Emptied' /\ InOrder'
    BY <2>1, ZenonT(20) DEF DInv, Recipients, ByPromise, Emptied, InOrder, is_subscribed
  <2> QED
    BY <1>0, <2>2, <2>3 DEF DInv
<1> QED
  BY <1>1, <1>2, <1>3, <1>4, <1>5, <1>6, <1>7, <1>8, <1>9 DEF Process

(* The worker sets the promise: a client that is answered by it has no frame  *)
(* before it.                                                                 *)
LEMMA CompleteOrder ==
  ASSUME DInv, Complete
  PROVE  DInv'
<1> DEFINE c == current
<1>0. /\ PInv /\ PInv' /\ c \in Clients /\ recipients = {} /\ current' = Nobody
      /\ response' = [response EXCEPT ![c] = reply]
      /\ owed' = IF reply \in Items THEN [owed EXCEPT ![c] = Append(@, reply)] ELSE owed
      /\ UNCHANGED <<client_subscriptions, tasks, recipients, reply, conn, pending_frames>>
  <2>1. PInv /\ PInv'
    BY CompleteInv DEF DInv
  <2> QED
    BY <2>1, ZenonT(20) DEF Complete, PInv, TypeOK, maps, sessions
<1>1. Expects(c, reply) /\ response[c] = Unset
  BY <1>0, ZenonT(20) DEF DInv, Executing, Complete
<1>2. /\ response'[c] = reply /\ \A d \in Clients \ {c} : response'[d] = response[d]
      /\ owed \in [Clients -> Seq(Items)]
  BY <1>0, ZenonT(20) DEF PInv, TypeOK, DInv, InOrder
<1> HIDE DEF c
<1>3. Queued'
  <2>1. ASSUME NEW i \in DOMAIN tasks PROVE tasks[i].client \in Clients /\ tasks[i].client # c
    <3>1. tasks[i] \in Task
      BY <1>0 DEF PInv, TypeOK
    <3> QED
      BY <3>1 DEF DInv, Queued, Task, c
  <2> QED
    BY <1>0, <1>2, <2>1, PubSubAssumption, ZenonT(20) DEF DInv, Queued
<1>4. Executing' /\ Recipients'
  BY <1>0 DEF Executing, Recipients
<1>5. Answers'
  BY <1>0, <1>1, <1>2, ZenonT(20) DEF DInv, Answers, Expects
<1>6. Emptied'
  <2> SUFFICES ASSUME NEW d \in Clients, conn[d].pc \notin {"clear", "drain", "unregister", "closed"},
                      client_subscriptions[d] = {}, pending_frames[d] # <<>>
               PROVE  response'[d] = NoResponse
    BY <1>0, Zenon DEF Emptied, is_subscribed
  <2>1. (d = c /\ reply = NoResponse) \/ response[d] = NoResponse
    BY Zenon DEF DInv, Emptied, is_subscribed, c
  <2> QED
    BY <1>1, <1>2, <2>1, NotItems, Zenon
<1>7. ByPromise'
  BY <1>0, <1>2, PubSubAssumption, ZenonT(20) DEF DInv, ByPromise, is_subscribed, c
<1>8. InOrder'
  <2>1. CASE reply \in Items
    <3>1. conn[c].pc = "wait" /\ ~is_subscribed(c) /\ reply # NoResponse
      BY <1>0, <1>1, <2>1, NotItems, ZenonT(20) DEF Expects, DInv, ByPromise, c
    <3>2. pending_frames[c] = <<>>
      BY <1>0, <1>1, <3>1, NotItems, ZenonT(20) DEF DInv, Emptied
    <3>3. owed[c] = <<>>
      BY <1>0, <1>1, <3>1, <3>2, NotItems, ZenonT(20) DEF DInv, InOrder
    <3>4. /\ owed' = [owed EXCEPT ![c] = <<reply>>] /\ <<reply>> \in Seq(Items)
      <4>1. Append(<<>>, reply) = <<reply>> /\ <<reply>> \in Seq(Items)
        BY <2>1
      <4>2. owed' = [owed EXCEPT ![c] = Append(@, reply)]
        BY <1>0, <2>1, Zenon
      <4> QED
        BY <3>3, <4>1, <4>2, Zenon
    <3>5. /\ owed' \in [Clients -> Seq(Items)] /\ owed'[c] = <<reply>>
          /\ \A d \in Clients \ {c} : owed'[d] = owed[d]
      BY <1>0, <1>2, <3>4, Zenon
    <3>6. ASSUME NEW d \in Clients, conn'[d].pc \notin {"unregister", "closed"}
          PROVE  owed'[d] = IF response'[d] \in Items THEN <<response'[d]>> ELSE pending_frames'[d]
      <4>1. CASE d = c
        BY <1>2, <2>1, <3>5, <4>1, Zenon
      <4>2. CASE d # c
        <5>1. /\ owed'[d] = owed[d] /\ response'[d] = response[d]
              /\ pending_frames'[d] = pending_frames[d] /\ conn'[d] = conn[d]
          BY <1>0, <1>2, <3>5, <4>2, Zenon
        <5> QED
          BY <3>6, <5>1, Zenon DEF DInv, InOrder
      <4> QED
        BY <4>1, <4>2, Zenon
    <3> QED
      BY <3>5, <3>6, Zenon DEF InOrder
  <2>2. CASE reply \notin Items
    BY <1>0, <1>1, <1>2, <2>2, NotItems, Zenon DEF DInv, InOrder
  <2> QED
    BY <2>1, <2>2
<1> QED
  BY <1>0, <1>3, <1>4, <1>5, <1>6, <1>7, <1>8, ZenonT(20) DEF DInv

(* A connection that waits for nothing, or has its answer, has no task.       *)
NoTask(c) == current # c /\ \A i \in DOMAIN tasks : tasks[i].client # c

(* Such a connection has none.                                                *)
LEMMA NoTaskWhen ==
  ASSUME DInv, NEW c \in Clients,
         conn[c].pc \notin {"register", "wait", "unregister"} \/ response[c] # Unset
  PROVE  NoTask(c) /\ (conn[c].pc \notin {"register", "wait", "unregister"} => response[c] = Unset)
<1>1. conn[c].pc \notin {"register", "wait", "unregister"} => response[c] = Unset
  BY DEF DInv, Answers, Expects
<1>2. current # c
  BY PubSubAssumption DEF DInv, Executing, Expects
<1>3. ASSUME NEW i \in DOMAIN tasks PROVE tasks[i].client # c
  BY DEF DInv, Queued, WaitsAt
<1> QED
  BY <1>1, <1>2, <1>3 DEF NoTask

(* A connection moves to a place, and submits a task if it is to wait there.  *)
LEMMA MoveOrder ==
  ASSUME DInv, PInv', NEW c \in Clients, NEW place, NoTask(c),
         conn'[c].pc = place, response'[c] = Unset,
         \/ UNCHANGED tasks
         \/ \E cmd \in Command \cup Registration, n \in Nat :
              /\ tasks' = Append(tasks, [client |-> c, cmd |-> cmd, n |-> n])
              /\ place = WaitsAt(cmd.op),
         \A d \in Clients \ {c} :
           /\ conn'[d] = conn[d] /\ response'[d] = response[d]
           /\ pending_frames'[d] = pending_frames[d] /\ owed'[d] = owed[d],
         UNCHANGED <<maps, worker>>, owed' \in [Clients -> Seq(Items)],
         \/ place \in {"clear", "drain", "unregister", "closed"}
         \/ pending_frames'[c] = <<>>
         \/ /\ conn[c].pc \notin {"clear", "drain", "unregister", "closed"}
            /\ response[c] # NoResponse /\ pending_frames'[c] = pending_frames[c],
         place \in {"unregister", "closed"} \/ owed'[c] = pending_frames'[c]
  PROVE  DInv'
<1>0. /\ UNCHANGED <<client_subscriptions, current, recipients, reply>> /\ current # c
      /\ tasks \in Seq(Task) /\ \A i \in DOMAIN tasks : tasks[i].client \in Clients \ {c}
  <2>1. tasks \in Seq(Task)
    BY ZenonT(20) DEF DInv, PInv, TypeOK
  <2>2. \A i \in DOMAIN tasks : tasks[i] \in Task
    BY <2>1
  <2> QED
    BY <2>1, <2>2, Zenon DEF maps, worker, NoTask, Task
<1>1. Queued'
  <2>1. ASSUME NEW i \in DOMAIN tasks
        PROVE  LET d == tasks[i].client IN
               /\ conn'[d].pc = WaitsAt(tasks[i].cmd.op)
               /\ current' # d /\ response'[d] = Unset
               /\ \A j \in DOMAIN tasks : tasks[j].client = d => j = i
    BY <1>0, ZenonT(20) DEF DInv, Queued
  <2>2. CASE UNCHANGED tasks
    BY <2>1, <2>2, ZenonT(20) DEF Queued
  <2>3. ASSUME NEW t, t.client = c, place = WaitsAt(t.cmd.op),
               tasks' = Append(tasks, t)
        PROVE  Queued'
    <3>1. /\ DOMAIN tasks' = 1..(Len(tasks) + 1) /\ DOMAIN tasks = 1..Len(tasks) /\ Len(tasks) \in Nat
          /\ tasks'[Len(tasks) + 1] = t /\ \A i \in 1..Len(tasks) : tasks'[i] = tasks[i]
      BY <1>0, <2>3
    <3>2. ASSUME NEW i \in 1..(Len(tasks) + 1)
          PROVE  i \in DOMAIN tasks \/ i = Len(tasks) + 1
      BY <3>1
    <3>3. ASSUME NEW i \in DOMAIN tasks'
          PROVE  LET d == tasks'[i].client IN
                 /\ conn'[d].pc = WaitsAt(tasks'[i].cmd.op)
                 /\ current' # d /\ response'[d] = Unset
                 /\ \A j \in DOMAIN tasks' : tasks'[j].client = d => j = i
      <4>1. CASE i = Len(tasks) + 1
        <5>1. \A j \in DOMAIN tasks' : tasks'[j].client = c => j = i
          BY <1>0, <3>1, <3>2, <4>1, Zenon
        <5>2. tasks'[i] = t
          BY <3>1, <4>1, Zenon
        <5>3. conn'[c].pc = WaitsAt(t.cmd.op) /\ current' # c /\ response'[c] = Unset
          BY <1>0, <2>3, Zenon
        <5> QED
          BY <2>3, <5>1, <5>2, <5>3, Zenon
      <4>2. CASE i \in DOMAIN tasks
        <5>1. tasks'[i] = tasks[i] /\ tasks[i].client # c
          BY <1>0, <3>1, <4>2, Zenon
        <5>2. \A j \in DOMAIN tasks' : tasks'[j].client = tasks[i].client => j = i
          <6> SUFFICES ASSUME NEW j \in DOMAIN tasks', tasks'[j].client = tasks[i].client
                       PROVE  j = i
            BY Zenon
          <6>1. j \in DOMAIN tasks
            BY <2>3, <3>1, <3>2, <5>1, Zenon
          <6>2. tasks'[j] = tasks[j]
            BY <3>1, <6>1, Zenon
          <6> QED
            BY <2>1, <4>2, <6>1, <6>2, Zenon
        <5> QED
          BY <2>1, <4>2, <5>1, <5>2, Zenon
      <4> QED
        BY <3>1, <3>2, <4>1, <4>2, ZenonT(20)
    <3> QED
      BY <3>3, ZenonT(20) DEF Queued
  <2> QED
    BY <2>2, <2>3, ZenonT(20)
<1>2. Executing'
  BY <1>0, ZenonT(20) DEF DInv, PInv, TypeOK, Executing, Expects
<1>3. Answers'
  BY ZenonT(20) DEF DInv, Answers, Expects
<1>4. Recipients' /\ ByPromise'
  BY <1>0, NotItems, ZenonT(20) DEF DInv, Recipients, ByPromise, is_subscribed
<1>5. Emptied'
  BY <1>0, ZenonT(20) DEF DInv, Emptied, is_subscribed
<1>6. InOrder'
  BY NotItems, ZenonT(20) DEF DInv, InOrder
<1> QED
  BY <1>1, <1>2, <1>3, <1>4, <1>5, <1>6, ZenonT(20) DEF DInv

(* A step of a connection.                                                    *)
LEMMA ConnectionOrder ==
  ASSUME DInv, NEW c \in Clients,
         ConnectionStep(c) \/ Register(c) \/ Submit(c) \/ Disconnect(c)
  PROVE  DInv'
<1> USE DEF sessions, At, GoTo
<1>0. /\ PInv' /\ TypeOK /\ submitted \in Nat /\ response \in [Clients -> Replies \cup {Unset}]
      /\ pending_frames \in [Clients -> Seq(Items)] /\ owed \in [Clients -> Seq(Items)]
      /\ conn[c].then \in {"poll", "input"}
  BY ConnectionInv, ZenonT(20) DEF DInv, PInv, TypeOK, InOrder
<1>1. /\ [response EXCEPT ![c] = Unset][c] = Unset
      /\ \A d \in Clients \ {c} : [response EXCEPT ![c] = Unset][d] = response[d]
  BY <1>0
<1>2. {"new", "register", "poll", "input", "wait", "clear", "drain", "unregister", "closed"}
        = Places
  BY DEF Places
<1>3. ASSUME NEW place \in Places, NEW next \in {"poll", "input"}, MovesTo(c, place, next)
      PROVE  conn'[c].pc = place /\ \A d \in Clients \ {c} : conn'[d] = conn[d]
  BY <1>0, <1>3, Moved, ZenonT(20)
<1>4. /\ conn[c].pc \notin {"unregister", "closed"} /\ response[c] \notin Items =>
           owed[c] = pending_frames[c]
      /\ conn[c].pc \notin {"register", "wait", "unregister"} => response[c] = Unset
      /\ Unset \notin Items
  BY NoTaskWhen, NotItems, ZenonT(20) DEF DInv, InOrder
<1>5. ASSUME NEW place, NoTask(c), UNCHANGED <<maps, worker, pending_frames, owed>>,
             \/ UNCHANGED tasks
             \/ \E cmd \in Command \cup Registration, n \in Nat :
                  /\ tasks' = Append(tasks, [client |-> c, cmd |-> cmd, n |-> n])
                  /\ place = WaitsAt(cmd.op),
             response' \in {response, [response EXCEPT ![c] = Unset]}, response'[c] = Unset,
             conn'[c].pc = place /\ \A d \in Clients \ {c} : conn'[d] = conn[d],
             \/ place \in {"clear", "drain", "unregister", "closed"}
             \/ pending_frames[c] = <<>>
             \/ /\ conn[c].pc \notin {"clear", "drain", "unregister", "closed"}
                /\ response[c] # NoResponse,
             place \in {"unregister", "closed"} \/ owed[c] = pending_frames[c]
      PROVE  DInv'
  <2>1. \A d \in Clients \ {c} : response'[d] = response[d]
    BY <1>1, <1>5, ZenonT(20)
  <2> QED
    BY <1>0, <1>5, <2>1, MoveOrder, ZenonT(20)
<1>6. CASE Register(c)
  <2>1. /\ conn[c].pc = "new" /\ MovesTo(c, "register", "poll")
        /\ tasks' = Append(tasks, [client |-> c, cmd |-> [op |-> "REGISTER"], n |-> submitted])
        /\ UNCHANGED <<maps, worker, pending_frames, owed, response>>
    BY <1>6 DEF Register, MovesTo, SubmitTask
  <2>2. [op |-> "REGISTER"] \in Command \cup Registration /\ "register" = WaitsAt([op |-> "REGISTER"].op)
    BY DEF Registration, WaitsAt
  <2>3. NoTask(c) /\ response[c] = Unset /\ owed[c] = pending_frames[c] /\ response[c] # NoResponse
    BY <1>4, <2>1, NoTaskWhen, NotItems, ZenonT(20)
  <2> QED
    BY <1>0, <1>2, <1>3, <1>5, <2>1, <2>2, <2>3, ZenonT(20)
<1>7. CASE Submit(c)
  <2>1. PICK cmd \in Command : SubmitTask(c, cmd)
    BY <1>7 DEF Submit
  <2>2. /\ conn[c].pc = "input" /\ MovesTo(c, "wait", "poll")
        /\ tasks' = Append(tasks, [client |-> c, cmd |-> cmd, n |-> submitted']) /\ submitted' \in Nat
        /\ UNCHANGED <<maps, worker, pending_frames, owed, response>>
    BY <1>0, <1>7, <2>1 DEF Submit, MovesTo, SubmitTask
  <2>3. cmd \in Command \cup Registration /\ "wait" = WaitsAt(cmd.op)
    BY DEF Command, WaitsAt
  <2>4. NoTask(c) /\ response[c] = Unset /\ owed[c] = pending_frames[c] /\ response[c] # NoResponse
    BY <1>4, <2>2, NoTaskWhen, NotItems, ZenonT(20)
  <2> QED
    BY <1>2, <1>3, <1>5, <2>2, <2>3, <2>4, ZenonT(20)
<1>8. CASE Disconnect(c)
  <2>1. /\ conn[c].pc \notin {"register", "wait", "unregister"} \/ response[c] # Unset
        /\ MovesTo(c, "unregister", "poll")
        /\ tasks' = Append(tasks, [client |-> c, cmd |-> [op |-> "UNREGISTER"], n |-> submitted])
        /\ response' = [response EXCEPT ![c] = Unset]
        /\ UNCHANGED <<maps, worker, pending_frames, owed>>
    BY <1>8, ZenonT(20) DEF Disconnect, MovesTo, SubmitTask
  <2>2. /\ [op |-> "UNREGISTER"] \in Command \cup Registration
        /\ "unregister" = WaitsAt([op |-> "UNREGISTER"].op)
    BY DEF Registration, WaitsAt
  <2>3. NoTask(c)
    BY <2>1, NoTaskWhen, ZenonT(20)
  <2> QED
    BY <1>0, <1>1, <1>2, <1>3, <1>5, <2>1, <2>2, <2>3, ZenonT(20)
<1>9. CASE Registered(c)
  <2>1. /\ conn[c].pc = "register" /\ response[c] # Unset /\ MovesTo(c, "poll", "poll")
        /\ response' = [response EXCEPT ![c] = Unset]
        /\ UNCHANGED <<maps, worker, tasks, pending_frames, owed>>
    BY <1>9 DEF Registered, MovesTo
  <2>2. NoTask(c) /\ response[c] = Done /\ response[c] # NoResponse /\ owed[c] = pending_frames[c]
    BY <1>4, <2>1, NoTaskWhen, NotItems, ZenonT(20) DEF DInv, Answers, Expects
  <2> QED
    BY <1>1, <1>2, <1>3, <1>5, <2>1, <2>2, ZenonT(20)
<1>10. CASE Poll(c)
  <2>1. conn[c].pc = "poll" /\ UNCHANGED <<maps, worker, tasks, pending_frames, owed, response>>
    BY <1>10 DEF Poll
  <2>2. PICK place \in {"clear", "input"}, next \in {"poll", "input"} : MovesTo(c, place, next)
    BY <1>10, Zenon DEF Poll, MovesTo
  <2>3. NoTask(c) /\ response[c] = Unset /\ owed[c] = pending_frames[c] /\ response[c] # NoResponse
    BY <1>4, <2>1, NoTaskWhen, NotItems, ZenonT(20)
  <2> QED
    BY <1>2, <1>3, <1>5, <2>1, <2>2, <2>3, ZenonT(20)
<1>11. CASE Incomplete(c)
  <2>1. /\ conn[c].pc = "input" /\ MovesTo(c, "poll", "poll")
        /\ UNCHANGED <<maps, worker, tasks, pending_frames, owed, response>>
    BY <1>11 DEF Incomplete, MovesTo
  <2>2. NoTask(c) /\ response[c] = Unset /\ owed[c] = pending_frames[c] /\ response[c] # NoResponse
    BY <1>4, <2>1, NoTaskWhen, NotItems, ZenonT(20)
  <2> QED
    BY <1>2, <1>3, <1>5, <2>1, <2>2, ZenonT(20)
<1>12. CASE Answered(c)
  <2>1. /\ conn[c].pc = "wait" /\ response[c] # Unset
        /\ response' = [response EXCEPT ![c] = Unset]
        /\ UNCHANGED <<maps, worker, tasks, pending_frames>>
    BY <1>12 DEF Answered
  <2>2. NoTask(c) /\ response[c] \in Items \cup {NoResponse}
    BY <2>1, NoTaskWhen, ZenonT(20) DEF DInv, Answers, Expects
  <2>3. CASE response[c] = NoResponse
    <3>1. MovesTo(c, "clear", "input") /\ owed' = owed /\ owed[c] = pending_frames[c]
      BY <1>4, <1>12, <2>1, <2>3, NotItems, ZenonT(20) DEF Answered, MovesTo
    <3> QED
      BY <1>1, <1>2, <1>3, <1>5, <2>1, <2>2, <3>1, ZenonT(20)
  <2>4. CASE response[c] \in Items
    <3>1. MovesTo(c, "input", "poll") /\ owed' = [owed EXCEPT ![c] = IF @ = <<>> THEN @ ELSE Tail(@)]
      BY <1>12, <2>4, NotItems, ZenonT(20) DEF Answered, MovesTo, Send
    <3>2. pending_frames[c] = <<>>
      <4>1. ~is_subscribed(c) /\ response[c] # NoResponse /\ current # c
        BY <2>2, <2>4, NotItems, Zenon DEF DInv, ByPromise, NoTask
      <4> QED
        BY <2>1, <4>1, ZenonT(20) DEF DInv, Emptied
    <3>3. owed[c] = <<response[c]>> /\ Tail(<<response[c]>>) = <<>> /\ <<response[c]>> # <<>>
      BY <2>1, <2>4 DEF DInv, InOrder
    <3>4. owed' = [owed EXCEPT ![c] = <<>>]
      BY <3>1, <3>3
    <3>5. /\ owed' \in [Clients -> Seq(Items)] /\ owed'[c] = <<>>
          /\ \A d \in Clients \ {c} : owed'[d] = owed[d]
      BY <1>0, <3>4
    <3>6. conn'[c].pc = "input" /\ \A d \in Clients \ {c} : conn'[d] = conn[d]
      BY <1>2, <1>3, <3>1, ZenonT(20)
    <3> QED
      BY <1>0, <1>1, <2>1, <2>2, <3>2, <3>5, <3>6, MoveOrder, ZenonT(20)
  <2> QED
    BY <2>2, <2>3, <2>4
<1>13. CASE clear_notification(c)
  <2>1. /\ conn[c].pc = "clear" /\ MovesTo(c, "drain", "poll")
        /\ UNCHANGED <<maps, worker, tasks, pending_frames, owed, response>>
    BY <1>13 DEF clear_notification, MovesTo
  <2>2. NoTask(c) /\ response[c] = Unset /\ owed[c] = pending_frames[c]
    BY <1>4, <2>1, NoTaskWhen, ZenonT(20)
  <2> QED
    BY <1>2, <1>3, <1>5, <2>1, <2>2, ZenonT(20)
<1>14. CASE pop_frame(c)
  <2>1. conn[c].pc = "drain" /\ UNCHANGED <<maps, worker, tasks, response>>
    BY <1>14 DEF pop_frame
  <2>2. NoTask(c) /\ response[c] = Unset /\ owed[c] = pending_frames[c]
    BY <1>4, <2>1, NoTaskWhen, ZenonT(20)
  <2>3. CASE pending_frames[c] = <<>>
    <3>1. MovesTo(c, conn[c].then, "poll") /\ UNCHANGED <<pending_frames, owed>>
      BY <1>14, <2>3, ZenonT(20) DEF pop_frame, MovesTo
    <3>2. conn[c].then \in Places
      BY <1>0, <1>2
    <3> QED
      BY <1>3, <1>5, <2>1, <2>2, <2>3, <3>1, <3>2, ZenonT(20)
  <2>4. CASE pending_frames[c] # <<>>
    <3>1. /\ pending_frames' = [pending_frames EXCEPT ![c] = Tail(pending_frames[c])]
          /\ owed' = [owed EXCEPT ![c] = Tail(pending_frames[c])] /\ UNCHANGED conn
      BY <1>14, <2>2, <2>4, ZenonT(20) DEF pop_frame, Send
    <3>2. Tail(pending_frames[c]) \in Seq(Items)
      BY <1>0, <2>4
    <3>3. /\ pending_frames'[c] = Tail(pending_frames[c]) /\ owed'[c] = pending_frames'[c]
          /\ owed' \in [Clients -> Seq(Items)]
          /\ \A d \in Clients \ {c} : pending_frames'[d] = pending_frames[d] /\ owed'[d] = owed[d]
      BY <1>0, <3>1, <3>2, ZenonT(20)
    <3> QED
      BY <1>0, <2>1, <2>2, <3>1, <3>3, MoveOrder, ZenonT(20)
  <2> QED
    BY <2>3, <2>4
<1>15. CASE Close(c)
  <2>1. /\ conn[c].pc = "unregister" /\ response[c] # Unset /\ MovesTo(c, "closed", "poll")
        /\ response' = [response EXCEPT ![c] = Unset]
        /\ pending_frames' = [pending_frames EXCEPT ![c] = <<>>]
        /\ owed' = [owed EXCEPT ![c] = <<>>]
        /\ UNCHANGED <<maps, worker, tasks>>
    BY <1>15 DEF Close, MovesTo
  <2>2. NoTask(c)
    BY <2>1, NoTaskWhen, ZenonT(20)
  <2>3. /\ owed' \in [Clients -> Seq(Items)]
        /\ \A d \in Clients \ {c} : pending_frames'[d] = pending_frames[d] /\ owed'[d] = owed[d]
    BY <1>0, <2>1
  <2>4. conn'[c].pc = "closed" /\ \A d \in Clients \ {c} : conn'[d] = conn[d]
    BY <1>2, <1>3, <2>1, ZenonT(20)
  <2> QED
    BY <1>0, <1>1, <2>1, <2>2, <2>3, <2>4, MoveOrder, ZenonT(20)
<1> QED
  BY <1>6, <1>7, <1>8, <1>9, <1>10, <1>11, <1>12, <1>13, <1>14, <1>15, Zenon DEF ConnectionStep

(* In every state a connection has one task at most, and owes its client the  *)
(* frames of its queue or the answer of its promise.                          *)
THEOREM OrderInvariance == Spec => []DInv
<1>1. Init => DInv
  <2> SUFFICES ASSUME Init PROVE DInv
    OBVIOUS
  <2>1. PInv
    BY PubSubAssumption
       DEF Init, PInv, TypeOK, SubscriptionsAgree, WakeupPending, FrameReady, Replies
  <2>2. Queued /\ Executing /\ Answers /\ Recipients /\ Emptied
    BY DEF Init, Queued, Executing, Answers, Recipients, Emptied
  <2>3. ByPromise
    BY PubSubAssumption, NotItems, ZenonT(20) DEF Init, ByPromise
  <2>4. InOrder
    BY NotItems DEF Init, InOrder
  <2> QED
    BY <2>1, <2>2, <2>3, <2>4 DEF DInv
<1>2. DInv /\ [Next]_vars => DInv'
  <2> SUFFICES ASSUME DInv, [Next]_vars PROVE DInv'
    OBVIOUS
  <2>1. CASE WorkerStep
    BY <2>1, ProcessOrder, CompleteOrder DEF WorkerStep
  <2>2. CASE \E c \in Clients : ConnectionStep(c) \/ Register(c) \/ Submit(c) \/ Disconnect(c)
    BY <2>2, ConnectionOrder
  <2>3. CASE UNCHANGED vars
    <3>1. PInv'
      BY <2>3, ZenonT(20) DEF vars, maps, worker, sessions, connections, DInv, PInv, TypeOK, SubscriptionsAgree,
                  WakeupPending, FrameReady
    <3>2. Queued' /\ Executing' /\ Answers' /\ Recipients'
      BY <2>3, ZenonT(20) DEF vars, maps, worker, connections, DInv, Queued, Executing, Answers, Recipients,
                  Expects, is_subscribed
    <3>3. Emptied' /\ ByPromise' /\ InOrder'
      BY <2>3, ZenonT(20) DEF vars, maps, worker, sessions, connections, DInv, Emptied, ByPromise, InOrder,
                  is_subscribed
    <3> QED
      BY <3>1, <3>2, <3>3 DEF DInv
  <2> QED
    BY <2>1, <2>2, <2>3 DEF Next
<1> QED
  BY <1>1, <1>2, PTL DEF Spec

(* A connection sends what the worker produced for its client in the order in *)
(* which the worker produced it, although answers come by promise or by frame *)
(* (process_task, enqueue_pubsub_response, handle_connection).                *)
THEOREM SentInOrder == Spec => DeliveredInOrder
<1>1. ASSUME DInv, [Next]_vars
      PROVE  [sent' # NotSent => /\ owed[sent'.client] # <<>>
                                 /\ sent'.item = Head(owed[sent'.client])]_vars
  <2> SUFFICES ASSUME Next, sent' # NotSent
               PROVE  owed[sent'.client] # <<>> /\ sent'.item = Head(owed[sent'.client])
    BY <1>1
  <2>1. PICK c \in Clients : Answered(c) \/ pop_frame(c)
    <3>1. ASSUME WorkerStep PROVE sent' = NotSent
      BY <3>1, ZenonT(20) DEF WorkerStep, Process, process_client_registration, process_client_unregistration,
                  RefuseWhileSubscribed, subscribe, unsubscribe, publish, AnswerPlain, ProduceQueued,
                  Produce, EnqueueFrame, Notify, Complete
    <3>2. ASSUME NEW c \in Clients,
                 \/ Registered(c) \/ Poll(c) \/ Incomplete(c) \/ clear_notification(c) \/ Close(c)
                 \/ Register(c) \/ Submit(c) \/ Disconnect(c)
          PROVE  sent' = NotSent
      BY <3>2, ZenonT(20) DEF Registered, Poll, Incomplete, clear_notification, Close, Register, Submit, Disconnect
    <3> QED
      BY <3>1, <3>2 DEF Next, ConnectionStep
  <2>2. CASE Answered(c)
    <3>1. conn[c].pc = "wait" /\ response[c] # Unset /\ response[c] # NoResponse
          /\ sent' = [client |-> c, item |-> response[c]]
      BY <2>2, ZenonT(20) DEF Answered, Send, At
    <3>2. response[c] \in Items
      BY <1>1, <3>1, ZenonT(20) DEF DInv, Answers, Expects
    <3>3. owed[c] = <<response[c]>>
      BY <1>1, <3>1, <3>2, Zenon DEF DInv, InOrder
    <3>4. sent'.client = c /\ sent'.item = response[c]
      BY <3>1, Zenon
    <3>5. <<response[c]>> # <<>> /\ Head(<<response[c]>>) = response[c]
      OBVIOUS
    <3> QED
      BY <3>3, <3>4, <3>5, Zenon
  <2>3. CASE pop_frame(c)
    <3>1. conn[c].pc = "drain" /\ pending_frames[c] # <<>>
          /\ sent' = [client |-> c, item |-> Head(pending_frames[c])]
      BY <2>3, ZenonT(20) DEF pop_frame, Send, At
    <3>2. response[c] \notin Items
      BY <1>1, <3>1, NoTaskWhen, NotItems, ZenonT(20)
    <3>3. owed[c] = pending_frames[c]
      BY <1>1, <3>1, <3>2, ZenonT(20) DEF DInv, InOrder
    <3> QED
      BY <3>1, <3>3
  <2> QED
    BY <2>1, <2>2, <2>3, ZenonT(20)
<1> QED
  BY <1>1, OrderInvariance, PTL DEF Spec, DeliveredInOrder
=============================================================================
