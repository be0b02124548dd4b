------------------------------- MODULE PubSub -------------------------------
(***************************************************************************)
(* Pub/Sub: the worker of src/command_processor.cpp, the connection threads *)
(* of src/server.cpp and the session of src/pubsub.cpp that they share.     *)
(*                                                                         *)
(* A connection submits a command and waits for the answer.  For a client  *)
(* that has subscriptions the worker puts the answer, like every message   *)
(* published to the client, into the frame queue of its session and writes *)
(* the session's eventfd if the queue was empty; the connection polls that *)
(* eventfd beside its socket.  The queue has a mutex, the eventfd has not, *)
(* so the two steps of `enqueue` interleave with clear_notification.       *)
(*                                                                         *)
(* The default user has no password, so no command is refused for lack of  *)
(* authentication.  Frames carry the number of the command they stem from. *)
(***************************************************************************)
EXTENDS Naturals, Sequences

CONSTANTS
  Clients,       \* connections, one client id each
  Nobody,        \* not a client
  Channels,      \* channel names
  MaxCommands    \* bound on the commands submitted

ASSUME PubSubAssumption == Nobody \notin Clients /\ MaxCommands \in Nat

VARIABLES
  registered,            \* the client ids in _clients
  client_subscriptions,  \* _client_subscriptions, {} for a client it lacks
  channel_subscribers,   \* _channel_subscribers, {} for a channel it lacks
  tasks,                 \* _tasks
  current,               \* the client whose task the worker executes, or Nobody
  recipients,            \* sessions the worker has still to enqueue `frame` in
  frame,                 \* the frame of the task
  reply,                 \* what the task's promise will be set to
  holding,               \* the session whose mutex `enqueue` holds, or Nobody
  pending_frames,        \* _pending_frames of each session
  notified,              \* whether the eventfd of the session is readable
  conn,                  \* where handle_connection is, and where it goes after a flush
  response,              \* the promise the connection waits for
  submitted,             \* number of commands so far
  owed,                  \* history: what the worker produced for a client and was not sent
  sent                   \* the item the last step wrote to a socket, or NotSent

maps == <<registered, client_subscriptions, channel_subscribers>>
worker == <<current, recipients, frame, reply, holding>>
sessions == <<pending_frames, notified>>
connections == <<conn, response>>
vars == <<maps, tasks, worker, sessions, connections, submitted, owed, sent>>

Command == [op: {"SUBSCRIBE"}, channels: SUBSET Channels \ {{}}]
           \cup [op: {"UNSUBSCRIBE"}, channels: SUBSET Channels]    \* {}: from all
           \cup [op: {"PUBLISH"}, channel: Channels]
           \cup [op: {"PING", "GET"}]
Registration == [op: {"REGISTER", "UNREGISTER"}]

Item(kind, n) == [kind |-> kind, n |-> n]
Items == [kind: {"reply", "error", "message", "subscribe", "unsubscribe"}, n: Nat]
Unset == [kind |-> "unset"]       \* the promise is not set
Done == [kind |-> "done"]         \* std::future<void>
NoResponse == [kind |-> "none"]   \* resp::NoResponse: the answer is in the frame queue
NotSent == [client |-> Nobody, item |-> NoResponse]

is_subscribed(c) == client_subscriptions[c] # {}

Init ==
  /\ registered = {}
  /\ client_subscriptions = [c \in Clients |-> {}]
  /\ channel_subscribers = [ch \in Channels |-> {}]
  /\ tasks = <<>>
  /\ current = Nobody /\ recipients = {} /\ holding = Nobody
  /\ frame = NoResponse /\ reply = NoResponse
  /\ pending_frames = [c \in Clients |-> <<>>]
  /\ notified = [c \in Clients |-> FALSE]
  /\ conn = [c \in Clients |-> [pc |-> "new", then |-> "poll"]]
  /\ response = [c \in Clients |-> Unset]
  /\ submitted = 0
  /\ owed = [c \in Clients |-> <<>>]
  /\ sent = NotSent

-----------------------------------------------------------------------------
(* The worker takes a task *)

Take(c, op) ==
  /\ current = Nobody
  /\ tasks # <<>>
  /\ Head(tasks).client = c /\ Head(tasks).cmd.op = op
  /\ tasks' = Tail(tasks)

(* The task of c puts f into the sessions of `to` and is answered with r. *)
Produce(c, to, f, r) ==
  /\ current' = c
  /\ recipients' = to
  /\ frame' = f
  /\ reply' = r
  /\ sent' = NotSent
  /\ UNCHANGED <<holding, sessions, connections, submitted, owed>>

(* enqueue_pubsub_response: into the session of the client, if it is registered. *)
ProduceQueued(c, f) ==
  Produce(c, {c} \cap registered, f,
          IF c \in registered THEN NoResponse ELSE Item("error", f.n))

process_client_registration(c) ==
  /\ Take(c, "REGISTER")
  /\ registered' = registered \cup {c}
  /\ Produce(c, {}, NoResponse, Done)
  /\ UNCHANGED <<client_subscriptions, channel_subscribers>>

(* Faulty variant: the channel keeps the client.                              *)
remove_subscriptions_one_map(c, chs) ==
  /\ client_subscriptions' = [client_subscriptions EXCEPT ![c] = @ \ chs]
  /\ UNCHANGED channel_subscribers

(* Both maps lose the subscriptions of c to the channels chs. *)
remove_subscriptions(c, chs) ==
  /\ client_subscriptions' = [client_subscriptions EXCEPT ![c] = @ \ chs]
  /\ channel_subscribers' = [ch \in Channels |->
                               IF ch \in chs \cap client_subscriptions[c]
                               THEN channel_subscribers[ch] \ {c} ELSE channel_subscribers[ch]]

process_client_unregistration(c) ==
  /\ Take(c, "UNREGISTER")
  /\ remove_subscriptions(c, client_subscriptions[c])
  /\ registered' = registered \ {c}
  /\ Produce(c, {}, NoResponse, Done)

(* A subscribed client may only SUBSCRIBE, UNSUBSCRIBE and PING. *)
RefuseWhileSubscribed(c) ==
  /\ Take(c, "PUBLISH") \/ Take(c, "GET")
  /\ is_subscribed(c)
  /\ ProduceQueued(c, Item("error", Head(tasks).n))
  /\ UNCHANGED maps

subscribe(c) ==
  /\ Take(c, "SUBSCRIBE")
  /\ LET chs == IF c \in registered THEN Head(tasks).cmd.channels ELSE {}
     IN /\ client_subscriptions' = [client_subscriptions EXCEPT ![c] = @ \cup chs]
        /\ channel_subscribers' = [ch \in Channels |->
                                     IF ch \in chs THEN channel_subscribers[ch] \cup {c}
                                     ELSE channel_subscribers[ch]]
  /\ ProduceQueued(c, Item("subscribe", Head(tasks).n))
  /\ UNCHANGED registered

unsubscribe(c) ==
  /\ Take(c, "UNSUBSCRIBE")
  /\ LET chs == Head(tasks).cmd.channels
     IN remove_subscriptions(c, IF c \notin registered THEN {}
                                ELSE IF chs = {} THEN client_subscriptions[c] ELSE chs)
  /\ ProduceQueued(c, Item("unsubscribe", Head(tasks).n))
  /\ UNCHANGED registered

(* A subscriber whose session is gone is dropped on the way. *)
publish(c) ==
  /\ Take(c, "PUBLISH")
  /\ ~is_subscribed(c)
  /\ LET ch == Head(tasks).cmd.channel
         gone == channel_subscribers[ch] \ registered
     IN /\ channel_subscribers' = [channel_subscribers EXCEPT ![ch] = @ \ gone]
        /\ client_subscriptions' = [s \in Clients |->
                                      IF s \in gone THEN client_subscriptions[s] \ {ch}
                                      ELSE client_subscriptions[s]]
        /\ Produce(c, channel_subscribers[ch] \cap registered,
                   Item("message", Head(tasks).n), Item("reply", Head(tasks).n))
  /\ UNCHANGED registered

(* Faulty variant: only the acknowledgements of subscriptions are queued.     *)
answers_through_session_never(c) == FALSE

(* The answer to a subscribed client takes the way of its messages. *)
answers_through_session(c) == is_subscribed(c)

(* PING, and any other command of a client that has no subscription. *)
AnswerPlain(c) ==
  /\ Take(c, "PING") \/ (Take(c, "GET") /\ ~is_subscribed(c))
  /\ LET item == Item("reply", Head(tasks).n)
     IN IF answers_through_session(c) THEN ProduceQueued(c, item)
        ELSE Produce(c, {}, NoResponse, item)
  /\ UNCHANGED maps

-----------------------------------------------------------------------------
(* PubSubSession::enqueue for each recipient, then the promise *)

(* Faulty variant: notifies at the second frame.                              *)
notification_needed_late(c) == Len(pending_frames[c]) = 1

notification_needed(c) == pending_frames[c] = <<>>

(* Under the mutex, up to the write to the eventfd. *)
EnqueueFrame(c) ==
  /\ c \in recipients /\ holding = Nobody
  /\ pending_frames' = [pending_frames EXCEPT ![c] = Append(@, frame)]
  /\ owed' = [owed EXCEPT ![c] = Append(@, frame)]
  /\ IF notification_needed(c)
     THEN holding' = c /\ UNCHANGED recipients
     ELSE recipients' = recipients \ {c} /\ UNCHANGED holding
  /\ sent' = NotSent
  /\ UNCHANGED <<maps, tasks, current, frame, reply, notified, connections, submitted>>

(* The write, and the end of the critical section. *)
Notify(c) ==
  /\ holding = c
  /\ notified' = [notified EXCEPT ![c] = TRUE]
  /\ holding' = Nobody
  /\ recipients' = recipients \ {c}
  /\ sent' = NotSent
  /\ UNCHANGED <<maps, tasks, current, frame, reply, pending_frames, connections, submitted,
                 owed>>

Complete ==
  /\ current # Nobody /\ recipients = {}
  /\ response' = [response EXCEPT ![current] = reply]
  /\ owed' = IF reply \in Items THEN [owed EXCEPT ![current] = Append(@, reply)] ELSE owed
  /\ current' = Nobody
  /\ sent' = NotSent
  /\ UNCHANGED <<maps, tasks, recipients, frame, reply, holding, sessions, conn, submitted>>
-----------------------------------------------------------------------------
(* handle_connection *)

At(c, pc) == c \in Clients /\ conn[c].pc = pc
GoTo(c, pc) == conn' = [conn EXCEPT ![c].pc = pc]

SubmitTask(c, cmd) == tasks' = Append(tasks, [client |-> c, cmd |-> cmd, n |-> submitted'])

(* The connection writes an item to its socket. *)
Send(c, item) ==
  /\ sent' = [client |-> c, item |-> item]
  /\ owed' = [owed EXCEPT ![c] = IF @ = <<>> THEN @ ELSE Tail(@)]

Register(c) ==
  /\ At(c, "new")
  /\ UNCHANGED submitted
  /\ SubmitTask(c, [op |-> "REGISTER"])
  /\ GoTo(c, "register")
  /\ sent' = NotSent
  /\ UNCHANGED <<maps, worker, sessions, response, owed>>

Registered(c) ==
  /\ At(c, "register") /\ response[c] # Unset
  /\ response' = [response EXCEPT ![c] = Unset]
  /\ GoTo(c, "poll")
  /\ sent' = NotSent
  /\ UNCHANGED <<maps, tasks, worker, sessions, submitted, owed>>

(* poll returns: the eventfd is readable, or there is input, or both. *)
Poll(c) ==
  /\ At(c, "poll")
  /\ \E input \in BOOLEAN :
       /\ notified[c] \/ input
       /\ conn' = [conn EXCEPT ![c] = [pc |-> IF notified[c] THEN "clear" ELSE "input",
                                       then |-> IF input THEN "input" ELSE "poll"]]
  /\ sent' = NotSent
  /\ UNCHANGED <<maps, tasks, worker, sessions, response, submitted, owed>>

(* The input buffer holds a complete command... *)
Submit(c) ==
  /\ At(c, "input")
  /\ submitted < MaxCommands
  /\ submitted' = submitted + 1
  /\ \E cmd \in Command : SubmitTask(c, cmd)
  /\ GoTo(c, "wait")
  /\ sent' = NotSent
  /\ UNCHANGED <<maps, worker, sessions, response, owed>>

(* ... or does not. *)
Incomplete(c) ==
  /\ At(c, "input")
  /\ GoTo(c, "poll")
  /\ sent' = NotSent
  /\ UNCHANGED <<maps, tasks, worker, sessions, response, submitted, owed>>

(* An answer is sent; if it was queued, the queue is flushed. *)
Answered(c) ==
  /\ At(c, "wait") /\ response[c] # Unset
  /\ response' = [response EXCEPT ![c] = Unset]
  /\ IF response[c] = NoResponse
     THEN /\ conn' = [conn EXCEPT ![c] = [pc |-> "clear", then |-> "input"]]
          /\ sent' = NotSent
          /\ UNCHANGED owed
     ELSE GoTo(c, "input") /\ Send(c, response[c])
  /\ UNCHANGED <<maps, tasks, worker, sessions, submitted>>

clear_notification(c) ==
  /\ At(c, "clear")
  /\ notified' = [notified EXCEPT ![c] = FALSE]
  /\ GoTo(c, "drain")
  /\ sent' = NotSent
  /\ UNCHANGED <<maps, tasks, worker, pending_frames, response, submitted, owed>>

(* pop_frame, and the frame is sent; or the queue is empty. *)
pop_frame(c) ==
  /\ At(c, "drain") /\ holding # c
  /\ IF pending_frames[c] = <<>>
     THEN GoTo(c, conn[c].then) /\ sent' = NotSent /\ UNCHANGED <<pending_frames, owed>>
     ELSE /\ pending_frames' = [pending_frames EXCEPT ![c] = Tail(@)]
          /\ Send(c, Head(pending_frames[c]))
          /\ UNCHANGED conn
  /\ UNCHANGED <<maps, tasks, worker, notified, response, submitted>>

(* The client is gone, or a write to its socket failed. *)
Disconnect(c) ==
  /\ \/ At(c, "poll") \/ At(c, "input")
     \/ At(c, "wait") /\ response[c] # Unset
     \/ At(c, "drain") /\ holding # c /\ pending_frames[c] # <<>>
  /\ UNCHANGED submitted
  /\ SubmitTask(c, [op |-> "UNREGISTER"])
  /\ GoTo(c, "unregister")
  /\ response' = [response EXCEPT ![c] = Unset]
  /\ sent' = NotSent
  /\ UNCHANGED <<maps, worker, sessions, owed>>

(* handle_connection returns and the session is destroyed. *)
Close(c) ==
  /\ At(c, "unregister") /\ response[c] # Unset
  /\ GoTo(c, "closed")
  /\ response' = [response EXCEPT ![c] = Unset]
  /\ pending_frames' = [pending_frames EXCEPT ![c] = <<>>]
  /\ notified' = [notified EXCEPT ![c] = FALSE]
  /\ owed' = [owed EXCEPT ![c] = <<>>]
  /\ sent' = NotSent
  /\ UNCHANGED <<maps, tasks, worker, submitted>>

-----------------------------------------------------------------------------
Process(c) ==
  \/ process_client_registration(c)
  \/ process_client_unregistration(c)
  \/ RefuseWhileSubscribed(c)
  \/ subscribe(c)
  \/ unsubscribe(c)
  \/ publish(c)
  \/ AnswerPlain(c)
  \/ EnqueueFrame(c)
  \/ Notify(c)

WorkerStep == (\E c \in Clients : Process(c)) \/ Complete

(* What a connection does by itself, given a client that reads its socket. *)
ConnectionStep(c) ==
  \/ Registered(c)
  \/ Poll(c)
  \/ Incomplete(c)
  \/ Answered(c)
  \/ clear_notification(c)
  \/ pop_frame(c)
  \/ Close(c)

Next ==
  \/ WorkerStep
  \/ \E c \in Clients : ConnectionStep(c) \/ Register(c) \/ Submit(c) \/ Disconnect(c)

Spec == Init /\ [][Next]_vars

(* The worker and the connection threads keep running. *)
FairSpec == Spec /\ WF_vars(WorkerStep) /\ \A c \in Clients : WF_vars(ConnectionStep(c))
-----------------------------------------------------------------------------
(* Properties *)

Replies == Items \cup {NoResponse, Done}
Task == [client: Clients, cmd: Command \cup Registration, n: Nat]

(* Every variable stays in the range its C++ type and the code give it. *)
TypeOK ==
  /\ registered \subseteq Clients
  /\ client_subscriptions \in [Clients -> SUBSET Channels]
  /\ channel_subscribers \in [Channels -> SUBSET Clients]
  /\ tasks \in Seq(Task)
  /\ current \in Clients \cup {Nobody}
  /\ recipients \subseteq Clients
  /\ frame \in Items \cup {NoResponse}
  /\ reply \in Replies
  /\ holding \in Clients \cup {Nobody}
  /\ pending_frames \in [Clients -> Seq(Items)]
  /\ notified \in [Clients -> BOOLEAN]
  /\ conn \in [Clients -> [pc: {"new", "register", "poll", "input", "wait", "clear", "drain",
                                "unregister", "closed"},
                           then: {"poll", "input"}]]
  /\ response \in [Clients -> Replies \cup {Unset}]
  /\ submitted \in Nat

(* The two subscription maps say the same, and only registered clients are in  *)
(* them: publish never meets a subscriber that has disconnected, and a client  *)
(* that is gone leaves nothing behind (process_client_unregistration).         *)
SubscriptionsAgree ==
  \A c \in Clients, ch \in Channels :
    /\ c \in channel_subscribers[ch] <=> ch \in client_subscriptions[c]
    /\ c \in channel_subscribers[ch] => c \in registered

(* A connection never sleeps in poll beside a frame: its eventfd is readable,  *)
(* or the worker, inside enqueue, is about to write it.  The connection reads  *)
(* the eventfd before it empties the queue.                                    *)
NoLostWakeup ==
  \A c \in Clients :
    conn[c].pc = "poll" /\ pending_frames[c] # <<>> => notified[c] \/ holding = c

(* A connection sends what the worker produced for its client, answers and     *)
(* messages alike, in the order in which the worker produced it, although      *)
(* answers come by promise or by frame.                                        *)
DeliveredInOrder ==
  [][sent' # NotSent => /\ owed[sent'.client] # <<>>
                        /\ sent'.item = Head(owed[sent'.client])]_vars

(* Every frame that is queued for a client is sent, or the connection ends.    *)
FramesSent ==
  \A c \in Clients, n \in 1..MaxCommands :
    (\E i \in DOMAIN pending_frames[c] : pending_frames[c][i].n = n)
    ~> ~(\E i \in DOMAIN pending_frames[c] : pending_frames[c][i].n = n)
=============================================================================
