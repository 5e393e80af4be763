------------------------------- MODULE PubSub -------------------------------
(***************************************************************************)
(* PubSubService of Drogon: named topics, made by the first subscriber and *)
(* dropped with the last, used by several threads.  A reader-writer lock   *)
(* guards the map of topics, another one the subscribers of each topic: a  *)
(* section under the first is one step, as what it reads changes under the *)
(* exclusive lock only; Topic::publish() holds the second over many steps. *)
(* Handlers only take the message: one that subscribes or unsubscribes     *)
(* would ask for a lock that its own thread holds.                         *)
(***************************************************************************)
EXTENDS Integers, Sequences, FiniteSets

CONSTANTS Threads,      \* threads; each one has at most one subscription at a time
          Names,        \* topic names
          MaxOps,       \* bound on the calls of every thread
          MaxTopics     \* bound on the topics that are made

VARIABLES
  topicMap,     \* topicMap_: name to topic, 0 when there is none
  topics,       \* the topics made: [ids: subscriber id to thread, next: id_]
  inTopic,      \* by topic, threads inside Topic::publish(), which hold its lock shared
  pc,           \* where each thread is
  name,         \* ... the topic name of its call
  topic,        \* ... the topic it has found
  todo,         \* ... publish(): handlers still to call, <<id, thread>>
  sub,          \* the subscription of a thread: the name and the id it was given, and
                \* (ghost) the topic; or NoSub
  owed,         \* ghost: by publishing thread, subscribers that have to hear of it
  told,         \* ghost: ... and those that have
  stray,        \* ghost: a handler was called after its unsubscribe() had returned
  removed,      \* ghost: topics that removeTopic() took from the map
  victims,      \* ghost: threads whose handler was erased by another's unsubscribe()
  ops

psVars == <<topicMap, topics, inTopic, pc, name, topic, todo, sub, owed, told, stray,
            removed, victims, ops>>

NoSub == [name |-> "", id |-> 0, topic |-> 0]

\* Topic: subscribe(), unsubscribe(), empty(), each under the topic's lock.
TopicSubscribe(t, th) ==
  LET id == t.next + 1
  IN [ids |-> [k \in DOMAIN t.ids \cup {id} |-> IF k = id THEN th ELSE t.ids[k]], next |-> id]
TopicUnsubscribe(t, id) == [t EXCEPT !.ids = [k \in DOMAIN t.ids \ {id} |-> t.ids[k]]]
Empty(t) == DOMAIN t.ids = {}
NewTopic == [ids |-> <<>>, next |-> 0]

PSTypeOK ==
  /\ topicMap \in [Names -> 0 .. Len(topics)] /\ Len(topics) <= MaxTopics
  /\ pc \in [Threads -> {"idle", "subscribe", "create", "unsubscribe", "drop", "publish", "deliver"}]
  /\ \A th \in Threads : sub[th].id \in Nat /\ topic[th] \in 0 .. Len(topics)

PSInit ==
  /\ topicMap = [n \in Names |-> 0] /\ topics = <<>> /\ inTopic = <<>>
  /\ pc = [th \in Threads |-> "idle"] /\ name = [th \in Threads |-> ""]
  /\ topic = [th \in Threads |-> 0] /\ todo = [th \in Threads |-> {}]
  /\ sub = [th \in Threads |-> NoSub] /\ owed = [th \in Threads |-> {}]
  /\ told = [th \in Threads |-> {}] /\ stray = FALSE /\ removed = {} /\ victims = {} /\ ops = [th \in Threads |-> 0]

Go(th, at) == pc' = [pc EXCEPT ![th] = at]
Subscribed(th, n, id, t) == sub' = [sub EXCEPT ![th] = [name |-> n, id |-> id, topic |-> t]]

\* The threads that are subscribed to a name, and not on their way out.
Attached(th) == sub[th].id # 0 /\ sub[th].topic \notin removed /\ th \notin victims
Listeners(n) == {th \in Threads : sub[th].name = n /\ Attached(th) /\ pc[th] # "unsubscribe"}

\* A call begins: a free thread subscribes, as one may whose topic was removed, a
\* subscriber unsubscribes, any publishes.  What a message owes is fixed here: the threads that are subscribed.
Begin(th, n, at) ==
  /\ pc[th] = "idle" /\ ops[th] < MaxOps[th] /\ ops' = [ops EXCEPT ![th] = @ + 1]
  /\ at = "subscribe" => ~Attached(th)
  /\ at = "unsubscribe" => sub[th].name = n
  /\ name' = [name EXCEPT ![th] = n] /\ Go(th, at)
  /\ owed' = [d \in Threads |-> IF d = th THEN IF at = "publish" THEN Listeners(n) ELSE {}
                                ELSE IF at = "unsubscribe" THEN owed[d] \ {th} ELSE owed[d]]
  /\ told' = [told EXCEPT ![th] = {}]
  /\ UNCHANGED <<topicMap, topics, inTopic, topic, todo, sub, stray, removed, victims>>

\* subscribeToTopic(), under the shared lock: the topic is there, or not.
SubscribeToTopic(th) ==
  LET t == topicMap[name[th]] IN
  /\ pc[th] = "subscribe"
  /\ \/ /\ t # 0 /\ inTopic[t] = {}
        /\ topics' = [topics EXCEPT ![t] = TopicSubscribe(@, th)]
        /\ Subscribed(th, name[th], topics[t].next + 1, t) /\ Go(th, "idle")
        /\ victims' = victims \ {th}
     \/ t = 0 /\ Go(th, "create") /\ UNCHANGED <<topics, sub, victims>>
  /\ UNCHANGED <<topicMap, inTopic, name, topic, todo, owed, told, stray, removed, ops>>

\* A plausible bug: the map is not looked at again under the exclusive lock.
MutFound(n) == 0

\* The topic that another thread has made in the meantime.
Found(n) == topicMap[n]

\* subscribeToTopic(), under the exclusive lock: it is looked up again, and made.
CreateTopic(th) ==
  LET n == name[th] t == Found(n) IN
  /\ pc[th] = "create"
  /\ \/ /\ t # 0 /\ inTopic[t] = {}
        /\ topics' = [topics EXCEPT ![t] = TopicSubscribe(@, th)]
        /\ Subscribed(th, n, topics[t].next + 1, t)
        /\ UNCHANGED <<topicMap, inTopic>>
     \/ /\ t = 0 /\ Len(topics) < MaxTopics
        /\ topics' = Append(topics, TopicSubscribe(NewTopic, th)) /\ inTopic' = Append(inTopic, {})
        /\ topicMap' = [topicMap EXCEPT ![n] = Len(topics')]
        /\ Subscribed(th, n, 1, Len(topics'))
  /\ victims' = victims \ {th} /\ Go(th, "idle")
  /\ UNCHANGED <<name, topic, todo, owed, told, stray, removed, ops>>

\* A plausible bug: Topic::unsubscribe() does not wait for the messages on their way.
MutQuiet(t) == TRUE

\* The topic's lock can be had exclusively.
Quiet(t) == inTopic[t] = {}

\* unsubscribe(), under the shared lock: the topic's own lock is exclusive, so it
\* waits for messages on their way; then the topic may be empty.  Ids are counted
\* by topic: when its own was removed meanwhile it takes the subscription of
\* whoever has the same id in the topic that has the name now.
Unsubscribe(th) ==
  LET n == name[th] t == topicMap[n] id == sub[th].id
      others == IF t = 0 \/ t = sub[th].topic \/ id \notin DOMAIN topics[t].ids THEN {}
                ELSE {topics[t].ids[id]}
  IN
  /\ pc[th] = "unsubscribe"
  /\ \/ /\ t # 0 /\ Quiet(t)
        /\ topics' = [topics EXCEPT ![t] = TopicUnsubscribe(@, id)]
        /\ Go(th, IF Empty(topics'[t]) THEN "drop" ELSE "idle")
     \/ t = 0 /\ Go(th, "idle") /\ UNCHANGED topics
  /\ sub' = [sub EXCEPT ![th] = NoSub]
  /\ victims' = (victims \ {th}) \cup others
  /\ owed' = [d \in Threads |-> owed[d] \ others]
  /\ UNCHANGED <<topicMap, inTopic, name, topic, todo, told, stray, removed, ops>>

\* A plausible bug: the topic is dropped without looking again.
MutDrops(n) == TRUE

\* Under the exclusive lock, the topic is still empty.
Drops(n) == Empty(topics[topicMap[n]])

DropTopic(th) ==
  LET n == name[th] IN
  /\ pc[th] = "drop"
  /\ topicMap' = IF topicMap[n] # 0 /\ Drops(n) THEN [topicMap EXCEPT ![n] = 0] ELSE topicMap
  /\ Go(th, "idle")
  /\ UNCHANGED <<topics, inTopic, name, topic, todo, sub, owed, told, stray, removed, victims, ops>>

\* removeTopic(), and clear() when there is one name.  Who publishes to the topic
\* keeps it, and nobody tells its subscribers.
RemoveTopic(th, n) ==
  /\ pc[th] = "idle" /\ ops[th] < MaxOps[th] /\ ops' = [ops EXCEPT ![th] = @ + 1]
  /\ topicMap[n] # 0 /\ topicMap' = [topicMap EXCEPT ![n] = 0]
  /\ removed' = removed \cup {topicMap[n]}
  /\ owed' = [d \in Threads |-> owed[d] \ Listeners(n)]
  /\ UNCHANGED <<topics, inTopic, pc, name, topic, todo, sub, told, stray, victims>>

\* publish(): the topic is found under the shared lock, which is then given back;
\* Topic::publish() calls the handlers under the topic's lock, one by one.
Publish(th) ==
  LET t == topicMap[name[th]] IN
  /\ pc[th] = "publish"
  /\ \/ t = 0 /\ Go(th, "idle") /\ UNCHANGED topic
     \/ t # 0 /\ Go(th, "deliver") /\ topic' = [topic EXCEPT ![th] = t]
  /\ UNCHANGED <<topicMap, topics, inTopic, name, todo, sub, owed, told, stray, removed, victims, ops>>

TopicPublish(th) ==
  LET t == topic[th] IN
  /\ pc[th] = "deliver" /\ th \notin inTopic[t]
  /\ inTopic' = [inTopic EXCEPT ![t] = @ \cup {th}]
  /\ todo' = [todo EXCEPT ![th] = {<<id, topics[t].ids[id]>> : id \in DOMAIN topics[t].ids}]
  /\ UNCHANGED <<topicMap, topics, pc, name, topic, sub, owed, told, stray, removed, victims, ops>>

Deliver(th, h) ==
  /\ pc[th] = "deliver" /\ th \in inTopic[topic[th]] /\ h \in todo[th]
  /\ todo' = [todo EXCEPT ![th] = @ \ {h}]
  /\ told' = [told EXCEPT ![th] = @ \cup {h[2]}]
  /\ stray' = (stray \/ (topic[th] \notin removed /\ sub[h[2]].topic # topic[th]))
  /\ UNCHANGED <<topicMap, topics, inTopic, pc, name, topic, sub, owed, removed, victims, ops>>

Published(th) ==
  LET t == topic[th] IN
  /\ pc[th] = "deliver" /\ th \in inTopic[t] /\ todo[th] = {}
  /\ inTopic' = [inTopic EXCEPT ![t] = @ \ {th}] /\ Go(th, "idle")
  /\ topic' = [topic EXCEPT ![th] = 0]
  /\ UNCHANGED <<topicMap, topics, name, todo, sub, owed, told, stray, removed, victims, ops>>

PSNext ==
  \E th \in Threads :
    \/ \E n \in Names, at \in {"subscribe", "unsubscribe", "publish"} : Begin(th, n, at)
    \/ SubscribeToTopic(th) \/ CreateTopic(th) \/ Unsubscribe(th) \/ DropTopic(th)
    \/ Publish(th) \/ TopicPublish(th) \/ Published(th)
    \/ \E n \in Names : RemoveTopic(th, n)
    \/ \E h \in todo[th] : Deliver(th, h)

PSSpec == PSInit /\ [][PSNext]_psVars

(***************************************************************************)
(* Properties.                                                             *)
(***************************************************************************)

\* A message reaches every thread whose subscribe() had returned before publish()
\* was called, unless it calls unsubscribe() or its topic is removed meanwhile, or
\* it is the victim of another's unsubscribe().
AllHear == \A th \in Threads : pc[th] = "idle" => owed[th] \subseteq told[th]

\* No handler is called after its unsubscribe() has returned: that waits for the
\* messages on their way (not for those of a topic that was removed, which it does
\* not find any more).
NoneHeardAfter == ~stray

\* A subscriber is registered with the topic that the map gives for its name: the
\* last one's leaving never takes the topic from under a new one.  A subscriber is
\* lost with its topic, and to an unsubscribe() with an id of a topic that was
\* removed (or of a victim of one), but to nothing else.
SubscribersReachable ==
  /\ \A th \in Threads : Attached(th) =>
       LET t == topicMap[sub[th].name]
       IN t # 0 /\ t = sub[th].topic /\ sub[th].id \in DOMAIN topics[t].ids
          /\ topics[t].ids[sub[th].id] = th
  /\ removed = {} => victims = {}
=============================================================================
