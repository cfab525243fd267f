--------------------------- MODULE LiveFeedProofs ---------------------------
(***************************************************************************)
(* The feed of the dashboard is in order and fed by one socket, proved     *)
(* from OrderInvariant for any number of events, mounts and failures and    *)
(* any length of the feed.                                                 *)
(***************************************************************************)
EXTENDS LiveFeed, TLAPS

-----------------------------------------------------------------------------
(* Sequences of events *)

LEMMA EventsAreNumbers == Events \subseteq Nat
BY BoundsAssumption DEF Events

LEMMA ElementsAreNumbers ==
  ASSUME NEW s \in Seq(Events), NEW i \in 1..Len(s)
  PROVE  s[i] \in Nat
<1>1. s[i] \in Events
  OBVIOUS
<1>2. QED
  BY <1>1, EventsAreNumbers

LEMMA TailElements ==
  ASSUME NEW s \in Seq(Events), s # <<>>
  PROVE  /\ Tail(s) \in Seq(Events) /\ Len(Tail(s)) = Len(s) - 1
         /\ \A i \in 1..Len(Tail(s)) : Tail(s)[i] = s[i + 1]
         /\ Head(s) = s[1] /\ Head(s) \in Events /\ Len(s) \in Nat \ {0}
OBVIOUS

LEMMA AppendElements ==
  ASSUME NEW s \in Seq(Events), NEW e \in Events
  PROVE  /\ Append(s, e) \in Seq(Events) /\ Len(Append(s, e)) = Len(s) + 1
         /\ Len(s) \in Nat
         /\ \A i \in 1..Len(s) : Append(s, e)[i] = s[i]
         /\ Append(s, e)[Len(s) + 1] = e
OBVIOUS

\* Taking the first event from a sequence
LEMMA TailOrder ==
  ASSUME NEW s \in Seq(Events), NEW t \in Seq(Events), NEW n \in Nat, s # <<>>
  PROVE  /\ Ascending(s) => Ascending(Tail(s)) /\ \A i \in 1..Len(Tail(s)) : Head(s) < Tail(s)[i]
         /\ Before(s, t) => Before(Tail(s), t) /\ \A i \in 1..Len(t) : Head(s) < t[i]
         /\ Before(t, s) => Before(t, Tail(s)) /\ \A i \in 1..Len(t) : t[i] < Head(s)
         /\ AtMost(s, n) => AtMost(Tail(s), n) /\ Head(s) <= n
<1> DEFINE u == Tail(s)
<1>1. /\ Len(u) = Len(s) - 1 /\ Len(s) \in Nat \ {0}
      /\ \A i \in 1..Len(u) : u[i] = s[i + 1]
      /\ Head(s) = s[1]
  BY TailElements
<1>2. \A i \in 1..Len(u) : i + 1 \in 1..Len(s) /\ 1 < i + 1
  BY <1>1
<1> HIDE DEF u
<1>3. QED
  BY <1>1, <1>2 DEF Ascending, Before, AtMost, u

\* Putting an event at the end of a sequence
LEMMA AppendOrder ==
  ASSUME NEW s \in Seq(Events), NEW t \in Seq(Events), NEW n \in Nat, NEW e \in Events
  PROVE  /\ Ascending(s) /\ (\A i \in 1..Len(s) : s[i] < e) => Ascending(Append(s, e))
         /\ Before(s, t) /\ (\A i \in 1..Len(t) : e < t[i]) => Before(Append(s, e), t)
         /\ Before(t, s) /\ (\A i \in 1..Len(t) : t[i] < e) => Before(t, Append(s, e))
         /\ AtMost(s, n) /\ e <= n => AtMost(Append(s, e), n)
<1> DEFINE u == Append(s, e)
<1>1. /\ Len(u) = Len(s) + 1 /\ Len(s) \in Nat
      /\ \A i \in 1..Len(s) : u[i] = s[i]
      /\ u[Len(s) + 1] = e
  BY AppendElements
<1>2. \A i \in 1..Len(u) : i \in 1..Len(s) \/ i = Len(s) + 1
  BY <1>1
<1> HIDE DEF u
<1>3. QED
  BY <1>1, <1>2 DEF Ascending, Before, AtMost, u

LEMMA EmptyOrder ==
  ASSUME NEW s, NEW n
  PROVE  Ascending(<<>>) /\ Before(<<>>, s) /\ Before(s, <<>>) /\ AtMost(<<>>, n)
<1>1. 1..Len(<<>>) = {}
  OBVIOUS
<1>2. QED
  BY <1>1 DEF Ascending, Before, AtMost

\* The feed after an event: the event, then the feed up to its length.
LEMMA CutElements ==
  ASSUME NEW s \in Seq(Events), NEW e \in Events
  PROVE  LET t == Cut(<<e>> \o s) IN
         /\ t \in Seq(Events)
         /\ Len(t) \in 1..(Len(s) + 1) /\ Len(t) <= MaxEvents
         /\ (Len(t) = Len(s) + 1 \/ Len(t) = MaxEvents)
         /\ t[1] = e
         /\ \A i \in 2..Len(t) : t[i] = s[i - 1]
<1> USE MaxEventsAssumption
<1> DEFINE u == <<e>> \o s
           n == IF Len(u) < MaxEvents THEN Len(u) ELSE MaxEvents
<1>1. /\ u \in Seq(Events) /\ Len(u) = Len(s) + 1
      /\ u[1] = e
      /\ \A i \in 2..Len(u) : u[i] = s[i - 1]
  OBVIOUS
<1>2. n \in 1..Len(u) /\ n <= MaxEvents /\ (n = Len(u) \/ n = MaxEvents)
  BY <1>1
<1>3. /\ SubSeq(u, 1, n) \in Seq(Events) /\ Len(SubSeq(u, 1, n)) = n
      /\ \A i \in 1..n : SubSeq(u, 1, n)[i] = u[i]
  BY <1>1, <1>2
<1> HIDE DEF u, n
<1>4. QED
  BY <1>1, <1>2, <1>3 DEF Cut, u, n

-----------------------------------------------------------------------------
(* The gateway *)

LEMMA OrderInvariantInit == FeedInit => OrderInvariant
<1> SUFFICES ASSUME FeedInit PROVE OrderInvariant
  OBVIOUS
<1>1. 1 \in Mounts /\ 0 \in 0..MaxPublished /\ 0 \in 0..MaxFailures /\ 0 <= MaxEvents
  BY MaxMountsAssumption, MaxEventsAssumption, BoundsAssumption DEF Mounts
<1>2. <<>> \in Seq(Events) /\ Len(<<>>) = 0
  OBVIOUS
<1>3. FeedTypeOK
  BY <1>1, <1>2 DEF FeedInit, FeedTypeOK
<1>4. FeedInOrder /\ OneLiveSocket /\ OldMountsCut
  BY <1>2 DEF FeedInit, FeedInOrder, OneLiveSocket, OldMountsCut
<1>5. PipelineInOrder
  BY EmptyOrder DEF FeedInit, PipelineInOrder
<1>6. QED
  BY <1>3, <1>4, <1>5 DEF OrderInvariant

LEMMA PublishStep ==
  ASSUME OrderInvariant, Publish
  PROVE  OrderInvariant'
<1> USE DEF OrderInvariant, FeedTypeOK
<1> DEFINE e == published + 1
<1>1. e \in Events /\ e \in 0..MaxPublished /\ published \in Nat /\ published < e /\ e \in Nat
  BY BoundsAssumption DEF Publish, Events
<1>2. /\ UNCHANGED <<subscribed, pageVars, clients, wire, failures, joined>>
      /\ published' = e
  BY DEF Publish
<1>3. \/ subQueue' = Append(subQueue, e) /\ lost' = lost
      \/ subQueue' = subQueue /\ lost' = lost \cup {e}
  BY DEF Publish
<1> HIDE DEF e
<1>4. FeedTypeOK'
  <2>1. subQueue' \in Seq(Events) /\ lost' \in SUBSET Events
    <3>1. Append(subQueue, e) \in Seq(Events) /\ lost \cup {e} \subseteq Events
      BY <1>1, AppendElements
    <3>2. QED
      BY <1>3, <3>1
  <2>2. QED
    BY <1>1, <1>2, <2>1 DEF pageVars
<1>5. FeedInOrder' /\ OneLiveSocket' /\ OldMountsCut'
  BY <1>2 DEF FeedInOrder, OneLiveSocket, OldMountsCut, pageVars
<1>6. ASSUME NEW s \in Seq(Events), AtMost(s, published)
      PROVE  AtMost(s, e) /\ \A i \in 1..Len(s) : s[i] < e
  <2>1. ASSUME NEW i \in 1..Len(s)
        PROVE  s[i] < e /\ s[i] <= e
    <3>1. s[i] \in Nat /\ s[i] <= published
      BY <1>6, ElementsAreNumbers DEF AtMost
    <3>2. QED
      BY <1>1, <3>1
  <2>2. QED
    BY <2>1 DEF AtMost
<1>7. /\ AtMost(subQueue', e) /\ Ascending(subQueue')
      /\ \A s \in Seq(Events) : AtMost(s, published) /\ Before(s, subQueue) => Before(s, subQueue')
  <2>1. CASE subQueue' = Append(subQueue, e)
    BY <1>1, <1>6, <2>1, AppendOrder DEF PipelineInOrder
  <2>2. CASE subQueue' = subQueue
    BY <1>6, <2>2 DEF PipelineInOrder
  <2>3. QED
    BY <1>3, <2>1, <2>2
<1>8. PipelineInOrder'
  BY <1>2, <1>6, <1>7 DEF PipelineInOrder, pageVars
<1>9. QED
  BY <1>4, <1>5, <1>8

LEMMA RelayStep ==
  ASSUME OrderInvariant, Relay
  PROVE  OrderInvariant'
<1> USE DEF OrderInvariant, FeedTypeOK
<1> DEFINE e == Head(subQueue)
<1>1. /\ subQueue' = Tail(subQueue) /\ subQueue # <<>>
      /\ UNCHANGED <<published, subscribed, lost, pageVars, clients, failures, joined>>
      /\ wire' = [m \in Mounts |-> IF m \in clients THEN Append(wire[m], e) ELSE wire[m]]
  BY DEF Relay
<1>2. subQueue' \in Seq(Events) /\ e \in Events /\ published \in Nat
  BY <1>1, TailElements, BoundsAssumption
<1>3. /\ AtMost(subQueue', published) /\ e <= published
      /\ Ascending(subQueue') /\ \A i \in 1..Len(subQueue') : e < subQueue'[i]
      /\ \A s \in Seq(Events) : Before(s, subQueue)
            => Before(s, subQueue') /\ \A i \in 1..Len(s) : s[i] < e
  BY <1>1, <1>2, TailOrder DEF PipelineInOrder
<1> HIDE DEF e
<1>4. \A m \in Mounts : wire'[m] = wire[m] \/ (m \in clients /\ wire'[m] = Append(wire[m], e))
  BY <1>1
<1>5. FeedTypeOK'
  <2>1. wire' \in [Mounts -> Seq(Events)]
    BY <1>1, <1>2, AppendElements
  <2>2. QED
    BY <1>1, <1>2, <2>1 DEF pageVars
<1>6. FeedInOrder' /\ OneLiveSocket'
  BY <1>1 DEF FeedInOrder, OneLiveSocket, pageVars
<1>7. OldMountsCut'
  BY <1>1, <1>4 DEF OldMountsCut, pageVars
<1>8. ASSUME NEW m \in Mounts
      PROVE  /\ AtMost(wire'[m], published) /\ Ascending(wire'[m])
             /\ Before(wire'[m], subQueue') /\ Before(events, wire'[m])
  <2>1. /\ wire[m] \in Seq(Events) /\ Ascending(wire[m]) /\ AtMost(wire[m], published)
        /\ Before(wire[m], subQueue') /\ \A i \in 1..Len(wire[m]) : wire[m][i] < e
        /\ Before(events, wire[m]) /\ \A i \in 1..Len(events) : events[i] < e
    BY <1>3 DEF PipelineInOrder
  <2>2. CASE wire'[m] = wire[m]
    BY <2>1, <2>2
  <2>3. CASE wire'[m] = Append(wire[m], e)
    BY <1>2, <1>3, <2>1, <2>3, AppendOrder
  <2>4. QED
    BY <1>4, <2>2, <2>3
<1>9. PipelineInOrder'
  BY <1>1, <1>3, <1>8 DEF PipelineInOrder, pageVars
<1>10. QED
  BY <1>5, <1>6, <1>7, <1>9

\* Nothing gets out of order in a step that only takes messages away.
LEMMA ShorterPipeline ==
  ASSUME OrderInvariant, UNCHANGED <<published, events>>,
         subQueue' \in {subQueue, <<>>},
         \A m \in Mounts : wire'[m] \in {wire[m], <<>>}
  PROVE  PipelineInOrder' /\ FeedInOrder'
BY EmptyOrder DEF OrderInvariant, PipelineInOrder, FeedInOrder

LEMMA GatewayStep ==
  ASSUME OrderInvariant,
         DropSubscription \/ Resubscribe \/ RestartServer \/ \E m \in Mounts : Accept(m)
  PROVE  OrderInvariant'
<1> USE BoundsAssumption DEF OrderInvariant, FeedTypeOK, gatewayVars, pageVars, Disconnect
<1>0. ToSet(subQueue) \in SUBSET Events
  BY DEF ToSet
<1>1. FeedTypeOK'
  <2>1. ASSUME failures < MaxFailures, failures' = failures + 1
        PROVE  failures' \in 0..MaxFailures
    BY <2>1
  <2>2. <<>> \in Seq(Events)
    OBVIOUS
  <2>3. CASE DropSubscription
    BY <1>0, <2>1, <2>2, <2>3 DEF DropSubscription
  <2>4. CASE Resubscribe
    BY <2>4 DEF Resubscribe
  <2>5. CASE RestartServer
    <3>1. /\ socket' \in [Mounts -> {"none", "connecting", "open", "closing", "closed"}]
          /\ wire' \in [Mounts -> Seq(Events)]
          /\ clients' \in SUBSET Mounts
      BY <2>2, <2>5 DEF RestartServer
    <3>2. QED
      BY <1>0, <2>1, <2>2, <2>5, <3>1 DEF RestartServer
  <2>6. ASSUME NEW m \in Mounts, Accept(m)
        PROVE  FeedTypeOK'
    BY <2>6 DEF Accept
  <2>7. QED
    BY <2>3, <2>4, <2>5, <2>6
<1>2. PipelineInOrder' /\ FeedInOrder'
  <2>1. /\ UNCHANGED <<published, events>>
        /\ subQueue' \in {subQueue, <<>>}
        /\ \A m \in Mounts : wire'[m] \in {wire[m], <<>>}
    BY DEF DropSubscription, Resubscribe, RestartServer, Accept
  <2>2. QED
    BY <2>1, ShorterPipeline
<1>3. OneLiveSocket' /\ OldMountsCut'
  <2> USE DEF OneLiveSocket, OldMountsCut
  <2>1. CASE DropSubscription \/ Resubscribe
    BY <2>1 DEF DropSubscription, Resubscribe, pageVars
  <2>2. CASE RestartServer
    BY <2>2 DEF RestartServer, Disconnect
  <2>3. ASSUME NEW m \in Mounts, Accept(m)
        PROVE  OneLiveSocket' /\ OldMountsCut'
    BY <2>3 DEF Accept, pageVars
  <2>4. QED
    BY <2>1, <2>2, <2>3
<1>4. QED
  BY <1>1, <1>2, <1>3

-----------------------------------------------------------------------------
(* The page *)

LEMMA ReceiveStep ==
  ASSUME OrderInvariant, NEW m \in Mounts, Receive(m)
  PROVE  OrderInvariant'
<1> USE DEF OrderInvariant, FeedTypeOK
<1> DEFINE e == Head(wire[m])
<1>1. /\ UNCHANGED <<gatewayVars, mount, socket, retryTimer, connected, clients, failures, joined>>
      /\ wire' = [wire EXCEPT ![m] = Tail(@)] /\ wire[m] # <<>> /\ socket[m] = "open"
      /\ events' = Cut(<<e>> \o events)
  BY DEF Receive, Show
<1>2. m = mount
  BY <1>1 DEF OneLiveSocket
<1>3. wire'[m] \in Seq(Events) /\ e \in Events /\ published \in Nat
  BY <1>1, TailElements, BoundsAssumption
<1>4. /\ events' \in Seq(Events)
      /\ Len(events') \in 1..(Len(events) + 1) /\ Len(events') <= MaxEvents
      /\ events'[1] = e
      /\ \A i \in 2..Len(events') : events'[i] = events[i - 1]
  BY <1>1, <1>3, CutElements
<1>5. \A i \in 1..Len(events') : i = 1 \/ (i \in 2..Len(events') /\ i - 1 \in 1..Len(events))
  BY <1>4
<1>6. \A n \in Mounts : n # m => wire'[n] = wire[n]
  BY <1>1
<1>7. FeedTypeOK'
  BY <1>1, <1>3, <1>4 DEF gatewayVars
<1>8. OneLiveSocket' /\ OldMountsCut'
  BY <1>1, <1>2, <1>6 DEF OneLiveSocket, OldMountsCut
<1>9. /\ Ascending(wire'[m]) /\ \A i \in 1..Len(wire'[m]) : e < wire'[m][i]
      /\ Before(wire'[m], subQueue) /\ \A i \in 1..Len(subQueue) : e < subQueue[i]
      /\ Before(events, wire'[m]) /\ \A i \in 1..Len(events) : events[i] < e
      /\ AtMost(wire'[m], published) /\ e <= published
  BY <1>1, <1>3, TailOrder DEF PipelineInOrder
<1> HIDE DEF e
<1>10. FeedInOrder'
  <2>1. SUFFICES ASSUME NEW i \in 1..Len(events'), NEW j \in 1..Len(events'), i < j
                 PROVE  events'[i] > events'[j]
    BY DEF FeedInOrder
  <2>2. j \in 2..Len(events') /\ j - 1 \in 1..Len(events) /\ events'[j] = events[j - 1]
    BY <1>4, <1>5, <2>1
  <2>3. CASE i = 1
    BY <1>4, <1>9, <2>2, <2>3
  <2>4. CASE i # 1
    <3>1. i - 1 \in 1..Len(events) /\ events'[i] = events[i - 1] /\ i - 1 < j - 1
      BY <1>4, <1>5, <2>1, <2>2, <2>4
    <3>2. QED
      BY <2>2, <3>1 DEF FeedInOrder
  <2>5. QED
    BY <2>3, <2>4
<1>11. AtMost(events', published)
  BY <1>4, <1>5, <1>9 DEF AtMost, PipelineInOrder
<1>12. ASSUME NEW s \in Seq(Events), Before(events, s), \A i \in 1..Len(s) : e < s[i]
       PROVE  Before(events', s)
  BY <1>4, <1>5, <1>12 DEF Before
<1>13. Before(events', wire'[m]) /\ Before(events', subQueue)
  BY <1>3, <1>9, <1>12 DEF PipelineInOrder
<1>14. \A n \in Mounts : n # m => wire'[n] = <<>>
  BY <1>2, <1>6 DEF OldMountsCut
<1>15. PipelineInOrder'
  BY <1>1, <1>9, <1>11, <1>13, <1>14, EmptyOrder DEF PipelineInOrder, gatewayVars
<1>16. QED
  BY <1>7, <1>8, <1>10, <1>15

LEMMA SocketStep ==
  ASSUME OrderInvariant, NEW m \in Mounts,
         Open(m) \/ OnClose(m) \/ Reconnect(m) \/ FailSocket(m)
  PROVE  OrderInvariant'
<1> USE BoundsAssumption
    DEF OrderInvariant, FeedTypeOK, gatewayVars, Disconnect, Open, OnClose, Closed, Reconnect,
        FailSocket
<1>1. FeedTypeOK'
  <2>1. socket' \in [Mounts -> {"none", "connecting", "open", "closing", "closed"}]
    OBVIOUS
  <2>2. /\ wire' \in [Mounts -> Seq(Events)]
        /\ clients' \in SUBSET Mounts
    <3>1. <<>> \in Seq(Events)
      OBVIOUS
    <3>2. QED
      BY <3>1
  <2>3. failures' \in 0..MaxFailures
    OBVIOUS
  <2>4. connected' \in BOOLEAN /\ retryTimer' \in SUBSET Mounts
    OBVIOUS
  <2>5. UNCHANGED <<published, subscribed, subQueue, lost, mount, events, joined>>
    OBVIOUS
  <2>6. QED
    BY <2>1, <2>2, <2>3, <2>4, <2>5
<1>2. PipelineInOrder' /\ FeedInOrder'
  <2>1. /\ UNCHANGED <<published, events, subQueue>>
        /\ \A n \in Mounts : wire'[n] \in {wire[n], <<>>}
    OBVIOUS
  <2>2. QED
    BY <2>1, ShorterPipeline
<1>3. OneLiveSocket'
  BY DEF OneLiveSocket
<1>4. OldMountsCut'
  BY DEF OldMountsCut, OneLiveSocket
<1>5. QED
  BY <1>1, <1>2, <1>3, <1>4

LEMMA RemountStep ==
  ASSUME OrderInvariant, Remount
  PROVE  OrderInvariant'
<1> USE MaxMountsAssumption DEF OrderInvariant, FeedTypeOK, gatewayVars, Disconnect, Remount, Mounts
<1>1. mount \in Nat /\ mount' = mount + 1 /\ mount' \in Mounts
  OBVIOUS
<1>2. /\ socket'[mount] \in {"closing", "closed"}
      /\ \A n \in Mounts : n # mount /\ n # mount' => socket'[n] = socket[n]
  BY <1>1
<1>3. FeedTypeOK'
  <2>1. socket' \in [Mounts -> {"none", "connecting", "open", "closing", "closed"}]
    BY <1>1
  <2>2. /\ wire' \in [Mounts -> Seq(Events)]
        /\ clients' \in SUBSET Mounts /\ retryTimer' \in SUBSET Mounts
    <3>1. <<>> \in Seq(Events)
      OBVIOUS
    <3>2. QED
      BY <3>1
  <2>3. UNCHANGED <<published, subscribed, subQueue, lost, connected, events, joined, failures>>
    OBVIOUS
  <2>4. QED
    BY <1>1, <2>1, <2>2, <2>3
<1>4. PipelineInOrder' /\ FeedInOrder'
  <2>1. /\ UNCHANGED <<published, events, subQueue>>
        /\ \A n \in Mounts : wire'[n] \in {wire[n], <<>>}
    OBVIOUS
  <2>2. QED
    BY <2>1, ShorterPipeline
<1>5. OneLiveSocket'
  BY <1>1, <1>2 DEF OneLiveSocket
<1>6. OldMountsCut'
  <2>1. SUFFICES ASSUME NEW n \in Mounts, n # mount'
                 PROVE  n \notin clients' /\ wire'[n] = <<>> /\ (n > mount' => socket'[n] = "none")
    BY DEF OldMountsCut
  <2>2. n \notin clients' /\ wire'[n] = <<>>
    BY <1>1, <2>1 DEF OldMountsCut
  <2>3. n > mount' => n > mount /\ n # mount
    BY <1>1
  <2>4. QED
    BY <1>1, <1>2, <2>1, <2>2, <2>3 DEF OldMountsCut
<1>7. QED
  BY <1>3, <1>4, <1>5, <1>6

LEMMA OrderStep ==
  ASSUME OrderInvariant, [FeedNext]_feedVars
  PROVE  OrderInvariant'
<1>1. CASE UNCHANGED feedVars
  BY <1>1 DEF feedVars, gatewayVars, pageVars, OrderInvariant, FeedTypeOK, FeedInOrder,
              OneLiveSocket, PipelineInOrder, OldMountsCut, Ascending, Before
<1>2. QED
  BY <1>1, PublishStep, RelayStep, GatewayStep, ReceiveStep, SocketStep, RemountStep
     DEF FeedNext, PageStep

-----------------------------------------------------------------------------
(* No gap *)

LEMMA AppendSet ==
  ASSUME NEW s \in Seq(Events), NEW e \in Events
  PROVE  ToSet(Append(s, e)) = ToSet(s) \cup {e}
<1>1. /\ DOMAIN Append(s, e) = 1..(Len(s) + 1) /\ DOMAIN s = 1..Len(s) /\ Len(s) \in Nat
      /\ \A i \in 1..Len(s) : Append(s, e)[i] = s[i]
      /\ Append(s, e)[Len(s) + 1] = e
  BY AppendElements
<1>2. 1..(Len(s) + 1) = 1..Len(s) \cup {Len(s) + 1}
  BY <1>1
<1>3. QED
  BY <1>1, <1>2 DEF ToSet

LEMMA TailSet ==
  ASSUME NEW s \in Seq(Events), s # <<>>
  PROVE  ToSet(s) \subseteq {Head(s)} \cup ToSet(Tail(s))
<1> SUFFICES ASSUME NEW i \in 1..Len(s)
             PROVE  s[i] = Head(s) \/ s[i] \in ToSet(Tail(s))
  BY DEF ToSet
<1>1. /\ DOMAIN Tail(s) = 1..(Len(s) - 1) /\ Head(s) = s[1]
      /\ \A n \in 1..(Len(s) - 1) : Tail(s)[n] = s[n + 1]
  BY TailElements
<1>2. CASE i = 1
  BY <1>1, <1>2
<1>3. CASE i # 1
  <2>1. i - 1 \in 1..(Len(s) - 1) /\ s[i] = Tail(s)[i - 1]
    BY <1>1, <1>3
  <2>2. QED
    BY <1>1, <2>1 DEF ToSet
<1>4. QED
  BY <1>2, <1>3

\* The feed takes an event in and keeps what it had, except, when it is full,
\* its oldest event, which is older than the last one it keeps.
LEMMA CutTraces ==
  ASSUME NEW s \in Seq(Events), NEW e \in Events, Len(s) <= MaxEvents,
         \A i, j \in 1..Len(s) : i < j => s[i] > s[j],
         \A i \in 1..Len(s) : s[i] < e
  PROVE  LET t == Cut(<<e>> \o s) IN
         /\ e \in ToSet(t)
         /\ \A x \in ToSet(s) : x \in ToSet(t) \/ (Len(t) = MaxEvents /\ x < t[MaxEvents])
         /\ \A x \in Events : Len(s) = MaxEvents /\ x < s[MaxEvents]
              => Len(t) = MaxEvents /\ x < t[MaxEvents]
<1> DEFINE t == Cut(<<e>> \o s)
<1>1. /\ t \in Seq(Events)
      /\ Len(t) \in 1..(Len(s) + 1) /\ Len(t) <= MaxEvents
      /\ (Len(t) = Len(s) + 1 \/ Len(t) = MaxEvents)
      /\ t[1] = e
      /\ \A i \in 2..Len(t) : t[i] = s[i - 1]
  BY CutElements
<1> HIDE DEF t
<1>2. Len(s) \in Nat /\ Len(t) \in Nat \ {0} /\ MaxEvents \in Nat \ {0}
  BY <1>1, MaxEventsAssumption
<1>3. DOMAIN t = 1..Len(t) /\ DOMAIN s = 1..Len(s)
  BY <1>1
<1>4. e \in ToSet(t)
  <2>1. 1 \in DOMAIN t
    BY <1>2, <1>3
  <2>2. QED
    BY <1>1, <2>1 DEF ToSet
<1>5. ASSUME Len(s) = MaxEvents
      PROVE  Len(t) = MaxEvents /\ s[MaxEvents] < t[MaxEvents]
  <2>1. Len(t) = MaxEvents
    BY <1>1, <1>2, <1>5
  <2>2. CASE MaxEvents = 1
    BY <1>1, <1>2, <1>5, <2>1, <2>2
  <2>3. CASE MaxEvents # 1
    <3>1. MaxEvents - 1 \in 1..Len(s) /\ MaxEvents \in 2..Len(t) /\ MaxEvents \in 1..Len(s)
      BY <1>2, <1>5, <2>1, <2>3
    <3>2. t[MaxEvents] = s[MaxEvents - 1] /\ s[MaxEvents - 1] > s[MaxEvents]
      BY <1>1, <1>2, <3>1
    <3>3. s[MaxEvents - 1] \in Nat /\ s[MaxEvents] \in Nat
      BY <3>1, ElementsAreNumbers
    <3>4. QED
      BY <2>1, <3>2, <3>3
  <2>4. QED
    BY <2>2, <2>3
<1>6. ASSUME NEW i \in 1..Len(s)
      PROVE  s[i] \in ToSet(t) \/ (Len(t) = MaxEvents /\ s[i] < t[MaxEvents])
  <2>1. CASE i + 1 \in 2..Len(t)
    <3>1. t[i + 1] = s[(i + 1) - 1] /\ i + 1 \in 1..Len(t) /\ (i + 1) - 1 = i
      BY <1>1, <1>2, <2>1
    <3>2. QED
      BY <1>3, <3>1 DEF ToSet
  <2>2. CASE i + 1 \notin 2..Len(t)
    <3>1. i <= Len(s) /\ Len(s) <= MaxEvents /\ i + 1 > Len(t) /\ i \in Nat
      BY <1>2, <2>2
    <3>2. i = Len(s) /\ Len(s) = MaxEvents
      BY <1>1, <1>2, <3>1
    <3>3. QED
      BY <1>5, <3>2
  <2>3. QED
    BY <2>1, <2>2
<1>7. \A x \in ToSet(s) : x \in ToSet(t) \/ (Len(t) = MaxEvents /\ x < t[MaxEvents])
  BY <1>3, <1>6 DEF ToSet
<1>8. ASSUME NEW x \in Events, Len(s) = MaxEvents, x < s[MaxEvents]
      PROVE  Len(t) = MaxEvents /\ x < t[MaxEvents]
  <2>1. Len(t) = MaxEvents /\ s[MaxEvents] < t[MaxEvents]
    BY <1>5, <1>8
  <2>2. MaxEvents \in 1..Len(s) /\ MaxEvents \in 1..Len(t)
    BY <1>2, <1>8, <2>1
  <2>3. x \in Nat /\ s[MaxEvents] \in Nat /\ t[MaxEvents] \in Nat
    BY <1>1, <2>2, ElementsAreNumbers, EventsAreNumbers
  <2>4. QED
    BY <1>8, <2>1, <2>3
<1>9. QED
  BY <1>4, <1>7, <1>8 DEF t

\* Whatever a step does to the places an event can be in, it stays traced for
\* a client, and a socket that becomes a client has missed nothing yet.
LEMMA TracedStays ==
  ASSUME FeedInvariant, [FeedNext]_feedVars, NEW m \in Mounts, m \in clients, m \in clients',
         NEW x \in Events, Traced(m, x)
  PROVE  Traced(m, x)'
<1> USE DEF FeedInvariant, OrderInvariant, FeedTypeOK, Traced
<1>1. CASE Publish
  <2>1. published' \in Events
    BY <1>1, BoundsAssumption DEF Publish, Events
  <2>2. ToSet(subQueue) \subseteq ToSet(subQueue') /\ lost \subseteq lost'
    <3>1. ToSet(Append(subQueue, published')) = ToSet(subQueue) \cup {published'}
      BY <2>1, AppendSet
    <3>2. subQueue' \in {subQueue, Append(subQueue, published')} /\ lost \subseteq lost'
      BY <1>1 DEF Publish
    <3>3. QED
      BY <3>1, <3>2
  <2>3. UNCHANGED <<events, wire>>
    BY <1>1 DEF Publish, pageVars
  <2>4. QED
    BY <2>2, <2>3
<1>2. CASE Relay
  <2>1. subQueue # <<>> /\ Head(subQueue) \in Events /\ UNCHANGED <<lost, events>>
    BY <1>2, TailElements DEF Relay, pageVars
  <2>2. ToSet(subQueue) \subseteq {Head(subQueue)} \cup ToSet(subQueue')
    BY <1>2, <2>1, TailSet DEF Relay
  <2>3. ToSet(wire'[m]) = ToSet(wire[m]) \cup {Head(subQueue)}
    BY <1>2, <2>1, AppendSet DEF Relay
  <2>4. QED
    BY <2>1, <2>2, <2>3
<1>3. CASE DropSubscription \/ Resubscribe \/ \E n \in Mounts : Accept(n)
  <2>1. /\ UNCHANGED <<events, wire>>
        /\ ToSet(subQueue) \cup lost \subseteq ToSet(subQueue') \cup lost'
    BY <1>3 DEF DropSubscription, Resubscribe, Accept, pageVars, gatewayVars
  <2>2. QED
    BY <2>1
<1>4. CASE \E n \in Mounts : Receive(n)
  <2>1. PICK n \in Mounts : Receive(n)
    BY <1>4
  <2>2. m = n
    BY <2>1 DEF Receive, Show, OneLiveSocket, OldMountsCut
  <2>3. /\ UNCHANGED <<lost, subQueue>> /\ wire[m] # <<>>
        /\ wire'[m] = Tail(wire[m]) /\ events' = Cut(<<Head(wire[m])>> \o events)
    BY <2>1, <2>2 DEF Receive, Show, gatewayVars
  <2>4. Head(wire[m]) \in Events /\ \A i \in 1..Len(events) : events[i] < Head(wire[m])
    BY <2>3, TailElements, TailOrder, BoundsAssumption DEF PipelineInOrder
  <2>5. /\ Head(wire[m]) \in ToSet(events')
        /\ \A y \in ToSet(events) :
             y \in ToSet(events') \/ (Len(events') = MaxEvents /\ y < events'[MaxEvents])
        /\ Len(events) = MaxEvents /\ x < events[MaxEvents]
             => Len(events') = MaxEvents /\ x < events'[MaxEvents]
    BY <2>3, <2>4, CutTraces DEF FeedInOrder
  <2>6. ToSet(wire[m]) \subseteq {Head(wire[m])} \cup ToSet(wire'[m])
    BY <2>3, TailSet
  <2>7. QED
    BY <2>3, <2>5, <2>6
<1>5. CASE RestartServer
  BY <1>5 DEF RestartServer, Disconnect
<1>6. CASE Remount \/ \E n \in Mounts : Open(n) \/ OnClose(n) \/ Reconnect(n) \/ FailSocket(n)
  <2>1. UNCHANGED <<lost, subQueue, events>> /\ wire'[m] = wire[m]
    BY <1>6 DEF Remount, Open, OnClose, Closed, Reconnect, FailSocket, Disconnect, gatewayVars
  <2>2. QED
    BY <2>1
<1>7. CASE UNCHANGED feedVars
  BY <1>7 DEF feedVars, gatewayVars, pageVars
<1>8. QED
  BY <1>1, <1>2, <1>3, <1>4, <1>5, <1>6, <1>7 DEF FeedNext, PageStep

\* Events come from publishers only, and a mount becomes a client by Accept
\* only: while it is one, it joined where it joined.
LEMMA MembersStay ==
  ASSUME FeedTypeOK, [FeedNext]_feedVars, NEW m \in Mounts
  PROVE  /\ Publish \/ published' = published
         /\ m \in clients' => Accept(m) \/ (m \in clients /\ joined'[m] = joined[m])
<1> DEFINE Goal ==
      /\ Publish \/ published' = published
      /\ m \in clients' => Accept(m) \/ (m \in clients /\ joined'[m] = joined[m])
<1> USE DEF FeedTypeOK
<1>1. CASE Publish \/ Relay \/ DropSubscription \/ Resubscribe
  BY <1>1 DEF Publish, Relay, DropSubscription, Resubscribe
<1>2. CASE RestartServer \/ Remount
  BY <1>2 DEF RestartServer, Remount, Disconnect, gatewayVars
<1>3. ASSUME NEW n \in Mounts, Open(n) \/ Receive(n) \/ OnClose(n) \/ Reconnect(n)
      PROVE  Goal
  BY <1>3 DEF Open, Receive, Show, OnClose, Closed, Reconnect, gatewayVars
<1>4. ASSUME NEW n \in Mounts, FailSocket(n)
      PROVE  Goal
  BY <1>4 DEF FailSocket, Disconnect, gatewayVars
<1>5. ASSUME NEW n \in Mounts, Accept(n)
      PROVE  Goal
  BY <1>5 DEF Accept, gatewayVars
<1>6. CASE UNCHANGED feedVars
  BY <1>6 DEF feedVars, gatewayVars
<1>7. QED
  BY <1>1, <1>2, <1>3, <1>4, <1>5, <1>6 DEF FeedNext, PageStep

LEMMA NoGapStep ==
  ASSUME FeedInvariant, [FeedNext]_feedVars, OrderInvariant'
  PROVE  ClientsMissNothing'
<1> USE DEF FeedInvariant, OrderInvariant, FeedTypeOK
<1> SUFFICES ASSUME NEW m \in Mounts
             PROVE  /\ socket'[m] = "open" => m \in clients'
                    /\ m \in clients' =>
                         \A x \in (joined'[m] + 1)..published' : Traced(m, x)'
  BY DEF ClientsMissNothing
<1>1. socket'[m] = "open" => m \in clients'
  <2> USE DEF ClientsMissNothing
  <2>1. CASE Publish \/ Relay \/ DropSubscription \/ Resubscribe
    BY <2>1 DEF Publish, Relay, DropSubscription, Resubscribe, pageVars
  <2>2. CASE RestartServer \/ Remount
    BY <2>2 DEF RestartServer, Remount, Disconnect
  <2>3. ASSUME NEW n \in Mounts, Open(n) \/ Receive(n) \/ OnClose(n) \/ Reconnect(n)
        PROVE  socket'[m] = "open" => m \in clients'
    BY <2>3 DEF Open, Receive, Show, OnClose, Closed, Reconnect
  <2>4. ASSUME NEW n \in Mounts, FailSocket(n) \/ Accept(n)
        PROVE  socket'[m] = "open" => m \in clients'
    BY <2>4 DEF FailSocket, Disconnect, Accept, pageVars
  <2>5. CASE UNCHANGED feedVars
    BY <2>5 DEF feedVars, pageVars
  <2>6. QED
    BY <2>1, <2>2, <2>3, <2>4, <2>5 DEF FeedNext, PageStep
<1>2. ASSUME m \in clients', NEW x \in (joined'[m] + 1)..published'
      PROVE  Traced(m, x)'
  <2>1. x \in Events /\ published' \in Nat /\ published \in Nat
    <3>1. MaxPublished \in Nat
      BY BoundsAssumption
    <3>2. published \in 0..MaxPublished /\ published' \in 0..MaxPublished
      OBVIOUS
    <3>3. joined'[m] \in 0..MaxPublished
      OBVIOUS
    <3>4. x \in 1..MaxPublished /\ published' \in Nat /\ published \in Nat
      BY ONLY <1>2, <3>1, <3>2, <3>3, SMT
    <3>5. QED
      BY <3>4, Zenon DEF Events
  <2>2. CASE m \notin clients
    <3>1. Accept(m)
      BY <1>2, <2>2, MembersStay
    <3>2. joined'[m] = published /\ published' = published
      BY <3>1 DEF Accept, gatewayVars
    <3>3. published + 1 <= x /\ x <= published
      BY <1>2, <3>2
    <3>4. ~(published + 1 <= x /\ x <= published)
      BY <2>1, BoundsAssumption, SMT DEF Events
    <3>5. QED
      BY <3>3, <3>4
  <2>3. CASE m \in clients /\ x <= published
    <3>1. joined'[m] = joined[m]
      <4>1. ~Accept(m)
        BY <2>3 DEF Accept
      <4>2. QED
        BY <1>2, <4>1, MembersStay
    <3>2. x \in (joined[m] + 1)..published
      BY <1>2, <2>1, <2>3, <3>1
    <3>3. Traced(m, x)
      BY <2>3, <3>2 DEF ClientsMissNothing
    <3>4. QED
      BY <1>2, <2>1, <2>3, <3>3, TracedStays
  <2>4. CASE m \in clients /\ ~(x <= published)
    <3>1. published' # published
      BY <1>2, <2>1, <2>4, BoundsAssumption
    <3>2. Publish
      BY <3>1, MembersStay
    <3>3. x = published'
      BY <1>2, <2>1, <2>4, <3>2, BoundsAssumption DEF Publish
    <3>4. \/ subQueue' = Append(subQueue, x)
          \/ lost' = lost \cup {x}
      BY <3>2, <3>3 DEF Publish
    <3>5. x \in ToSet(subQueue') \cup lost'
      BY <2>1, <3>4, AppendSet
    <3>6. QED
      BY <3>5 DEF Traced
  <2>5. QED
    BY <2>2, <2>3, <2>4
<1>3. QED
  BY <1>1, <1>2

-----------------------------------------------------------------------------
(* The theorems *)

LEMMA FeedInvariantInit == FeedInit => FeedInvariant
<1>1. FeedInit => ClientsMissNothing
  BY DEF FeedInit, ClientsMissNothing
<1>2. QED
  BY <1>1, OrderInvariantInit DEF FeedInvariant

\* What is further down the line is older, nothing but the current mount is
\* connected, and a client is sent whatever it is there for.
THEOREM PipelineIsOrdered == FeedSpec => []FeedInvariant
<1>1. FeedInvariant /\ [FeedNext]_feedVars => FeedInvariant'
  BY OrderStep, NoGapStep DEF FeedInvariant
<1>2. QED
  BY <1>1, FeedInvariantInit, PTL DEF FeedSpec

\* FR-6.3: the feed never shows an event twice or out of order, however often
\* the page reconnects or remounts and the gateway loses its subscription or
\* restarts.
THEOREM FeedIsOrdered == FeedSpec => []FeedInOrder
<1>1. FeedInvariant => FeedInOrder
  BY DEF FeedInvariant, OrderInvariant
<1>2. QED
  BY <1>1, PipelineIsOrdered, PTL

\* At most one socket ever feeds a page: a mount that was cleaned up neither
\* keeps its socket nor reconnects when its timer or its close event comes late.
THEOREM OneSocketFeeds == FeedSpec => []OneLiveSocket
<1>1. FeedInvariant => OneLiveSocket
  BY DEF FeedInvariant, OrderInvariant
<1>2. QED
  BY <1>1, PipelineIsOrdered, PTL

\* FR-6.3: a page that is connected has been shown, or is still to be shown,
\* every event since the gateway took its socket in, except those published
\* while the gateway was not subscribed and those pushed out by newer ones.
THEOREM NoEventIsMissed == FeedSpec => []NoGapWhileLive
<1>1. FeedInvariant => NoGapWhileLive
  BY DEF FeedInvariant, ClientsMissNothing, NoGapWhileLive
<1>2. QED
  BY <1>1, PipelineIsOrdered, PTL
=============================================================================
