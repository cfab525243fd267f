------------------------------ MODULE LiveFeed ------------------------------
(***************************************************************************)
(* The live feed of the dashboard: job events from the Redis channel       *)
(* jobs:events through the WebSocket gateway of one API server             *)
(* (packages/server/src/ws/gateway.js) into the hook useJobEvents of one   *)
(* page (packages/dashboard/src/ws.js), which reconnects when its socket   *)
(* closes.                                                                 *)
(*                                                                         *)
(* React runs the effect of the hook again when it remounts the component  *)
(* (StrictMode and hot reloads do; a page in production mounts it once).   *)
(* Each run is a mount: its socket, its timer and its flag closedByCleanup *)
(* live on in callbacks after it has been cleaned up.  Events are numbered *)
(* in the order in which they are published.                               *)
(***************************************************************************)
EXTENDS Naturals, Sequences, SequencesExt

CONSTANTS
  MaxEvents,     \* maxEvents: how many events the feed keeps
  MaxMounts,     \* runs of the effect
  MaxPublished,  \* bound: events published in a behaviour
  MaxFailures    \* bound: connections and subscriptions that fail

ASSUME MaxEventsAssumption == MaxEvents \in Nat \ {0}
ASSUME MaxMountsAssumption == MaxMounts \in Nat \ {0}

ASSUME BoundsAssumption == MaxPublished \in Nat /\ MaxFailures \in Nat

Mounts == 1..MaxMounts
Events == 1..MaxPublished

VARIABLES
  published,    \* number of events published on jobs:events
  subscribed,   \* the gateway's Redis connection is subscribed
  subQueue,     \* events on their way from Redis to the gateway
  clients,      \* mounts whose socket is in the gateway's set of clients
  wire,         \* messages on their way to the socket of each mount
  mount,        \* the current mount; the earlier ones have been cleaned up
  socket,       \* readyState of the socket of each mount
  retryTimer,   \* mounts with a retryTimer that has not fired
  connected,    \* state of the hook: the page shows "Live"
  events,       \* state of the hook: the feed, newest event first
  failures,     \* history: number of failures
  joined,       \* history: events published before each socket became a client
  lost          \* history: events published while nothing was subscribed

gatewayVars == <<published, subscribed, subQueue, lost>>
pageVars == <<mount, socket, retryTimer, connected, events>>
feedVars == <<gatewayVars, pageVars, clients, wire, failures, joined>>

FeedTypeOK ==
  /\ published \in 0..MaxPublished
  /\ subscribed \in BOOLEAN
  /\ subQueue \in Seq(Events)
  /\ clients \in SUBSET Mounts
  /\ wire \in [Mounts -> Seq(Events)]
  /\ mount \in Mounts
  /\ socket \in [Mounts -> {"none", "connecting", "open", "closing", "closed"}]
  /\ retryTimer \in SUBSET Mounts
  /\ connected \in BOOLEAN
  /\ events \in Seq(Events) /\ Len(events) <= MaxEvents
  /\ failures \in 0..MaxFailures
  /\ joined \in [Mounts -> 0..MaxPublished]
  /\ lost \in SUBSET Events

\* The page has just mounted and called connect().
FeedInit ==
  /\ published = 0 /\ subscribed = TRUE /\ subQueue = <<>> /\ lost = {}
  /\ clients = {} /\ wire = [m \in Mounts |-> <<>>]
  /\ mount = 1 /\ socket = [m \in Mounts |-> IF m = 1 THEN "connecting" ELSE "none"]
  /\ retryTimer = {} /\ connected = FALSE /\ events = <<>>
  /\ failures = 0 /\ joined = [m \in Mounts |-> 0]

-----------------------------------------------------------------------------
(* Redis and the gateway *)

\* PUBLISH jobs:events: nobody keeps an event for a subscriber that is away
Publish ==
  /\ published < MaxPublished
  /\ published' = published + 1
  /\ IF subscribed
     THEN subQueue' = Append(subQueue, published') /\ UNCHANGED lost
     ELSE lost' = lost \cup {published'} /\ UNCHANGED subQueue
  /\ UNCHANGED <<subscribed, pageVars, clients, wire, failures, joined>>

\* redisSub.on('message'): sent to every client whose socket is open
Relay ==
  /\ subQueue # <<>>
  /\ subQueue' = Tail(subQueue)
  /\ wire' = [m \in Mounts |-> IF m \in clients THEN Append(wire[m], Head(subQueue)) ELSE wire[m]]
  /\ UNCHANGED <<published, subscribed, lost, pageVars, clients, failures, joined>>

\* GET /ws: the socket joins the clients and the handshake is answered.
Accept(m) ==
  /\ socket[m] = "connecting"
  /\ m \notin clients
  /\ clients' = clients \cup {m}
  /\ joined' = [joined EXCEPT ![m] = published]
  /\ UNCHANGED <<gatewayVars, pageVars, wire, failures>>

\* What a connection that is gone takes with it, once both ends know
Disconnect(gone) ==
  /\ clients' = clients \ gone
  /\ wire' = [m \in Mounts |-> IF m \in gone THEN <<>> ELSE wire[m]]

\* redisSub loses its connection, with the events in it; the clients stay.
DropSubscription ==
  /\ subscribed
  /\ failures < MaxFailures
  /\ failures' = failures + 1
  /\ subscribed' = FALSE
  /\ lost' = lost \cup ToSet(subQueue)
  /\ subQueue' = <<>>
  /\ UNCHANGED <<published, pageVars, clients, wire, joined>>

\* ioredis reconnects and subscribes again.
Resubscribe ==
  /\ ~subscribed
  /\ subscribed' = TRUE
  /\ UNCHANGED <<published, subQueue, lost, pageVars, clients, wire, failures, joined>>

-----------------------------------------------------------------------------
(* The page *)

\* socket.onopen
Open(m) ==
  /\ socket[m] = "connecting"
  /\ m \in clients
  /\ socket' = [socket EXCEPT ![m] = "open"]
  /\ connected' = TRUE
  /\ UNCHANGED <<gatewayVars, mount, retryTimer, events, clients, wire, failures, joined>>

\* socket.onmessage, after which the feed is the given one
Show(m, feed) ==
  /\ socket[m] = "open"
  /\ wire[m] # <<>>
  /\ wire' = [wire EXCEPT ![m] = Tail(@)]
  /\ events' = feed
  /\ UNCHANGED <<gatewayVars, mount, socket, retryTimer, connected, clients, failures, joined>>

Cut(feed) == SubSeq(feed, 1, IF Len(feed) < MaxEvents THEN Len(feed) ELSE MaxEvents)

\* Variants with a bug: the feed is not cut; the event goes last and is cut off.
ReceiveUncut(m) == Show(m, <<Head(wire[m])>> \o events)
ReceiveLast(m) == Show(m, Cut(Append(events, Head(wire[m]))))

\* The event goes first, the oldest beyond maxEvents goes.
Receive(m) == Show(m, Cut(<<Head(wire[m])>> \o events))

\* The connection, or the attempt at one, fails: onerror closes the socket.
FailSocket(m) ==
  /\ socket[m] \in {"connecting", "open"}
  /\ failures < MaxFailures
  /\ failures' = failures + 1
  /\ socket' = [socket EXCEPT ![m] = "closing"]
  /\ Disconnect({m})
  /\ UNCHANGED <<gatewayVars, mount, retryTimer, connected, events, joined>>

\* socket.onclose, which sets the timer if the mount is to reconnect
Closed(m, retry) ==
  /\ socket[m] = "closing"
  /\ socket' = [socket EXCEPT ![m] = "closed"]
  /\ connected' = FALSE
  /\ retryTimer' = IF retry THEN retryTimer \cup {m} ELSE retryTimer
  /\ UNCHANGED <<gatewayVars, mount, events, clients, wire, failures, joined>>

\* Variants with a bug: closedByCleanup is ignored; only a lost connection is
\* retried, not one that never opened.
OnCloseAlways(m) == Closed(m, TRUE)
OnCloseOnceLive(m) == Closed(m, m = mount /\ connected)

\* Only a mount that has not been cleaned up reconnects.
OnClose(m) == Closed(m, m = mount)

\* The timer fires, after 1 to 15 seconds, and calls connect().
Reconnect(m) ==
  /\ m \in retryTimer
  /\ retryTimer' = retryTimer \ {m}
  /\ socket' = [socket EXCEPT ![m] = "connecting"]
  /\ UNCHANGED <<gatewayVars, mount, connected, events, clients, wire, failures, joined>>

\* A variant with a bug: the cleanup does not close the socket.
RemountSocketKept ==
  /\ mount < MaxMounts
  /\ mount' = mount + 1
  /\ retryTimer' = retryTimer \ {mount}
  /\ socket' = [socket EXCEPT ![mount + 1] = "connecting"]
  /\ UNCHANGED <<gatewayVars, connected, events, clients, wire, failures, joined>>

\* React cleans the current mount up (flag, timer, socket.close(), after which
\* the socket takes no message) and runs the effect again, which connects.
Remount ==
  /\ mount < MaxMounts
  /\ mount' = mount + 1
  /\ retryTimer' = retryTimer \ {mount}
  /\ socket' = [socket EXCEPT ![mount] = IF @ = "closed" THEN @ ELSE "closing",
                              ![mount + 1] = "connecting"]
  /\ Disconnect({mount})
  /\ UNCHANGED <<gatewayVars, connected, events, failures, joined>>

-----------------------------------------------------------------------------
\* The API server restarts: its subscription and all its connections are gone.
RestartServer ==
  /\ failures < MaxFailures
  /\ failures' = failures + 1
  /\ subscribed' = FALSE
  /\ lost' = lost \cup ToSet(subQueue)
  /\ subQueue' = <<>>
  /\ socket' = [m \in Mounts |->
                  IF socket[m] \in {"connecting", "open"} THEN "closing" ELSE socket[m]]
  /\ Disconnect(Mounts)
  /\ UNCHANGED <<published, mount, retryTimer, connected, events, joined>>

PageStep(m) == Open(m) \/ Receive(m) \/ OnClose(m) \/ Reconnect(m)

FeedNext ==
  \/ Publish \/ Relay \/ DropSubscription \/ Resubscribe \/ RestartServer \/ Remount
  \/ \E m \in Mounts : Accept(m) \/ PageStep(m) \/ FailSocket(m)

FeedSpec == FeedInit /\ [][FeedNext]_feedVars

\* Callbacks run, timers fire, a server that is up accepts, and ioredis
\* reconnects.  Nothing obliges anything to be published or to fail.
FeedFairSpec ==
  /\ FeedSpec
  /\ WF_feedVars(Relay) /\ WF_feedVars(Resubscribe)
  /\ \A m \in Mounts : WF_feedVars(Accept(m)) /\ WF_feedVars(PageStep(m))

-----------------------------------------------------------------------------
\* FR-6.3: the feed shows events in the order they were published in and none
\* twice, whatever reconnects, remounts and restarts there were.  Sockets of
\* two mounts may be on their way up or down at the same time.
FeedInOrder == \A i, j \in 1..Len(events) : i < j => events[i] > events[j]

\* Once a mount has been cleaned up nothing of it comes back: at most one
\* socket feeds the page.
OneLiveSocket ==
  \A m \in Mounts : m # mount => m \notin retryTimer /\ socket[m] \notin {"connecting", "open"}

\* Why the feed is in order: whatever an event is in, it is later than what is
\* further down the line.
Ascending(s) == \A i, j \in 1..Len(s) : i < j => s[i] < s[j]
Before(s, t) == \A i \in 1..Len(s), j \in 1..Len(t) : s[i] < t[j]
AtMost(s, n) == \A i \in 1..Len(s) : s[i] <= n
PipelineInOrder ==
  /\ AtMost(subQueue, published) /\ AtMost(events, published)
  /\ Ascending(subQueue) /\ Before(events, subQueue)
  /\ \A m \in Mounts :
       /\ AtMost(wire[m], published)
       /\ Ascending(wire[m]) /\ Before(wire[m], subQueue) /\ Before(events, wire[m])

\* Only the current mount is still connected to anything.
OldMountsCut ==
  \A m \in Mounts : m # mount =>
    m \notin clients /\ wire[m] = <<>> /\ (m > mount => socket[m] = "none")

OrderInvariant ==
  FeedTypeOK /\ FeedInOrder /\ OneLiveSocket /\ PipelineInOrder /\ OldMountsCut

\* Where an event is that the page of mount m is to show, or has shown.
Traced(m, e) ==
  \/ e \in lost \cup ToSet(events) \cup ToSet(wire[m]) \cup ToSet(subQueue)
  \/ Len(events) = MaxEvents /\ e < events[MaxEvents]

\* FR-6.3: while a page is connected no event is missing: it is on the page,
\* was pushed out by newer ones, or is on its way, unless the gateway's own
\* subscription was down when it was published.
NoGapWhileLive ==
  \A m \in Mounts : socket[m] = "open" =>
    \A e \in (joined[m] + 1)..published : Traced(m, e)

\* It holds from the moment the gateway takes the socket in.
ClientsMissNothing ==
  \A m \in Mounts :
    /\ socket[m] = "open" => m \in clients
    /\ m \in clients => \A e \in (joined[m] + 1)..published : Traced(m, e)

FeedInvariant == OrderInvariant /\ ClientsMissNothing

\* The page finds its way back: once failures stop it is connected for good
\* and says so (a remounted page may not: the close of its old socket can come
\* after the open of the new one), and has every event that is not lost.
CatchesUp ==
  <>[](/\ socket[mount] = "open" /\ (mount = 1 => connected)
       /\ subQueue = <<>> /\ wire[mount] = <<>>)
=============================================================================
