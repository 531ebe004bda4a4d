----------------------------- MODULE LiveBridge -----------------------------
(***************************************************************************)
(* serve_result over a Foxglove server: the replay goes on bar by bar while*)
(* viewers connect, subscribe to the topics they see and leave.  A step is *)
(* what the coroutine does between two awaits.                             *)
(***************************************************************************)
EXTENDS Telemetry, FiniteSets

CONSTANTS Results, Viewers

BridgeAssumption == \A r \in Results : IsResult(r)
ASSUME BridgeAssumption

VARIABLES
  result, loop,             \* what is served, and whether again and again
  stage,
  opening,                  \* the topics still to be advertised up front
  channels,                 \* the topics registered
  agenda, sent,             \* of this pass: the messages to publish, and those published
  subscribed,               \* [viewer -> topics], of those connected
  shown                     \* [viewer -> [topic -> the last message it got]]

bridgeVars == <<result, loop, stage, opening, channels, agenda, sent, subscribed, shown>>
server == <<result, loop, stage, opening, channels, agenda, sent>>

UpFront == <<"/bars", "/equity", "/portfolio", "/fills">>

BridgeInit ==
  /\ result \in Results /\ loop \in BOOLEAN
  /\ stage = "opening" /\ opening = UpFront
  /\ channels = {} /\ agenda = <<>> /\ sent = <<>>
  /\ subscribed = <<>> /\ shown = <<>>

\* The topic the coroutine needs a channel of.
Needed == IF stage = "opening" THEN Head(opening) ELSE Head(agenda).topic

\* LiveBridge.channel: register it once, on first need.
Register ==
  /\ IF stage = "opening" THEN opening # <<>> ELSE stage = "replaying" /\ agenda # <<>>
  /\ Needed \notin channels
  /\ channels' = channels \cup {Needed}
  /\ UNCHANGED <<result, loop, stage, opening, agenda, sent, subscribed, shown>>

Advertised ==
  /\ stage = "opening" /\ opening # <<>> /\ Needed \in channels
  /\ opening' = Tail(opening)
  /\ UNCHANGED <<result, loop, stage, channels, agenda, sent, subscribed, shown>>

\* A frame without a cash column, as the vectorized engine leaves it, ends the replay at
\* its first row.
StartReplay ==
  /\ stage = "opening" /\ opening = <<>>
  /\ IF ~ result.has_cash /\ result.rows # <<>>
     THEN stage' = "raised" /\ UNCHANGED agenda
     ELSE stage' = "replaying" /\ agenda' = BarByBar(result)
  /\ UNCHANGED <<result, loop, opening, channels, sent, subscribed, shown>>

\* _send: the server passes a message on to those subscribed.
Publish ==
  /\ stage = "replaying" /\ agenda # <<>> /\ Needed \in channels
  /\ agenda' = Tail(agenda) /\ sent' = Append(sent, Head(agenda))
  /\ shown' = [v \in DOMAIN shown |->
                 IF Needed \in subscribed[v] THEN [shown[v] EXCEPT ![Needed] = Head(agenda)] ELSE shown[v]]
  /\ UNCHANGED <<result, loop, stage, opening, channels, subscribed>>

\* Mutant of Again: the replay is over after one pass.
NeverAgain == FALSE

Again == loop

EndOfPass ==
  /\ stage = "replaying" /\ agenda = <<>>
  /\ IF Again
     THEN agenda' = BarByBar(result) /\ sent' = <<>> /\ UNCHANGED stage
     ELSE stage' = "ended" /\ UNCHANGED <<agenda, sent>>
  /\ UNCHANGED <<result, loop, opening, channels, subscribed, shown>>

Serve == Register \/ Advertised \/ StartReplay \/ Publish \/ EndOfPass

Nothing == [topic |-> "none"]

Connect(v) ==
  /\ stage \in {"opening", "replaying"} /\ v \notin DOMAIN subscribed
  /\ subscribed' = [u \in DOMAIN subscribed \cup {v} |-> IF u = v THEN {} ELSE subscribed[u]]
  /\ shown' = [u \in DOMAIN shown \cup {v} |->
                 IF u = v THEN [topic \in Topics |-> Nothing] ELSE shown[u]]
  /\ UNCHANGED server

Subscribe(v) ==
  /\ v \in DOMAIN subscribed
  /\ \E topic \in channels \ subscribed[v] :
       subscribed' = [subscribed EXCEPT ![v] = @ \cup {topic}]
  /\ UNCHANGED <<server, shown>>

Leave(v) ==
  /\ v \in DOMAIN subscribed
  /\ subscribed' = [u \in DOMAIN subscribed \ {v} |-> subscribed[u]]
  /\ shown' = [u \in DOMAIN shown \ {v} |-> shown[u]]
  /\ UNCHANGED server

BridgeNext == Serve \/ \E v \in Viewers : Connect(v) \/ Subscribe(v) \/ Leave(v)

BridgeSpec == BridgeInit /\ [][BridgeNext]_bridgeVars

\* The event loop resumes the coroutine; a viewer subscribes to what it is shown.
BridgeFair == BridgeSpec /\ WF_bridgeVars(Serve) /\ \A v \in Viewers : WF_bridgeVars(Subscribe(v))

-----------------------------------------------------------------------------
\* What a log or a replay has on a topic at a time.
Stamped(messages, topic, ts) ==
  Those(messages, {k \in DOMAIN messages : messages[k].topic = topic /\ messages[k].ts = ts})

\* "Same schemas as the MCAP exporter": a pass of the replay goes forward in time.  If the
\* curve's times are like those of the other frames, it has at every time on every topic
\* the very messages of the exported log, in its order; if not, as after an event-driven
\* run on bars with a zone, it has those of /equity and no others.
ReplayFollowsTheExport ==
  stage \in {"replaying", "ended"} /\ agenda = <<>> =>
    /\ \A j, k \in DOMAIN sent : j < k => sent[j].ts <= sent[k].ts
    /\ \A topic \in Topics, ts \in Times(sent) \cup Times(Exported(result)) :
         Stamped(sent, topic, ts) =
           IF result.alike \/ topic = "/equity" THEN Stamped(Exported(result), topic, ts) ELSE <<>>

ShownNow(v) == v \in DOMAIN shown /\ shown[v][Last(sent).topic] = Last(sent)
PassPlaces == UNION {DOMAIN BarByBar(r) : r \in Results}

\* "loop=True repeats forever so you can connect at any point": whoever stays is shown
\* the message at every place of a pass, those before it came too.
ViewersSeeEverything ==
  \A v \in Viewers :
    loop /\ result.has_cash /\ <>[](v \in DOMAIN subscribed) =>
      \A k \in PassPlaces : []<>(\/ Len(sent) = k /\ ShownNow(v)
                            \/ Len(sent) + Len(agenda) < k)

=============================================================================
