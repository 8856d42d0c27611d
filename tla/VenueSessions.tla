--------------------------- MODULE VenueSessions ---------------------------
(***************************************************************************)
(* The websocket client of the venue (crates/venue-polymarket/src/         *)
(* ws_client.rs), its parsers (ws_market.rs, ws_user.rs), the streams of   *)
(* its gateway (gateway.rs, sdk_backend/ws.rs) and the monitors of         *)
(* sessions, channels and heartbeats (ws_session.rs, ws_market.rs,         *)
(* heartbeat.rs, and the heartbeat task group of app-live's                *)
(* task_groups.rs).                                                        *)
(*                                                                         *)
(* A frame of the venue holds any number of events; an event is named by   *)
(* its frame and its place in it.  The client and the monitors share no    *)
(* state, so each has a next-state relation of its own.                    *)
(***************************************************************************)
EXTENDS Option, Sequences, SequencesExt

CONSTANTS
    Asset,        \* what the channels are subscribed to
    MaxFrames,    \* bound: frames of the venue on a channel
    MaxTime,      \* bound: the clock
    MaxGap,       \* max_gap of the channel monitor
    MaxReports    \* bound: attentions reported, and reconnects

ASSUME VenueSessionsAssumption ==
    /\ MaxFrames \in Nat /\ MaxTime \in Nat /\ MaxGap \in Nat /\ MaxReports \in Nat

Channels == {"market", "user"}

VARIABLES
    wsStage,       \* unconnected, connected or failed
    wsGateway,     \* the client has a gateway, which reads in its place
    subscribed,    \* gateway: market_asset_ids and user_markets
    userAddress,   \* gateway_user_address is set
    userAuth,      \* gateway: user_auth is set
    collecting,    \* gateway: the channel of the call that awaits it, or "none"
    pendingEvents, \* pending_market_events and pending_user_events
    outgoing,      \* the last frame sent on each transport
    stream,        \* external: frames of the venue that were not read; with a
                   \* gateway, those of the subscription of the open call
    framesSent,    \* external: how many there were
    readFrames,    \* frames read, in order
    delivered      \* events returned, in order

clientVars == <<wsStage, wsGateway, subscribed, userAddress, userAuth, collecting, pendingEvents,
                outgoing, stream, framesSent, readFrames, delivered>>

VARIABLES
    sessionClock,   \* the time of the callers
    wsSession,      \* WsSessionState
    channelState,   \* WsChannelState
    heartbeatGroup, \* HeartbeatTaskGroup
    recoveries      \* how often an attention was cleared, of each monitor

monitorVars == <<sessionClock, wsSession, channelState, heartbeatGroup, recoveries>>

---------------------------------------------------------------------------
(***************************************************************************)
(* Frames and events                                                       *)
(***************************************************************************)

\* What the venue sends.  A batch is a price change of several assets; it may
\* be empty.
FrameKinds == {"event", "batch", "empty", "invalid", "close"}

BatchSize == 2

\* parse_market_messages; an error is None.
ParseMarketMessages(frame) ==
    CASE frame.kind = "invalid" -> None
      [] frame.kind = "empty" -> <<>>
      [] frame.kind = "batch" -> [k \in 1..BatchSize |-> <<frame.id, k>>]
      [] OTHER -> <<<<frame.id, 1>>>>

\* parse_user_message: one event.
ParseUserMessage(frame) == IF frame.kind = "event" THEN <<<<frame.id, 1>>>> ELSE None

\* transport_message_to_payload: a close frame is an error.
TransportMessageToPayload(frame) == frame.kind # "close"

\* External: what a subscription of the SDK yields.  That of the market's last
\* trade prices leaves out what is none; that of the user leaves out nothing.
SdkYields(ch, frame) == ch = "market" => frame.kind \notin {"batch", "empty"}

\* market_events and user_events, for the first message of the subscription:
\* one event; an error, the end of the stream, and for the user a message that
\* is neither trade nor order, are errors.
FirstEvent(frame) == IF frame.kind = "event" THEN <<<<frame.id, 1>>>> ELSE None

\* The events a frame is read as, or None.
EventsOf(ch, frame) ==
    IF wsGateway THEN FirstEvent(frame)
    ELSE IF ~TransportMessageToPayload(frame) THEN None
    ELSE IF ch = "market" THEN ParseMarketMessages(frame) ELSE ParseUserMessage(frame)

---------------------------------------------------------------------------
(***************************************************************************)
(* The client                                                              *)
(***************************************************************************)

ClientInit ==
    /\ wsStage = "unconnected"
    /\ wsGateway \in BOOLEAN
    /\ userAddress \in BOOLEAN /\ (userAddress => wsGateway)
    /\ subscribed = [ch \in Channels |-> <<>>]
    /\ userAuth = FALSE
    /\ collecting = "none"
    /\ pendingEvents = [ch \in Channels |-> <<>>]
    /\ outgoing = [ch \in Channels |-> None]
    /\ stream = [ch \in Channels |-> <<>>]
    /\ framesSent = [ch \in Channels |-> 0]
    /\ readFrames = [ch \in Channels |-> <<>>]
    /\ delivered = [ch \in Channels |-> <<>>]

\* What a proxy answers to CONNECT.
ProxyResponses == {"200", "refused", "closed early", "overlong"}

\* read_proxy_connect_response: up to the end of the headers.
ReadProxyConnectResponse(response) == response \notin {"closed early", "overlong"}

\* connect_via_http_proxy.
ConnectViaHttpProxy(response) == ReadProxyConnectResponse(response) /\ response = "200"

\* RealWsMessageSource::connect_with_proxy: directly, or through a proxy.
ConnectWithProxy == {TRUE, FALSE} \cup {ConnectViaHttpProxy(r) : r \in ProxyResponses}

\* PolymarketWsClient::connect_with_proxy: the market's transport, then the
\* user's; one that fails leaves no client.
ConnectClient ==
    /\ wsStage = "unconnected"
    /\ \E market, user \in ConnectWithProxy :
          wsStage' = IF market /\ user THEN "connected" ELSE "failed"
    /\ UNCHANGED <<wsGateway, subscribed, userAddress, userAuth, collecting, pendingEvents, outgoing,
                   stream, framesSent, readFrames, delivered>>

\* The client is free: an operation borrows it (&mut self) until it returns.
Free == wsStage = "connected" /\ collecting = "none"

\* External: the venue sends a frame.  On a transport it waits to be read, and
\* none follows one that closes it.  With a gateway it is lost unless a call
\* has its subscription open, and may be lost until that takes effect.
VenueSendsFrame(ch) ==
    /\ wsStage = "connected" /\ framesSent[ch] < MaxFrames
    /\ wsGateway \/ \A f \in ToSet(readFrames[ch] \o stream[ch]) : f.kind # "close"
    /\ framesSent' = [framesSent EXCEPT ![ch] = @ + 1]
    /\ \/ \E kind \in FrameKinds :
            LET frame == [id |-> framesSent[ch] + 1, kind |-> kind]
            IN  /\ wsGateway => collecting = ch /\ SdkYields(ch, frame)
                /\ stream' = [stream EXCEPT ![ch] = Append(@, frame)]
       \/ wsGateway /\ UNCHANGED stream
    /\ UNCHANGED <<wsStage, wsGateway, subscribed, userAddress, userAuth, collecting, pendingEvents,
                   outgoing, readFrames, delivered>>

\* An event that is pending is returned first.
PopPending(ch) ==
    /\ Free /\ pendingEvents[ch] # <<>>
    /\ delivered' = [delivered EXCEPT ![ch] = Append(@, Head(pendingEvents[ch]))]
    /\ pendingEvents' = [pendingEvents EXCEPT ![ch] = Tail(@)]
    /\ UNCHANGED <<wsStage, wsGateway, subscribed, userAddress, userAuth, collecting, outgoing, stream,
                   framesSent, readFrames>>

\* Mutant: the first event of a frame is returned and the others are dropped.
DeliverEventsFirst(ch, events) ==
    IF events \in {None, <<>>} THEN UNCHANGED <<delivered, pendingEvents>>
    ELSE /\ delivered' = [delivered EXCEPT ![ch] = Append(@, Head(events))]
         /\ UNCHANGED pendingEvents

\* The first event is returned and the others wait; an error and an empty
\* frame return nothing.
DeliverEvents(ch, events) ==
    IF events \in {None, <<>>} THEN UNCHANGED <<delivered, pendingEvents>>
    ELSE /\ delivered' = [delivered EXCEPT ![ch] = Append(@, Head(events))]
         /\ pendingEvents' = [pendingEvents EXCEPT ![ch] = Tail(events)]

\* A transport is read.
TakeFrame(ch) ==
    /\ Free /\ ~wsGateway
    /\ pendingEvents[ch] = <<>> /\ stream[ch] # <<>>
    /\ stream' = [stream EXCEPT ![ch] = Tail(@)]
    /\ readFrames' = [readFrames EXCEPT ![ch] = Append(@, Head(stream[ch]))]
    /\ DeliverEvents(ch, EventsOf(ch, Head(stream[ch])))
    /\ UNCHANGED <<wsStage, wsGateway, subscribed, userAddress, userAuth, collecting, outgoing,
                   framesSent>>

\* collect_market_events and collect_user_events are called: every call opens a
\* subscription of its own.
StartCollecting(ch) ==
    /\ Free /\ wsGateway
    /\ pendingEvents[ch] = <<>>
    /\ collecting' = ch
    /\ UNCHANGED <<wsStage, wsGateway, subscribed, userAddress, userAuth, pendingEvents, outgoing, stream,
                   framesSent, readFrames, delivered>>

\* The first message of the subscription ends the call and the subscription;
\* what came after it is dropped.
CollectFirst(ch) ==
    /\ collecting = ch /\ stream[ch] # <<>>
    /\ collecting' = "none"
    /\ stream' = [stream EXCEPT ![ch] = <<>>]
    /\ readFrames' = [readFrames EXCEPT ![ch] = Append(@, Head(stream[ch]))]
    /\ DeliverEvents(ch, EventsOf(ch, Head(stream[ch])))
    /\ UNCHANGED <<wsStage, wsGateway, subscribed, userAddress, userAuth, outgoing, framesSent>>

\* The call fails before a message is taken: an identifier that does not parse,
\* no connection, no authentication, or a caller that gave up.
CollectFails(ch) ==
    /\ collecting = ch
    /\ collecting' = "none"
    /\ stream' = [stream EXCEPT ![ch] = <<>>]
    /\ UNCHANGED <<wsStage, wsGateway, subscribed, userAddress, userAuth, pendingEvents, outgoing,
                   framesSent, readFrames, delivered>>

\* next_market_event: the gateway needs assets to be subscribed, and what it
\* collects replaces the pending events; a transport is read until a frame has
\* an event.
NextMarketEvent ==
    \/ PopPending("market")
    \/ TakeFrame("market")
    \/ subscribed["market"] # <<>> /\ StartCollecting("market")
    \/ CollectFirst("market")
    \/ CollectFails("market")

\* next_user_event: the gateway needs the credentials of a subscription.
NextUserEvent ==
    \/ PopPending("user")
    \/ TakeFrame("user")
    \/ userAuth /\ StartCollecting("user")
    \/ CollectFirst("user")
    \/ CollectFails("user")

\* A frame that is sent: to the venue, unless a gateway keeps the subscription.
SendFrame(ch, frame) ==
    outgoing' = IF wsGateway THEN outgoing ELSE [outgoing EXCEPT ![ch] = frame]

\* apply_subscription_update.
ApplySubscriptionUpdate(current, operation, values) ==
    IF operation = "subscribe" THEN current \o SelectSeq(values, LAMBDA v : ~Contains(current, v))
    ELSE SelectSeq(current, LAMBDA v : ~Contains(values, v))

\* subscribe_market_assets.
SubscribeMarketAssets(assets) ==
    /\ Free
    /\ subscribed' = IF wsGateway THEN [subscribed EXCEPT !["market"] = assets] ELSE subscribed
    /\ SendFrame("market", "subscription")
    /\ UNCHANGED <<wsStage, wsGateway, userAddress, userAuth, collecting, pendingEvents, stream,
                   framesSent, readFrames, delivered>>

\* update_market_assets and update_user_markets.
UpdateSubscription(ch, operation, values) ==
    /\ Free
    /\ subscribed' = IF wsGateway
                     THEN [subscribed EXCEPT ![ch] = ApplySubscriptionUpdate(@, operation, values)]
                     ELSE subscribed
    /\ SendFrame(ch, "update")
    /\ UNCHANGED <<wsStage, wsGateway, userAddress, userAuth, collecting, pendingEvents, stream,
                   framesSent, readFrames, delivered>>

\* subscribe_user_markets: a gateway without the user's address refuses it.
SubscribeUserMarkets(markets) ==
    /\ Free
    /\ wsGateway => userAddress
    /\ subscribed' = IF wsGateway THEN [subscribed EXCEPT !["user"] = markets] ELSE subscribed
    /\ userAuth' = (wsGateway \/ userAuth)
    /\ SendFrame("user", "subscription")
    /\ UNCHANGED <<wsStage, wsGateway, userAddress, collecting, pendingEvents, stream, framesSent,
                   readFrames, delivered>>

\* send_market_ping and send_user_ping.
SendPing(ch) ==
    /\ Free
    /\ SendFrame(ch, "ping")
    /\ UNCHANGED <<wsStage, wsGateway, subscribed, userAddress, userAuth, collecting, pendingEvents,
                   stream, framesSent, readFrames, delivered>>

ClientNext ==
    \/ ConnectClient
    \/ NextMarketEvent
    \/ NextUserEvent
    \/ \E a \in Asset :
        \/ SubscribeMarketAssets(<<a>>)
        \/ SubscribeUserMarkets(<<a>>)
        \/ \E ch \in Channels, op \in {"subscribe", "unsubscribe"} : UpdateSubscription(ch, op, <<a>>)
    \/ \E ch \in Channels : VenueSendsFrame(ch) \/ SendPing(ch)

---------------------------------------------------------------------------
(***************************************************************************)
(* The monitors                                                            *)
(***************************************************************************)

\* HeartbeatTaskGroup::for_runtime: now is the time of its construction.
MonitorInit ==
    /\ sessionClock = 0
    /\ wsSession = [connected |-> FALSE, disconnected_at |-> None, reconnect_total |-> 0]
    /\ channelState = [last_message_at |-> 0, stale_since |-> None, attention |-> FALSE, reports |-> 0]
    /\ heartbeatGroup = [now |-> 0, heartbeat_id |-> FALSE, last_success_at |-> 0, attention |-> FALSE,
                         next_journal_seq |-> 1]
    /\ recoveries = [channel |-> 0, heartbeat |-> 0]

TimePasses ==
    /\ sessionClock < MaxTime
    /\ sessionClock' = sessionClock + 1
    /\ UNCHANGED <<wsSession, channelState, heartbeatGroup, recoveries>>

\* WsSessionMonitor::record_connected: a reconnect only after a disconnect.
RecordConnected ==
    /\ wsSession.reconnect_total < MaxReports
    /\ wsSession' = [connected |-> TRUE, disconnected_at |-> None,
                     reconnect_total |-> IF ~wsSession.connected /\ wsSession.disconnected_at # None
                                         THEN wsSession.reconnect_total + 1
                                         ELSE wsSession.reconnect_total]
    /\ UNCHANGED <<sessionClock, channelState, heartbeatGroup, recoveries>>

\* WsSessionMonitor::record_disconnected.
RecordDisconnected ==
    /\ wsSession.connected
    /\ wsSession' = [wsSession EXCEPT !.connected = FALSE, !.disconnected_at = sessionClock]
    /\ UNCHANGED <<sessionClock, channelState, heartbeatGroup, recoveries>>

\* record_market_event and record_user_event: an event is no recovery.
RecordChannelEvent ==
    /\ channelState' = [channelState EXCEPT !.last_message_at = sessionClock]
    /\ UNCHANGED <<sessionClock, wsSession, heartbeatGroup, recoveries>>

\* WsChannelLivenessMonitor::reconcile_trigger.
ChannelReconcileTrigger ==
    /\ sessionClock - channelState.last_message_at > MaxGap
    /\ ~channelState.attention
    /\ channelState.reports < MaxReports
    /\ channelState' = [channelState EXCEPT !.attention = TRUE,
                                            !.stale_since = channelState.last_message_at + MaxGap,
                                            !.reports = @ + 1]
    /\ UNCHANGED <<sessionClock, wsSession, heartbeatGroup, recoveries>>

\* reset_reconcile_attention.
ResetReconcileAttention ==
    /\ channelState' = [channelState EXCEPT !.last_message_at = sessionClock, !.stale_since = None,
                                            !.attention = FALSE]
    /\ recoveries' = IF channelState.attention THEN [recoveries EXCEPT !.channel = @ + 1] ELSE recoveries
    /\ UNCHANGED <<sessionClock, wsSession, heartbeatGroup>>

\* Mutant: every invalid heartbeat raises an attention.
RaiseAttentionAgain(group) ==
    [group EXCEPT !.attention = TRUE, !.next_journal_seq = @ + 1]

\* raise_attention: once until a heartbeat succeeds, as the next input of the group.
RaiseAttention(group) ==
    IF group.attention THEN group
    ELSE [group EXCEPT !.attention = TRUE, !.next_journal_seq = @ + 1]

\* record_success.
RecordSuccess(group) ==
    [group EXCEPT !.heartbeat_id = TRUE, !.last_success_at = group.now, !.attention = FALSE]

\* record_fetch_result: an invalid heartbeat may still name one.
RecordFetchResult(group, valid, named) ==
    IF valid THEN RecordSuccess(group)
    ELSE RaiseAttention([group EXCEPT !.heartbeat_id = named])

\* reconcile_trigger of the heartbeat monitor, for the group's time.
HeartbeatReconcileTrigger(group, gap) ==
    IF group.now > group.last_success_at + gap THEN RaiseAttention(group) ELSE group

\* HeartbeatTaskGroup::tick: the source answers, or fails.
HeartbeatTick ==
    /\ heartbeatGroup.next_journal_seq <= MaxReports
    /\ \/ \E valid, named \in BOOLEAN :
            /\ heartbeatGroup' = RecordFetchResult(heartbeatGroup, valid, named)
            /\ recoveries' = IF valid /\ heartbeatGroup.attention
                             THEN [recoveries EXCEPT !.heartbeat = @ + 1] ELSE recoveries
       \/ /\ heartbeatGroup' = HeartbeatReconcileTrigger(heartbeatGroup, MaxGap)
          /\ UNCHANGED recoveries
    /\ UNCHANGED <<sessionClock, wsSession, channelState>>

MonitorNext ==
    \/ TimePasses
    \/ RecordConnected
    \/ RecordDisconnected
    \/ RecordChannelEvent
    \/ ChannelReconcileTrigger
    \/ ResetReconcileAttention
    \/ HeartbeatTick

VenueSessionsInit == ClientInit /\ MonitorInit

VenueSessionsNext ==
    \/ ClientNext /\ UNCHANGED monitorVars
    \/ MonitorNext /\ UNCHANGED clientVars

VenueSessionsSpec == VenueSessionsInit /\ [][VenueSessionsNext]_<<clientVars, monitorVars>>

---------------------------------------------------------------------------
(***************************************************************************)
(* Properties                                                              *)
(***************************************************************************)

\* The events a caller was given and those that wait for it are, in order, all
\* the events of the frames read, however frames of several events, empty and
\* invalid ones follow each other.  A transport reads every frame of the venue
\* in its order; the calls of a gateway, which lose what is sent between them
\* and behind their first message, never read one twice or after a later one
\* (next_market_event, next_user_event, market_events and user_events).
EventsDeliveredOnce ==
    \A ch \in Channels :
        /\ delivered[ch] \o pendingEvents[ch] =
               FlattenSeq([i \in DOMAIN readFrames[ch] |->
                   LET events == EventsOf(ch, readFrames[ch][i])
                   IN  IF events = None THEN <<>> ELSE events])
        /\ \A i \in DOMAIN readFrames[ch] :
               IF wsGateway
               THEN \A j \in 1..(i - 1) : readFrames[ch][j].id < readFrames[ch][i].id
               ELSE readFrames[ch][i].id = i

\* An outage is reported once: between two recoveries of a monitor one
\* attention is raised however many heartbeats are invalid or polls late, and
\* one that is not raised was recovered (raise_attention and reconcile_trigger).
OneReportPerOutage ==
    /\ channelState.reports - recoveries.channel = IF channelState.attention THEN 1 ELSE 0
    /\ heartbeatGroup.next_journal_seq - 1 - recoveries.heartbeat
           = IF heartbeatGroup.attention THEN 1 ELSE 0
=============================================================================
