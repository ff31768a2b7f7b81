--------------------------------- MODULE Realtime ---------------------------------
(***************************************************************************)
(* The event streams of one organization in one API process.  Streams are  *)
(* counted: the first one subscribes the process to the organization's     *)
(* Redis channel, the last one unsubscribes it, and neither waits for      *)
(* Redis, which executes the commands of a connection in order.  Events    *)
(* reach the process on that connection and are fanned out by filter.      *)
(***************************************************************************)
EXTENDS Naturals, Sequences, FiniteSets

CONSTANTS
    Streams,        \* SSE connections
    Subjects,       \* KPIs and dashboards
    Events,         \* what may be published: [type, kpi, dashboard]
    MaxOpens,       \* bound: streams opened
    MaxPublished,   \* bound: events published
    MaxOutages      \* bound: commands Redis does not execute

None == "none"
EventTypes == {"ping", "data_point_added", "alert_triggered", "alert_digest"}

ASSUME RealtimeAssumption ==
    /\ Events \subseteq [type : EventTypes, kpi : Subjects \cup {None}, dashboard : Subjects \cup {None}]
    /\ \A e \in Events : e.type = "alert_triggered" => e.kpi # None /\ e.dashboard = None
    /\ IsFiniteSet(Streams) /\ MaxOpens \in Nat /\ MaxPublished \in Nat /\ MaxOutages \in Nat

VARIABLES
    stream,         \* each connection: whether it is open, its filter, what it was sent
    listening,      \* refCounts, and whether the organization has a Subject
    commands,       \* SUBSCRIBE and UNSUBSCRIBE on their way to Redis
    channel,        \* Redis sends the channel's events to this process
    arriving,       \* events on their way to this process
    usage            \* streams opened, events published, outages

VARIABLES
    owed,           \* history: the events each stream should have been sent
    muted           \* history: a command was not executed, and the streams since are mute

realtimeVars == <<stream, listening, commands, channel, arriving, usage, owed, muted>>

------------------------------------------------------------------------------
Filters == [kpi : Subjects \cup {None}, dashboard : Subjects \cup {None}]
NoFilter == [kpi |-> None, dashboard |-> None]
Closed == [open |-> FALSE, filter |-> NoFilter, sent |-> <<>>]

RealtimeInit ==
    /\ stream = [s \in Streams |-> Closed]
    /\ listening = [count |-> 0, subject |-> FALSE]
    /\ commands = <<>> /\ channel = FALSE /\ arriving = <<>>
    /\ usage = [opens |-> 0, published |-> 0, outages |-> 0]
    /\ owed = [s \in Streams |-> <<>>]
    /\ muted = FALSE

\* eventMatchesFilter
Suits(wanted, value) == wanted = None \/ value = wanted
EventMatchesFilter(e, f) ==
    \/ e.type = "ping"
    \/ e.type = "data_point_added" /\ Suits(f.kpi, e.kpi) /\ Suits(f.dashboard, e.dashboard)
    \/ e.type = "alert_triggered" /\ f.dashboard = None /\ Suits(f.kpi, e.kpi)
    \/ f = NoFilter

\* Mutant: the channel is subscribed to unless it still is.
UnlessSubscribed(count) == count = 0 /\ ~channel
FirstStream(count) == count = 0

\* subscribe
OpenStream(s, f) ==
    /\ ~stream[s].open /\ usage.opens < MaxOpens
    /\ usage' = [usage EXCEPT !.opens = @ + 1]
    /\ stream' = [stream EXCEPT ![s] = [open |-> TRUE, filter |-> f, sent |-> <<>>]]
    /\ owed' = [owed EXCEPT ![s] = <<>>]
    /\ listening' = [count |-> listening.count + 1, subject |-> TRUE]
    /\ commands' = IF FirstStream(listening.count) THEN Append(commands, "subscribe") ELSE commands
    /\ UNCHANGED <<channel, arriving, muted>>

\* The teardown: the last stream takes the Subject with it.
CloseStream(s) ==
    /\ stream[s].open
    /\ stream' = [stream EXCEPT ![s] = Closed]
    /\ owed' = [owed EXCEPT ![s] = <<>>]
    /\ LET left == listening.count - 1
       IN /\ listening' = [count |-> left, subject |-> left > 0]
          /\ commands' = IF left > 0 THEN commands ELSE Append(commands, "unsubscribe")
    /\ UNCHANGED <<channel, arriving, usage, muted>>

\* Redis executes the next command.
ExecuteCommand ==
    /\ commands # <<>>
    /\ commands' = Tail(commands)
    /\ channel' = (Head(commands) = "subscribe")
    /\ muted' = FALSE
    /\ UNCHANGED <<stream, listening, arriving, usage, owed>>

\* After three retries a command fails.  The error of a subscribe is logged, the
\* unsubscribe is not awaited and its rejection not caught; nobody tries again.
LoseCommand ==
    /\ commands # <<>> /\ usage.outages < MaxOutages
    /\ usage' = [usage EXCEPT !.outages = @ + 1]
    /\ commands' = Tail(commands)
    /\ muted' = TRUE
    /\ UNCHANGED <<stream, listening, channel, arriving, owed>>

\* publish, from any process; an error there is logged and the event is lost.
Publish(e) ==
    /\ usage.published < MaxPublished
    /\ usage' = [usage EXCEPT !.published = @ + 1]
    /\ arriving' = IF channel THEN Append(arriving, e) ELSE arriving
    /\ owed' = [s \in Streams |->
           IF channel /\ stream[s].open /\ EventMatchesFilter(e, stream[s].filter)
           THEN Append(owed[s], e) ELSE owed[s]]
    /\ UNCHANGED <<stream, listening, commands, channel, muted>>

\* The message handler.
FanOut ==
    /\ arriving # <<>>
    /\ arriving' = Tail(arriving)
    /\ stream' = [s \in Streams |->
           IF listening.subject /\ stream[s].open
              /\ EventMatchesFilter(Head(arriving), stream[s].filter)
           THEN [stream[s] EXCEPT !.sent = Append(@, Head(arriving))]
           ELSE stream[s]]
    /\ UNCHANGED <<listening, commands, channel, usage, owed, muted>>

RealtimeNext ==
    \/ \E s \in Streams : CloseStream(s) \/ \E f \in Filters : OpenStream(s, f)
    \/ \E e \in Events : Publish(e)
    \/ ExecuteCommand \/ LoseCommand \/ FanOut

RealtimeSpec == RealtimeInit /\ [][RealtimeNext]_realtimeVars

------------------------------------------------------------------------------
(* Properties *)

\* Every variable holds a value of its type.
RealtimeTypeOK ==
    /\ stream \in [Streams -> [open : BOOLEAN, filter : Filters, sent : Seq(Events)]]
    /\ listening \in [count : 0..MaxOpens, subject : BOOLEAN]
    /\ commands \in Seq({"subscribe", "unsubscribe"}) /\ channel \in BOOLEAN
    /\ arriving \in Seq(Events)
    /\ usage.opens \in 0..MaxOpens /\ usage.published \in 0..MaxPublished
    /\ usage.outages \in 0..MaxOutages
    /\ \A s \in Streams : owed[s] \in Seq(Events)
    /\ muted \in BOOLEAN

\* However streams open and close around each other, the process is subscribed once
\* Redis has executed its commands exactly when a stream is open, unless one was lost;
\* and a stream is sent all the events Redis passed on since it was opened, in order,
\* once they have arrived, perhaps after events that were on their way then.
StreamsGetEvents ==
    /\ commands = <<>> => (channel <=> \E s \in Streams : stream[s].open) \/ muted
    /\ \A s \in Streams : arriving = <<>> /\ stream[s].open =>
           LET n == Len(stream[s].sent) - Len(owed[s])
           IN n >= 0 /\ SubSeq(stream[s].sent, n + 1, Len(stream[s].sent)) = owed[s]
===================================================================================
