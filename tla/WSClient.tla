------------------------------ MODULE WSClient --------------------------------
(***************************************************************************)
(* The WebSocket client (internal/panel/ws.go) between the panel and a     *)
(* node service: Run connects again and again, a reader goroutine of each  *)
(* connection hands events over, and the select loop of the connection     *)
(* writes what the service and the status ticker put into writeCh.  The    *)
(* callbacks are those of newPushClient (internal/controlplane/panel.go).  *)
(*                                                                         *)
(* An event is represented by the number of its connection.  Backoff       *)
(* times, pings (a pong goes into writeCh like a report) and payloads,     *)
(* some of which are dropped before onEvent, are left out.                 *)
(***************************************************************************)
EXTENDS Naturals, Sequences

CONSTANTS
    NoChannel,   \* nil
    WriteCap,    \* capacity of writeCh,
    EventCap,    \* of wsEvents
    StatusCap,   \* and of wsStatusCh
    MaxLinks,    \* bounds of the model: connections,
    MaxEvents    \* and events that the panel sends

ASSUME WSClientConstants ==
    /\ {WriteCap, EventCap, StatusCap, MaxLinks, MaxEvents} \subseteq Nat \ {0}
    /\ NoChannel \notin Nat

VARIABLES
    run,        \* where Run is, and whether connect returned an error
    connected,  \* w.connected
    link,       \* the number of the last connection
    wire,       \* of each connection: whether it holds, and events on their way
    reader,     \* of each connection: "none", "reads", "holds" an event, "gone"
    writeCh,    \* how much it holds, or NoChannel
    wsEvents, wsStatuses,   \* the service's channels
    down,       \* wsDisconnectAt is set
    stopping,   \* Run's context is cancelled
    told,       \* history: the last status told, or "nothing"
    handled,    \* history: the connection of the last event handed to the callback,
    overtaken,  \* whether one of an older connection came after one of a newer,
    orphaned,   \* and the connections whose reader was not waited for
    sent        \* history: events

wsclient == <<run, connected, link, wire, reader, writeCh, wsEvents, wsStatuses, down,
              stopping, told, handled, overtaken, orphaned, sent>>

Links == 1..MaxLinks
Statuses == [connected : BOOLEAN, resync : BOOLEAN]

WSTypeOK ==
    /\ run \in [at : {"dialling", "hello", "greeted", "open", "closing", "ended", "waiting", "returned"},
                failed : BOOLEAN]
    /\ connected \in BOOLEAN /\ link \in 0..MaxLinks
    /\ wire \in [Links -> [up : BOOLEAN, events : 0..MaxEvents]]
    /\ reader \in [Links -> {"none", "reads", "holds", "gone"}]
    /\ writeCh \in 0..WriteCap \union {NoChannel}
    /\ wsEvents \in 0..EventCap
    /\ wsStatuses \in Seq(Statuses) /\ Len(wsStatuses) <= StatusCap
    /\ down \in BOOLEAN /\ stopping \in BOOLEAN
    /\ told \in {"nothing", "up", "down"}
    /\ handled \in 0..MaxLinks /\ overtaken \in BOOLEAN /\ orphaned \subseteq Links
    /\ sent \in 0..MaxEvents

\* The client before Run has done anything, or after its end.
WSAt(at) ==
    /\ run = [at |-> at, failed |-> FALSE]
    /\ connected = FALSE /\ link = 0
    /\ wire = [c \in Links |-> [up |-> FALSE, events |-> 0]]
    /\ reader = [c \in Links |-> "none"]
    /\ writeCh = NoChannel /\ wsEvents = 0 /\ wsStatuses = <<>>
    /\ down = FALSE /\ stopping = (at = "returned")
    /\ told = "nothing" /\ handled = 0 /\ overtaken = FALSE /\ orphaned = {} /\ sent = 0

WSInit == WSAt("dialling")

At(a) == run' = [run EXCEPT !.at = a]

-----------------------------------------------------------------------------
(***************************************************************************)
(* The callbacks: neither waits for the service.                           *)
(***************************************************************************)
Queued(s) == IF Len(wsStatuses) < StatusCap THEN Append(wsStatuses, s) ELSE wsStatuses

Notify(up) ==
    /\ told' = IF up THEN "up" ELSE "down"
    /\ wsStatuses' = Queued([connected |-> up, resync |-> FALSE])

\* onEvent: a full channel asks for a reconciliation, and says that there is a connection.
OnEvent(c) ==
    /\ handled' = c /\ overtaken' = (overtaken \/ c < handled)
    /\ IF wsEvents < EventCap
          THEN wsEvents' = wsEvents + 1 /\ UNCHANGED wsStatuses
          ELSE wsStatuses' = Queued([connected |-> TRUE, resync |-> TRUE]) /\ UNCHANGED wsEvents

-----------------------------------------------------------------------------
(***************************************************************************)
(* The network and the panel.                                              *)
(***************************************************************************)
PanelSends(c) ==
    /\ wire[c].up /\ sent < MaxEvents
    /\ sent' = sent + 1
    /\ wire' = [wire EXCEPT ![c].events = @ + 1]
    /\ UNCHANGED <<run, connected, link, reader, writeCh, wsEvents, wsStatuses, down, stopping, told,
                   handled, overtaken, orphaned>>

\* The connection breaks, or the panel closes it.
Breaks(c) ==
    /\ wire[c].up
    /\ wire' = [wire EXCEPT ![c].up = FALSE]
    /\ UNCHANGED <<run, connected, link, reader, writeCh, wsEvents, wsStatuses, down, stopping, told,
                   handled, overtaken, orphaned, sent>>

-----------------------------------------------------------------------------
(***************************************************************************)
(* connect.  Whichever way it returns, the connection is closed and        *)
(* writeCh is nil.                                                         *)
(***************************************************************************)
ConnectReturns(err) ==
    /\ run' = [at |-> "ended", failed |-> err]
    /\ wire' = [c \in Links |-> IF c = link THEN [wire[c] EXCEPT !.up = FALSE] ELSE wire[c]]
    /\ writeCh' = NoChannel
    /\ UNCHANGED <<connected, link, reader, wsEvents, wsStatuses, down, stopping, told, handled, overtaken, sent>>

Dial ==
    /\ run.at = "dialling" /\ ~stopping /\ link < MaxLinks
    /\ link' = link + 1
    /\ wire' = [wire EXCEPT ![link + 1].up = TRUE]
    /\ At("hello")
    /\ UNCHANGED <<connected, reader, writeCh, wsEvents, wsStatuses, down, stopping, told, handled, overtaken,
                   orphaned, sent>>

DialFails == run.at = "dialling" /\ ConnectReturns(TRUE) /\ UNCHANGED orphaned

\* The first message is an error, or there is none.
Refused == run.at = "hello" /\ ConnectReturns(TRUE) /\ UNCHANGED orphaned

Greeted ==
    /\ run.at = "hello" /\ wire[link].up
    /\ connected' = TRUE /\ Notify(TRUE)
    /\ At("greeted")
    /\ UNCHANGED <<link, wire, reader, writeCh, wsEvents, down, stopping, handled, overtaken, orphaned, sent>>

\* writeCh, and the reader.
Open ==
    /\ At("open") /\ writeCh' = 0
    /\ reader' = [reader EXCEPT ![link] = "reads"]

OpenAfterAuth ==
    /\ run.at = "greeted" /\ Open
    /\ UNCHANGED <<connected, link, wire, wsEvents, wsStatuses, down, stopping, told, handled, overtaken, orphaned, sent>>

\* The first message was an event already.
OpenAfterEvent ==
    /\ run.at = "greeted" /\ wire[link].events > 0 /\ Open
    /\ wire' = [wire EXCEPT ![link].events = @ - 1]
    /\ OnEvent(link)
    /\ UNCHANGED <<connected, link, down, stopping, told, orphaned, sent>>

Reads(c) ==
    /\ reader[c] = "reads" /\ wire[c].events > 0
    /\ reader' = [reader EXCEPT ![c] = "holds"]
    /\ wire' = [wire EXCEPT ![c].events = @ - 1]
    /\ UNCHANGED <<run, connected, link, writeCh, wsEvents, wsStatuses, down, stopping, told, handled, overtaken,
                   orphaned, sent>>

Delivers(c) ==
    /\ reader[c] = "holds"
    /\ OnEvent(c)
    /\ reader' = [reader EXCEPT ![c] = "reads"]
    /\ UNCHANGED <<run, connected, link, wire, writeCh, down, stopping, told, orphaned, sent>>

\* A broken connection gives an error, and errCh takes it.
ReaderEnds(c) ==
    /\ reader[c] = "reads" /\ ~wire[c].up
    /\ reader' = [reader EXCEPT ![c] = "gone"]
    /\ UNCHANGED <<run, connected, link, wire, writeCh, wsEvents, wsStatuses, down, stopping, told, handled,
                   overtaken, orphaned, sent>>

\* case <-ctx.Done(): a close frame, to which the panel answers with one of its own.
SelectDone ==
    /\ run.at = "open" /\ stopping
    /\ At("closing")
    /\ UNCHANGED <<connected, link, wire, reader, writeCh, wsEvents, wsStatuses, down, stopping, told, handled,
                   overtaken, orphaned, sent>>

\* Mutant of Closed: connect does not wait for its reader.
ClosedAtOnce == run.at = "closing" /\ ConnectReturns(FALSE) /\ UNCHANGED orphaned

Closed == run.at = "closing" /\ reader[link] = "gone" /\ ConnectReturns(FALSE) /\ UNCHANGED orphaned

SelectErr == run.at = "open" /\ reader[link] = "gone" /\ ConnectReturns(TRUE) /\ UNCHANGED orphaned

SelectWrite ==
    /\ run.at = "open" /\ writeCh > 0
    /\ writeCh' = writeCh - 1
    /\ UNCHANGED <<run, connected, link, wire, reader, wsEvents, wsStatuses, down, stopping, told, handled,
                   overtaken, orphaned, sent>>

\* The reader is not waited for: it may still hold an event.
WriteFails ==
    /\ run.at = "open" /\ writeCh > 0 /\ ~wire[link].up
    /\ ConnectReturns(TRUE)
    /\ orphaned' = orphaned \union {link}

-----------------------------------------------------------------------------
(***************************************************************************)
(* Run, between connections.                                               *)
(***************************************************************************)
\* Mutant of Ended: only the end of a connection is told.
EndedOnce ==
    /\ run.at = "ended"
    /\ connected' = FALSE
    /\ IF connected THEN Notify(FALSE) ELSE UNCHANGED <<told, wsStatuses>>
    /\ At("waiting")
    /\ UNCHANGED <<link, wire, reader, writeCh, wsEvents, down, stopping, handled, overtaken, orphaned, sent>>

Ended ==
    /\ run.at = "ended"
    /\ connected' = FALSE
    /\ IF connected \/ run.failed THEN Notify(FALSE) ELSE UNCHANGED <<told, wsStatuses>>
    /\ At("waiting")
    /\ UNCHANGED <<link, wire, reader, writeCh, wsEvents, down, stopping, handled, overtaken, orphaned, sent>>

Again ==
    /\ run.at = "waiting" /\ ~stopping
    /\ At("dialling")
    /\ UNCHANGED <<connected, link, wire, reader, writeCh, wsEvents, wsStatuses, down, stopping, told, handled,
                   overtaken, orphaned, sent>>

Leaves ==
    /\ run.at = "waiting" /\ stopping
    /\ At("returned")
    /\ UNCHANGED <<connected, link, wire, reader, writeCh, wsEvents, wsStatuses, down, stopping, told, handled,
                   overtaken, orphaned, sent>>

-----------------------------------------------------------------------------
(***************************************************************************)
(* The service.                                                            *)
(***************************************************************************)
\* SendDeviceReport, and the status ticker of an open connection: what does not fit is
\* dropped, and so is all before writeCh is made.
SendReport ==
    /\ connected /\ writeCh # NoChannel /\ writeCh < WriteCap
    /\ writeCh' = writeCh + 1
    /\ UNCHANGED <<run, connected, link, wire, reader, wsEvents, wsStatuses, down, stopping, told, handled,
                   overtaken, orphaned, sent>>

TakeEvent ==
    /\ wsEvents > 0
    /\ wsEvents' = wsEvents - 1
    /\ UNCHANGED <<run, connected, link, wire, reader, writeCh, wsStatuses, down, stopping, told, handled,
                   overtaken, orphaned, sent>>

\* handleWSStatus
TakeStatus ==
    /\ wsStatuses # <<>>
    /\ down' = ~Head(wsStatuses).connected
    /\ wsStatuses' = Tail(wsStatuses)
    /\ UNCHANGED <<run, connected, link, wire, reader, writeCh, wsEvents, stopping, told, handled, overtaken,
                   orphaned, sent>>

Cancels ==
    /\ ~stopping /\ stopping' = TRUE
    /\ UNCHANGED <<run, connected, link, wire, reader, writeCh, wsEvents, wsStatuses, down, told, handled,
                   overtaken, orphaned, sent>>

Client ==
    \/ Dial \/ DialFails \/ Greeted \/ Refused \/ OpenAfterAuth \/ OpenAfterEvent
    \/ SelectDone \/ Closed \/ SelectErr \/ SelectWrite \/ WriteFails \/ Ended \/ Again \/ Leaves

Reader(c) == Reads(c) \/ Delivers(c) \/ ReaderEnds(c)

WSNext ==
    \/ Client
    \/ \E c \in Links : PanelSends(c) \/ Breaks(c) \/ Reader(c)
    \/ SendReport \/ TakeEvent \/ TakeStatus \/ Cancels

\* The goroutines and the service go on, also with the select that has other work.
WSFairness ==
    /\ WF_wsclient(Client) /\ SF_wsclient(SelectErr) /\ SF_wsclient(SelectDone)
    /\ \A c \in Links : WF_wsclient(Reader(c))
    /\ WF_wsclient(TakeStatus)

WSSpec == WSInit /\ [][WSNext]_wsclient /\ WSFairness

-----------------------------------------------------------------------------
(***************************************************************************)
(* Properties.                                                             *)
(***************************************************************************)
\* What was told last is so: there is no connection, and none is believed in, while Run
\* dials, waits or has returned.  Then only a reader whose connection failed in a write
\* can still hand over an event, so only such a one can be overtaken.
NoStrayReader ==
    /\ run.at \in {"dialling", "hello", "waiting", "returned"} =>
          /\ ~connected /\ told # "up" /\ writeCh = NoChannel
          /\ \A c \in Links : reader[c] \in {"reads", "holds"} => c \in orphaned
    /\ run.at \in {"greeted", "open", "closing"} => connected /\ told = "up"
    /\ overtaken => orphaned # {}

\* A connection that stays away is noticed in the end, though the status that says so
\* may be dropped: as long as the panel does not leave a handshake without an answer,
\* for which the client sets no deadline.
DownNoticed ==
    (<>[](~connected /\ ~stopping) /\ []<>(run.at # "hello")) => <>[]down
=============================================================================
