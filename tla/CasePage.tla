------------------------------ MODULE CasePage ------------------------------
(* frontend/public: the page (app.js) and its Socket.IO client (socketio.js).
   The page posts a presentation, shows the record it is answered with, closes
   the connection it had, opens one for the new case and renders what is pushed
   to it.  Connection n is the one the page opens for its submission n; it does
   not reconnect.

   The service is what it promises: CaseLifecycle says how a case moves (and
   CaseRunner implements it), and a session pumps one stream as CaseStreams
   has it.  A WebSocket delivers in order, may fail to open or break, and drops
   what it is given to send, or receives, while it is not open.

   Frames are named for what decode makes of them; a `case` event is named for
   the status of the record it carries.  Pings are answered by the client at
   once and change nothing else; they are left out. *)
EXTENDS Naturals, Sequences

CONSTANTS MaxSubmits,     \* bound: submissions of the page
          MaxConcurrent   \* settings.max_concurrent_cases

ASSUME PageAssumption == {MaxSubmits, MaxConcurrent} \subseteq Nat

VARIABLES
    status,    \* submission -> where the service has got with it
    form,      \* the submit button: idle, or posting or answered while disabled
    answer,    \* the submission the service accepted, 0 if none or refused
    socket,    \* the connection in `socket`, 0 while null
    shown,     \* the record on the page: its case and its status
    report,    \* the case whose report is on the page, 0 while it is hidden
    notes,     \* the notes under the trail
    ws,        \* connection -> its WebSocket
    ready,     \* connection -> the namespace handshake is over
    queued,    \* connection -> frames held back until it is
    toServer,  \* connection -> frames on their way to the service
    toPage,    \* connection -> frames on their way to the page
    session,   \* connection -> the session the service has for it
    stream     \* connection -> the last record its stream emitted, or its phase

form_ == <<form, answer>>
page == <<socket, shown, report, notes>>
client == <<ws, ready, queued>>
wire == <<toServer, toPage>>
service == <<session, stream>>
vars == <<status, form_, page, client, wire, service>>

Life == INSTANCE CaseLifecycle

Connections == 1..MaxSubmits
Final == Life!Final
Shown == {"queued", "running"} \cup Final

(* ------------------------------- the wire --------------------------------- *)

\* Faulty Push: the newest frame overtakes the others.
PushFirst(n, frames) ==
    toPage' = IF ws[n] = "open" THEN [toPage EXCEPT ![n] = frames \o @] ELSE toPage

\* What the service emits to a page that has closed its end is dropped there.
Push(n, frames) ==
    toPage' = IF ws[n] = "open" THEN [toPage EXCEPT ![n] = @ \o frames] ELSE toPage

\* The session ends, and its stream with it (events.py, disconnect).
Hangs(n) ==
    /\ session' = [session EXCEPT ![n] = "gone"]
    /\ stream' = [stream EXCEPT ![n] = "stopped"]

(* The upgrade succeeds; the service opens with its Engine.IO greeting. *)
Open(n) ==
    /\ ws[n] = "connecting"
    /\ ws' = [ws EXCEPT ![n] = "open"]
    /\ session' = [session EXCEPT ![n] = "open"]
    /\ toPage' = [toPage EXCEPT ![n] = <<"open">>]
    /\ UNCHANGED <<status, form_, page, ready, queued, toServer, stream>>

(* It fails, or is given up before it succeeded: an `error` event all the
   same, which onError turns into a note. *)
FailToOpen(n) ==
    /\ ws[n] \in {"connecting", "failing"}
    /\ ws' = [ws EXCEPT ![n] = "closed"]
    /\ notes' = notes \cup {"connection"}
    /\ UNCHANGED <<status, form_, socket, shown, report, ready, queued, wire, service>>

(* An open connection breaks, at either end or between: what was on its way is
   lost, and the page, which passes no onClose, may learn nothing of it. *)
Break(n) ==
    /\ ws[n] = "open"
    /\ ws' = [ws EXCEPT ![n] = "closed"]
    /\ notes' \in {notes, notes \cup {"connection"}}
    /\ toServer' = [toServer EXCEPT ![n] = <<>>]
    /\ toPage' = [toPage EXCEPT ![n] = <<>>]
    /\ UNCHANGED <<status, form_, socket, shown, report, ready, queued, service>>

(* The closing handshake is over once the service has read what it was sent,
   or hung up itself. *)
CloseEnds(n) ==
    /\ ws[n] = "closing"
    /\ toServer[n] = <<>> \/ session[n] = "gone"
    /\ ws' = [ws EXCEPT ![n] = "closed"]
    /\ toServer' = [toServer EXCEPT ![n] = <<>>]
    /\ UNCHANGED <<status, form_, page, ready, queued, toPage, service>>

(* ------------------------------ the service ------------------------------- *)

Receive(n) ==
    LET frame == Head(toServer[n]) IN
    /\ session[n] \in {"open", "joined"}
    /\ toServer[n] # <<>>
    /\ toServer' = [toServer EXCEPT ![n] = Tail(@)]
    /\ \/ /\ frame = "connect"
          /\ session' = [session EXCEPT ![n] = "joined"]
          /\ Push(n, <<"connected">>)
          /\ UNCHANGED stream
       \/ /\ frame = "subscribe"
          /\ stream' = [stream EXCEPT ![n] = "starting"]
          /\ UNCHANGED <<session, toPage>>
       \/ /\ frame = "disconnect"
          /\ Hangs(n)
          /\ UNCHANGED toPage
    /\ UNCHANGED <<status, form_, page, client>>

(* The transport tells the service that the page's end is closed. *)
Notice(n) ==
    /\ ws[n] = "closed"
    /\ session[n] \in {"open", "joined"}
    /\ Hangs(n)
    /\ toServer' = [toServer EXCEPT ![n] = <<>>]
    /\ UNCHANGED <<status, form_, page, client, toPage>>

(* The service hangs up on a session with an Engine.IO close. *)
Dismiss(n) ==
    /\ session[n] \in {"open", "joined"}
    /\ Hangs(n)
    /\ toServer' = [toServer EXCEPT ![n] = <<>>]
    /\ Push(n, <<"close">>)
    /\ UNCHANGED <<status, form_, page, client>>

Pumping == {"starting", "queued", "running"}

(* stream_case: the record as it is now, the `done` after a terminal one, or
   an error when there is none any more.  Versions in between may be skipped. *)
Emit(n) ==
    /\ stream[n] \in Pumping
    /\ stream[n] # status[n]
    /\ \/ /\ status[n] = "dropped"
          /\ stream' = [stream EXCEPT ![n] = "over"]
          /\ Push(n, <<"case_not_found">>)
       \/ /\ status[n] \in {"queued", "running"}
          /\ stream' = [stream EXCEPT ![n] = status[n]]
          /\ Push(n, <<status[n]>>)
       \/ /\ status[n] \in Final
          /\ stream' = [stream EXCEPT ![n] = "over"]
          /\ Push(n, <<status[n], "done">>)
    /\ UNCHANGED <<status, form_, page, client, toServer, session>>

(* Cases move as CaseLifecycle lets them, submissions apart. *)
Proceed ==
    /\ \/ \E n \in Connections :
             Life!Begin(n) \/ Life!Settle(n) \/ Life!Abandon(n) \/ Life!Drop(n)
       \/ \E V \in SUBSET Life!With("succeeded") : V # {} /\ Life!Expire(V)
    /\ UNCHANGED <<form_, page, client, wire, service>>

(* The POST reaches the service, which answers with the new record or with an
   error (api/errors.py). *)
Accept(n) ==
    /\ form = "posting"
    /\ Life!Accept(n, {})
    /\ answer' = n
    /\ form' = "answered"
    /\ UNCHANGED <<page, client, wire, service>>

Refuse ==
    /\ form = "posting"
    /\ answer' = 0
    /\ form' = "answered"
    /\ UNCHANGED <<status, page, client, wire, service>>

(* ------------------------------- the page --------------------------------- *)

(* submit: the button is disabled and the POST sent (with nothing to send the
   form only says so). *)
Submit ==
    /\ form = "idle"
    /\ form' = "posting"
    /\ UNCHANGED <<status, answer, page, client, wire, service>>

(* fetch rejects, or the body cannot be read: before the service saw the POST,
   or after it accepted a case the page will never hear of. *)
PostFails ==
    /\ form \in {"posting", "answered"}
    /\ form' = "idle"
    /\ answer' = 0
    /\ UNCHANGED <<status, page, client, wire, service>>

ShowRefusal ==
    /\ form = "answered"
    /\ answer = 0
    /\ form' = "idle"
    /\ UNCHANGED <<status, answer, page, client, wire, service>>

(* socket.close(): the namespace is left and the WebSocket closed, after which
   it delivers nothing; one that is still connecting can be told nothing. *)
Close(n) ==
    /\ toServer' = [toServer EXCEPT ![n] = IF ws[n] = "open"
                                           THEN Append(@, "disconnect") ELSE @]
    /\ toPage' = [toPage EXCEPT ![n] = <<>>]

AfterClose(n) == CASE ws[n] = "open" -> "closing"
                   [] ws[n] = "connecting" -> "failing"
                   [] OTHER -> ws[n]

\* render: the record replaces what was shown, the notes under it included, and
\* says why it failed; the report appears once there is one.
Render(n, s) ==
    /\ shown' = [case |-> n, status |-> s]
    /\ notes' = IF s \in {"failed", "cancelled"} THEN {"why"} ELSE {}

\* emit before the namespace is joined.
HoldBack(n, frame) == queued' = [queued EXCEPT ![n] = Append(@, frame)]

\* Faulty Watch: the panel of the report is left open.
WatchKeepingReport(n) ==
    /\ form = "answered"
    /\ answer = n
    /\ form' = "idle"
    /\ answer' = 0
    /\ IF socket = 0 THEN UNCHANGED wire ELSE Close(socket)
    /\ ws' = [m \in Connections |-> CASE m = n -> "connecting"
                                      [] m = socket -> AfterClose(m)
                                      [] OTHER -> ws[m]]
    /\ Render(n, "queued")
    /\ socket' = n
    /\ HoldBack(n, "subscribe")
    /\ UNCHANGED <<status, report, ready, service>>

\* Faulty Watch: the connection there was is left open.
WatchKeepingOld(n) ==
    /\ form = "answered"
    /\ answer = n
    /\ form' = "idle"
    /\ answer' = 0
    /\ ws' = [ws EXCEPT ![n] = "connecting"]
    /\ report' = 0
    /\ Render(n, "queued")
    /\ socket' = n
    /\ HoldBack(n, "subscribe")
    /\ UNCHANGED <<status, ready, wire, service>>

\* Faulty Watch: the subscription is sent at once, on a WebSocket that drops it.
WatchSendingAtOnce(n) ==
    /\ form = "answered"
    /\ answer = n
    /\ form' = "idle"
    /\ answer' = 0
    /\ IF socket = 0 THEN UNCHANGED wire ELSE Close(socket)
    /\ ws' = [m \in Connections |-> CASE m = n -> "connecting"
                                      [] m = socket -> AfterClose(m)
                                      [] OTHER -> ws[m]]
    /\ report' = 0
    /\ Render(n, "queued")
    /\ socket' = n
    /\ UNCHANGED <<status, ready, queued, service>>

(* The answer is a record: watch it over a connection of its own, instead of
   the one there was.  The subscription waits for the handshake. *)
Watch(n) ==
    /\ form = "answered"
    /\ answer = n
    /\ form' = "idle"
    /\ answer' = 0
    /\ IF socket = 0 THEN UNCHANGED wire ELSE Close(socket)
    /\ ws' = [m \in Connections |-> CASE m = n -> "connecting"
                                      [] m = socket -> AfterClose(m)
                                      [] OTHER -> ws[m]]
    /\ report' = 0
    /\ Render(n, "queued")
    /\ socket' = n
    /\ HoldBack(n, "subscribe")
    /\ UNCHANGED <<status, ready, service>>

\* The next frame for the page, which handles it while the WebSocket is open.
Handles(n, frame) ==
    /\ ws[n] = "open"
    /\ toPage[n] # <<>>
    /\ frame = Head(toPage[n])

Taken(n) == toPage' = [toPage EXCEPT ![n] = Tail(@)]

\* Engine.IO is open: join the namespace.
Greet(n) ==
    /\ Handles(n, "open")
    /\ Taken(n)
    /\ toServer' = [toServer EXCEPT ![n] = Append(@, "connect")]
    /\ UNCHANGED <<status, form_, page, client, service>>

\* Faulty Join: the held-back frames are sent and kept.
JoinKeepingQueue(n) ==
    /\ Handles(n, "connected")
    /\ Taken(n)
    /\ ready' = [ready EXCEPT ![n] = TRUE]
    /\ toServer' = [toServer EXCEPT ![n] = @ \o queued[n]]
    /\ UNCHANGED <<status, form_, page, ws, queued, service>>

\* The namespace is joined: what was held back is sent.
Join(n) ==
    /\ Handles(n, "connected")
    /\ Taken(n)
    /\ ready' = [ready EXCEPT ![n] = TRUE]
    /\ toServer' = [toServer EXCEPT ![n] = @ \o queued[n]]
    /\ queued' = [queued EXCEPT ![n] = <<>>]
    /\ UNCHANGED <<status, form_, page, ws, service>>

\* A `case` event is rendered, on whichever connection it came.
Show(n) ==
    /\ \E s \in Shown :
          /\ Handles(n, s)
          /\ Render(n, s)
          /\ report' = IF s = "succeeded" THEN n ELSE report
    /\ Taken(n)
    /\ UNCHANGED <<status, form_, socket, client, toServer, service>>

\* `done` and `error` are notes.
Note(n) ==
    /\ \E what \in {"done", "case_not_found"} :
          /\ Handles(n, what)
          /\ notes' = notes \cup {what}
    /\ Taken(n)
    /\ UNCHANGED <<status, form_, socket, shown, report, client, toServer, service>>

\* The service has hung up.
HungUpOn(n) ==
    /\ Handles(n, "close")
    /\ ws' = [ws EXCEPT ![n] = "closing"]
    /\ toPage' = [toPage EXCEPT ![n] = <<>>]
    /\ UNCHANGED <<status, form_, page, ready, queued, toServer, service>>

Deliver(n) == Greet(n) \/ Join(n) \/ Show(n) \/ Note(n) \/ HungUpOn(n)

(* ------------------------------ specification ----------------------------- *)

Init ==
    /\ status = [n \in Connections |-> "none"]
    /\ form = "idle" /\ answer = 0
    /\ socket = 0 /\ report = 0 /\ notes = {}
    /\ shown = [case |-> 0, status |-> "nothing"]
    /\ ws = [n \in Connections |-> "none"]
    /\ ready = [n \in Connections |-> FALSE]
    /\ queued = [n \in Connections |-> <<>>]
    /\ toServer = [n \in Connections |-> <<>>]
    /\ toPage = [n \in Connections |-> <<>>]
    /\ session = [n \in Connections |-> "none"]
    /\ stream = [n \in Connections |-> "none"]

Next ==
    \/ Submit \/ PostFails \/ ShowRefusal \/ Refuse \/ Proceed
    \/ \E n \in Connections :
          \/ Open(n) \/ FailToOpen(n) \/ Break(n) \/ CloseEnds(n)
          \/ Receive(n) \/ Notice(n) \/ Dismiss(n) \/ Emit(n)
          \/ Accept(n) \/ Watch(n) \/ Deliver(n)

\* What happens by itself, of a connection and of its case.
Onward(n) ==
    \/ Open(n) \/ FailToOpen(n) \/ CloseEnds(n) \/ Deliver(n)
    \/ Receive(n) \/ Notice(n) \/ Emit(n)
    \/ (Life!Begin(n) \/ Life!Settle(n))
       /\ UNCHANGED <<form_, page, client, wire, service>>

(* A WebSocket opens or fails to, closes, and delivers while it is open; the
   service reads, notices and emits; its cases begin and end: while any of that
   can go on it does, which is enough since none can go on for ever.  Nobody has
   to submit, no POST has to be answered, and nothing has to break. *)
Fairness == WF_vars(\E n \in Connections : Onward(n))

Spec == Init /\ [][Next]_vars /\ Fairness

(* -------------------------------- properties ------------------------------ *)

(* The types; and a frame is held back only until the namespace is joined, so
   that a subscription is sent once. *)
PageTypeOK ==
    /\ form \in {"idle", "posting", "answered"}
    /\ answer \in 0..MaxSubmits
    /\ socket \in 0..MaxSubmits
    /\ shown \in [case : 0..MaxSubmits, status : Shown \cup {"nothing"}]
    /\ report \in 0..MaxSubmits
    /\ notes \subseteq {"why", "done", "case_not_found", "connection"}
    /\ \A n \in Connections :
          /\ ws[n] \in {"none", "connecting", "failing", "open", "closing", "closed"}
          /\ session[n] \in {"none", "open", "joined", "gone"}
          /\ stream[n] \in Pumping \cup {"none", "over", "stopped"}
          /\ Len(toServer[n]) <= 2
          /\ ready[n] => queued[n] = <<>>

(* What the page shows belongs together, with no state machine of its own to
   see to it ("render(record) ... redraws from scratch"): the record is that of
   the case being watched, a final status is the one that case ended with, the
   note that it is finished stands under a finished record, and the report is
   its own, never an earlier submission's. *)
PageCoherent ==
    /\ shown.case = socket
    /\ shown.status \in Final => status[socket] \in {shown.status, "dropped"}
    /\ "done" \in notes => shown.status \in Final
    /\ report # 0 => report = socket /\ shown.status = "succeeded"

Stage(s) == CASE s = "nothing" -> 0 [] s = "queued" -> 1 [] s = "running" -> 2
              [] OTHER -> 3

(* The page never goes back: from a later submission to an earlier, from a
   later status to an earlier, or from one ending to another, whatever is
   still on its way over which connection. *)
ShownMovesForward ==
    [][\/ shown'.case > shown.case
       \/ /\ shown'.case = shown.case
          /\ Stage(shown.status) <= Stage(shown'.status)
          /\ Stage(shown.status) = 3 => shown' = shown]_vars

(* A page that stays on a case gets to show how it ended, unless its connection
   is lost (there is no reconnection) or the case was deleted meanwhile, which
   it is told. *)
EndIsShown ==
    \A n \in Connections :
        socket = n ~> \/ socket # n
                      \/ shown.status \in Final
                      \/ "case_not_found" \in notes
                      \/ ws[n] \in {"closing", "closed"}

(* A page has one subscription at a time: when it moves on, the session it had
   ends, and with it the stream. *)
FormerSessionsEnd ==
    \A n \in Connections :
        n < socket ~> session[n] \in {"none", "gone"} /\ stream[n] \notin Pumping
=============================================================================
