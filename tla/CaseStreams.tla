----------------------------- MODULE CaseStreams -----------------------------
(* api/events.py: Socket.IO sessions subscribe to cases, one task per
   subscription pumps `runner.watch` into the session, and a table
   {session: {case: task}} remembers what unsubscribe and disconnect must stop.

   The stream tasks are the watchers of CaseStore: a stream is created
   "starting", delivers records while "emitting", waits for the next change,
   and ends "done" (the `done` message went out), "lost" (an error message went
   out: no such case, or an emit that raised) or "stopped" (cancelled).  Its
   done-callback runs later, as a step of its own. *)
EXTENDS CaseRunner

CONSTANTS Sessions,
          MaxStreams       \* bound: subscriptions in a behaviour

ASSUME StreamAssumption ==
    /\ MaxStreams \in Nat
    /\ Watchers = 1..MaxStreams

VARIABLES session,   \* session -> open, or gone once it disconnected
          table,     \* streams: session -> case -> stream, 0 for no entry
          owner,     \* stream -> the session it emits to, 0 while unused
          stopping,  \* stream -> task.cancel() was called on it
          retired    \* the streams whose done-callback has run

streamVars == <<session, table, owner, stopping, retired>>
allVars == <<vars, streamVars>>

Live(i) == watch[i].phase \in {"starting", "emitting", "waiting"}
Over(i) == watch[i].phase \in {"done", "lost", "stopped"}

\* task.cancel() on the streams of S, which a finished task ignores.
StopAll(S) == [i \in Watchers |-> stopping[i] \/ (i \in S /\ Live(i))]

\* subscribe replaces an entry it finds: the old stream is cancelled, a new
\* task is created and put in the table.
Subscribe(s, c, i) ==
    /\ session[s] = "open"
    /\ watch[i].phase = "idle"
    /\ \A j \in Watchers : j < i => watch[j].phase # "idle"
    /\ BeginWatch(i, c)
    /\ stopping' = StopAll({table[s][c]})
    /\ owner' = [owner EXCEPT ![i] = s]
    /\ table' = [table EXCEPT ![s][c] = i]
    /\ UNCHANGED <<session, retired>>

Unsubscribe(s, c) ==
    /\ session[s] = "open"
    /\ table[s][c] # 0
    /\ stopping' = StopAll({table[s][c]})
    /\ table' = [table EXCEPT ![s][c] = 0]
    /\ UNCHANGED <<watch, session, owner, retired>>

\* Faulty Disconnect: the session is forgotten, its streams go on.
DisconnectOnly(s) ==
    /\ session[s] = "open"
    /\ session' = [session EXCEPT ![s] = "gone"]
    /\ table' = [table EXCEPT ![s] = [c \in CaseIds |-> 0]]
    /\ UNCHANGED <<watch, owner, stopping, retired>>

Disconnect(s) ==
    /\ session[s] = "open"
    /\ session' = [session EXCEPT ![s] = "gone"]
    /\ stopping' = StopAll({table[s][c] : c \in CaseIds})
    /\ table' = [table EXCEPT ![s] = [c \in CaseIds |-> 0]]
    /\ UNCHANGED <<watch, owner, retired>>

(* stream_case goes on pumping, unless it has been cancelled. *)
Pump(i) ==
    /\ ~stopping[i]
    /\ WatchStep(i)
    /\ UNCHANGED streamVars

(* An emit raises: the client is told so, as it is of a case that is gone, and
   the subscription ends without taking the connection with it. *)
EmitRaises(i) ==
    /\ ~stopping[i]
    /\ watch[i].phase = "emitting"
    /\ watch' = [watch EXCEPT ![i].phase = "lost"]
    /\ UNCHANGED streamVars

(* The CancelledError reaches stream_case, which lets it propagate. *)
Stopped(i) ==
    /\ stopping[i]
    /\ Live(i)
    /\ watch' = [watch EXCEPT ![i].phase = "stopped"]
    /\ UNCHANGED streamVars

\* Faulty StreamRetires: no done-callback was added.
StreamStaysInTable(i) ==
    /\ Over(i)
    /\ i \notin retired
    /\ retired' = retired \cup {i}
    /\ UNCHANGED <<watch, session, table, owner, stopping>>

(* The done-callback of a stream removes the table entry under its session and
   case, whichever stream that entry holds. *)
StreamRetires(i) ==
    /\ Over(i)
    /\ i \notin retired
    /\ retired' = retired \cup {i}
    /\ table' = [table EXCEPT ![owner[i]][watch[i].case] = 0]
    /\ UNCHANGED <<watch, session, owner, stopping>>

StreamInit ==
    /\ Init
    /\ session = [s \in Sessions |-> "open"]
    /\ table = [s \in Sessions |-> [c \in CaseIds |-> 0]]
    /\ owner = [i \in Watchers |-> 0]
    /\ stopping = [i \in Watchers |-> FALSE]
    /\ retired = {}

ClientStep ==
    \E s \in Sessions :
        \/ \E c \in CaseIds :
              (\E i \in Watchers : Subscribe(s, c, i)) \/ Unsubscribe(s, c)
        \/ Disconnect(s)

StreamStep(i) == Pump(i) \/ Stopped(i) \/ StreamRetires(i)

StreamNext ==
    /\ ClientStep \/ \E i \in Watchers : StreamStep(i) \/ EmitRaises(i)
    /\ UNCHANGED <<cases, now, taskVars, slots, waiting, closing>>

ServiceNext == StreamNext \/ (RunnerNext /\ UNCHANGED streamVars)

(* The loop runs every ready stream task and callback, and an emit to a
   session returns: python-socketio queues the packet. *)
ServiceSpec == StreamInit /\ [][ServiceNext]_allVars

StreamFairness ==
    \A i \in Watchers :
        WF_allVars(StreamStep(i)
                   /\ UNCHANGED <<cases, now, taskVars, slots, waiting, closing>>)

FairServiceSpec ==
    /\ ServiceSpec
    /\ StreamFairness
    /\ \A n \in Submits : WF_allVars((TaskStep(n) \/ Finish(n)) /\ UNCHANGED streamVars)

(* -------------------------------- properties ------------------------------ *)

(* A disconnect stops everything its client was watching: no stream goes on
   for a session that is gone ("tasks are tracked per session so that a
   disconnect cancels them"). *)
NoStreamForTheGone ==
    \A i \in Watchers :
        Live(i) /\ owner[i] # 0 /\ session[owner[i]] = "gone" => stopping[i]

(* The same of the streams that replaced none: being replaced, unsubscribed or
   disconnected, each stops, and no done-callback takes it out of the table
   before (the entry such a callback finds is its own or a replacement's). *)
FirstStreamStops ==
    \A i \in Watchers :
        /\ Live(i) /\ owner[i] # 0 /\ session[owner[i]] = "gone"
        /\ \A j \in Watchers :
              j < i => owner[j] # owner[i] \/ watch[j].case # watch[i].case
        => stopping[i]

(* The table never holds a stream whose end it was told of, nor any stream of
   a session that is gone: a long-lived connection accumulates nothing. *)
TableForgets ==
    \A s \in Sessions, c \in CaseIds :
        table[s][c] # 0 => table[s][c] \notin retired /\ session[s] = "open"

(* A subscription that is not stopped ends by telling its client so: `done`
   after a terminal record, or an error once the case is gone. *)
EveryStreamEnds ==
    \A i \in Watchers : Live(i) ~> Over(i)
=============================================================================
