------------------------------ MODULE CodexRun ------------------------------
(***************************************************************************)
(* One run of the Codex provider: _CodexRun with the _CodexWorker and the  *)
(* JSON-RPC client it shares, and the WorkerRunChannel through which the   *)
(* gateway reads its events and sends it messages.  The app-server process *)
(* is external: it runs the turns of one thread one at a time, each side   *)
(* query in a fork of its own, and may die.                                *)
(*                                                                         *)
(* A turn is named by the message that starts it.  A step is the code      *)
(* between two awaits.  The coroutines are the one that holds the task     *)
(* lock (start, steer, query, cancel), respond, the dispatch job that      *)
(* reads the events and closes the run, the task that finishes a side      *)
(* query, and the watcher of the notifications.                            *)
(***************************************************************************)
EXTENDS Naturals, Sequences, SequencesExt, FiniteSets

CONSTANTS Updates,     \* follow-ups of the user, steered into the main turn
          Queries,     \* side queries
          Asks,        \* requests the server may address to the client
          Questions,   \* ask -> how many questions it has
          MaxDeaths,   \* bound: deaths of the app-server process
          MaxOps       \* bound: follow-ups, side queries and cancels

ASSUME NamesAssumption == /\ Updates \cap Queries = {}
                          /\ {"first", "none", "cancel"} \cap (Updates \cup Queries) = {}
                          /\ "none" \notin Asks
ASSUME QuestionsAssumption == Questions \in [Asks -> Nat \ {0}]
ASSUME BoundsAssumption == MaxDeaths \in Nat /\ MaxOps \in Nat

MainTurns == {"first"} \cup Updates
Turns == MainTurns \cup Queries
\* A completed turn and a failed one are told apart by nobody here.
Statuses == {"ended", "interrupted"}

VARIABLES
    \* the app-server
    alive,      \* the process behind worker.client runs
    turn,       \* asked, running or over, and the updates it has seen
    request,    \* its requests: open, answered or gone, and their turn
    answers,    \* how often the client answered each
    \* the worker and its client
    inbox,      \* CodexAppServer.notifications
    watched,    \* _watch_notifications runs
    routed,     \* _turn_runs
    \* the run
    closed, active,
    expected,   \* _expected_interrupts
    pending,    \* _pending_interactions: an ask and the question it stands at
    side,       \* _side_query
    events,     \* the queue of provider events
    \* the coroutines
    op, reply, finisher, closing,
    \* the channel
    final,      \* the Done event the gateway was handed
    told,       \* updates whose send returned True
    lost,       \* a completion came before its turn was registered, or the
                \* cancel that expects it was cut off
    cut,        \* replies cut off at their write by the gateway's timeout
    deaths, begun

server == <<alive, turn, request, answers>>
run == <<closed, active, expected, pending, side, events>>
history == <<final, told, lost, cut, deaths, begun>>
vars == <<server, inbox, watched, routed, run, op, reply, finisher, closing, history>>

NoAsk == [ask |-> "none", index |-> 0]
Interactions == {NoAsk} \cup
    UNION {{[ask |-> a, index |-> n] : n \in 1..Questions[a]} : a \in Asks}
Results == [kind : {"result"}, turn : Turns, status : Statuses]
Events == Results \cup [kind : {"asked", "resolved"}, ask : Interactions]
          \cup [kind : {"share"}, query : Queries] \cup [kind : {"end"}]
NoFinisher == [at |-> "none", query |-> "none"]
NoResult == [kind |-> "none"]
EndOfEvents == [kind |-> "end"]
Notices == [kind : {"done"}, turn : Turns, status : Statuses]
           \cup [kind : {"ask", "resolved"}, ask : Asks] \cup {EndOfEvents}

TypeOK ==
    /\ alive \in BOOLEAN /\ watched \in BOOLEAN
    /\ closed \in BOOLEAN /\ lost \in BOOLEAN
    /\ turn \in [Turns -> [st : {"none", "asked", "running", "over"},
                           has : SUBSET Updates]]
    /\ request \in [Asks -> [st : {"none", "open", "answered", "gone"},
                             turn : Turns \cup {"none"}]]
    /\ answers \in [Asks -> Nat]
    /\ inbox \in Seq(Notices)
    /\ routed \subseteq Turns /\ expected \subseteq Turns
    /\ active \in MainTurns \cup {"none"}
    /\ pending \in Interactions
    /\ side \in Queries \cup {"none"}
    /\ events \in Seq(Events)
    /\ op \in [at : {"open", "turn", "idle", "side", "steer", "steered", "refused",
                     "fork", "interrupt", "restart", "dead"},
               msg : Turns \cup {"cancel", "none"}]
    /\ reply \in [at : {"idle", "write", "deny"}, ask : Interactions]
    /\ finisher \in [at : {"none", "waiting", "answered", "disposing"},
                     query : Queries \cup {"none"}]
    /\ closing \in {"no", "side", "interrupt", "done"}
    /\ final \in Results \cup {NoResult, EndOfEvents}
    /\ told \subseteq Updates /\ cut \subseteq Asks /\ deaths \in 0..MaxDeaths
    /\ begun \in 0..MaxOps

Init ==
    /\ alive = TRUE /\ watched = TRUE /\ inbox = <<>> /\ routed = {}
    /\ turn = [t \in Turns |-> [st |-> "none", has |-> {}]]
    /\ request = [a \in Asks |-> [st |-> "none", turn |-> "none"]]
    /\ answers = [a \in Asks |-> 0]
    /\ closed = FALSE /\ active = "none"
    /\ expected = {} /\ pending = NoAsk /\ side = "none"
    /\ events = <<>>
    /\ op = [at |-> "open", msg |-> "first"]
    /\ reply = [at |-> "idle", ask |-> NoAsk]
    /\ finisher = NoFinisher
    /\ closing = "no"
    /\ final = NoResult /\ told = {} /\ lost = FALSE /\ cut = {}
    /\ deaths = 0 /\ begun = 0

-----------------------------------------------------------------------------
(* Helpers *)

Idle == [at |-> "idle", msg |-> "none"]
At(where) == [op EXCEPT !.at = where]
MainRuns == \E t \in MainTurns : turn[t].st = "running"
Served == op.at \notin {"open", "dead"} /\ ~(op.at = "turn" /\ op.msg = "first")

\* queue.put; what comes after the channel's last event is read by nobody.
Put(s) == IF final = NoResult THEN events \o s ELSE events

Resolved(i) == IF i = NoAsk THEN <<>> ELSE <<[kind |-> "resolved", ask |-> i]>>

\* The turns of T end, and their open requests with them.
TurnsOver(T) ==
    [t \in Turns |-> IF t \in T THEN [turn[t] EXCEPT !.st = "over"] ELSE turn[t]]
RequestsGone(T) ==
    [a \in Asks |-> IF request[a].st = "open" /\ request[a].turn \in T
                    THEN [request[a] EXCEPT !.st = "gone"] ELSE request[a]]
Unfinished == {t \in Turns : turn[t].st \in {"asked", "running"}}

\* A response of the client: only an open request is settled by it.
Responded(a) ==
    /\ answers' = [answers EXCEPT ![a] = @ + 1]
    /\ request' = [request EXCEPT ![a].st = IF @ = "open" THEN "answered" ELSE @]

\* What cancelling the task of a side query does to it: it disposes of the fork;
\* a cancel that meets it while it does leaves it registered.
CancelledSide ==
    IF finisher.at = "waiting"
    THEN /\ finisher' = [finisher EXCEPT !.at = "disposing"]
         /\ UNCHANGED <<side, routed>>
    ELSE /\ finisher' = NoFinisher
         /\ IF finisher.at = "answered"
            THEN side' = "none" /\ routed' = routed \ {finisher.query}
            ELSE UNCHANGED <<side, routed>>

-----------------------------------------------------------------------------
(* The app-server *)

\* turn/start is taken up once the thread is free; a fork is a thread of its own.
ServerStarts(t) ==
    /\ alive /\ turn[t].st = "asked"
    /\ t \in MainTurns => ~MainRuns
    /\ turn' = [turn EXCEPT ![t] = [st |-> "running",
                                    has |-> IF t \in Updates THEN {t} ELSE {}]]
    /\ UNCHANGED <<alive, request, answers, inbox, watched, routed, run, op, reply,
                   finisher, closing, history>>

\* A turn ends by itself, or because it was told to stop.
ServerEnds(t, status) ==
    /\ alive /\ turn[t].st = "running"
    /\ turn' = TurnsOver({t})
    /\ request' = RequestsGone({t})
    /\ inbox' = Append(inbox, [kind |-> "done", turn |-> t, status |-> status])
    /\ UNCHANGED <<alive, answers, watched, routed, run, op, reply, finisher,
                   closing, history>>

ServerAsks(a, t) ==
    /\ alive /\ turn[t].st = "running" /\ request[a].st = "none"
    /\ request' = [request EXCEPT ![a] = [st |-> "open", turn |-> t]]
    /\ inbox' = Append(inbox, [kind |-> "ask", ask |-> a])
    /\ UNCHANGED <<alive, turn, answers, watched, routed, run, op, reply, finisher,
                   closing, history>>

\* A competing client answered.
ServerResolves(a) ==
    /\ alive /\ request[a].st = "open"
    /\ request' = [request EXCEPT ![a].st = "gone"]
    /\ inbox' = Append(inbox, [kind |-> "resolved", ask |-> a])
    /\ UNCHANGED <<alive, turn, answers, watched, routed, run, op, reply, finisher,
                   closing, history>>

\* The process dies: the reader fails what is outstanding and ends the stream.
ServerDies ==
    /\ alive /\ op.at # "restart" /\ deaths < MaxDeaths
    /\ alive' = FALSE
    /\ deaths' = deaths + 1
    /\ turn' = TurnsOver(Unfinished)
    /\ request' = RequestsGone(Turns)
    /\ inbox' = Append(inbox, EndOfEvents)
    /\ UNCHANGED <<answers, watched, routed, run, op, reply, finisher, closing,
                   final, told, lost, cut, begun>>

-----------------------------------------------------------------------------
(* The watcher: _watch_notifications, one notification at a time *)

\* The run of a turn, by its id or, on the main thread, by the run's thread.
RoutedTo(t) == t \in routed \/ (t \in MainTurns /\ routed # {})

Noticed == watched /\ inbox # <<>> /\ inbox' = Tail(inbox)

\* Mutant: a completion is matched with the active turn, and an older one is
\* thought to be stale.
ReportedActive(t, status) ==
    IF t # active THEN <<>> ELSE <<[kind |-> "result", turn |-> t, status |-> status]>>

\* The result of a main turn; the interrupt that was asked for reports nothing.
Reported(t, status) ==
    IF status = "interrupted" /\ t \in expected THEN <<>>
    ELSE <<[kind |-> "result", turn |-> t, status |-> status]>>

\* turn/completed.  The answer of the side query wakes its task; anything else
\* that is routed here ends a main turn.
NoticeDone ==
    /\ Noticed /\ Head(inbox).kind = "done"
    /\ LET t == Head(inbox).turn
           status == Head(inbox).status
       IN /\ IF ~RoutedTo(t) \/ side = t
             THEN /\ finisher' = IF finisher = [at |-> "waiting", query |-> t]
                                 THEN [finisher EXCEPT !.at = "answered"] ELSE finisher
                  /\ UNCHANGED <<pending, active, expected, events>>
             ELSE /\ UNCHANGED finisher
                  /\ pending' = NoAsk
                  /\ active' = IF active = t THEN "none" ELSE active
                  /\ expected' = IF status = "interrupted" THEN expected \ {t} ELSE expected
                  /\ events' = Put(Resolved(pending) \o Reported(t, status))
          /\ routed' = IF RoutedTo(t) THEN routed \ {t} ELSE routed
          /\ lost' = (lost \/ (t \in MainTurns /\ ~RoutedTo(t)))
    /\ UNCHANGED <<server, watched, closed, side, op, reply, closing, final, told,
                   cut, deaths, begun>>

\* Mutant: a request of a turn that is not known yet is ignored.
NoticeAskDropped ==
    /\ Noticed /\ Head(inbox).kind = "ask"
    /\ LET here == [ask |-> Head(inbox).ask, index |-> 1]
       IN IF pending = NoAsk /\ request[here.ask].turn = active
          THEN pending' = here /\ events' = Put(<<[kind |-> "asked", ask |-> here]>>)
          ELSE UNCHANGED <<pending, events>>
    /\ UNCHANGED <<server, watched, routed, closed, active, expected, side, op, reply,
                   finisher, closing, history>>

\* A request of the server: only the active turn may ask, one thing at a time;
\* anything else is declined on the spot.
NoticeAsk ==
    /\ Noticed /\ Head(inbox).kind = "ask"
    /\ LET a == Head(inbox).ask
           t == request[a].turn
           here == [ask |-> a, index |-> 1]
       IN IF RoutedTo(t) /\ t = active /\ pending = NoAsk
          THEN /\ pending' = here
               /\ events' = Put(<<[kind |-> "asked", ask |-> here]>>)
               /\ UNCHANGED <<answers, request>>
          ELSE /\ alive => Responded(a)
               /\ ~alive => UNCHANGED <<answers, request>>
               /\ UNCHANGED <<pending, events>>
    /\ UNCHANGED <<alive, turn, watched, routed, closed, active, expected, side, op,
                   reply, finisher, closing, history>>

NoticeResolved ==
    /\ Noticed /\ Head(inbox).kind = "resolved"
    /\ IF pending.ask = Head(inbox).ask /\ routed # {}
       THEN pending' = NoAsk /\ events' = Put(Resolved(pending))
       ELSE UNCHANGED <<pending, events>>
    /\ UNCHANGED <<server, watched, routed, closed, active, expected, side, op,
                   reply, finisher, closing, history>>

\* The end of the stream ends the watcher, and nobody is told.
NoticeEnd ==
    /\ Noticed /\ Head(inbox).kind = "end"
    /\ watched' = FALSE
    /\ UNCHANGED <<server, routed, run, op, reply, finisher, closing, history>>

-----------------------------------------------------------------------------
(* start, and the turn/start that steer shares with it *)

\* The thread is open: the run is bound to the tool router and asks for a turn.
ThreadOpens ==
    /\ op.at = "open" /\ alive
    /\ turn' = [turn EXCEPT !["first"].st = "asked"]
    /\ op' = At("turn")
    /\ UNCHANGED <<alive, request, answers, inbox, watched, routed, closed, active,
                   expected, pending, side, events, reply, finisher, closing,
                   history>>

\* The response to turn/start.
TurnStarts ==
    /\ op.at = "turn" /\ turn[op.msg].st \in {"running", "over"} /\ alive
    /\ active' = op.msg
    /\ routed' = routed \cup {op.msg}
    /\ told' = told \cup ({op.msg} \cap Updates)
    /\ op' = Idle
    /\ UNCHANGED <<server, inbox, watched, closed, expected, pending, side, events,
                   reply, finisher, closing, final, lost, cut, deaths, begun>>

\* Opening the thread or the first turn fails: _start closes the run.
StartFails ==
    /\ op.msg = "first" /\ op.at \in {"open", "turn"}
    /\ op' = At("dead")
    /\ closed' = TRUE
    /\ events' = Put(<<EndOfEvents>>)
    /\ UNCHANGED <<server, inbox, watched, routed, active, expected, pending, side,
                   reply, finisher, closing, history>>

-----------------------------------------------------------------------------
(* The holder of the task lock: steer, query, cancel *)

\* steer and query refuse a closed run, cancel has nothing left to do; all end
\* the side query first.
Begin(m) ==
    /\ op.at = "idle" /\ Served /\ ~closed /\ closing = "no"
    /\ begun < MaxOps /\ begun' = begun + 1
    /\ m \in Turns => turn[m].st = "none" /\ m \notin told
    /\ op' = [at |-> "side", msg |-> m]
    /\ CancelledSide
    /\ UNCHANGED <<server, inbox, watched, closed, active, expected, pending,
                   events, reply, closing, final, told, lost, cut, deaths>>

SideCancelled == op.at = "side" /\ finisher.at = "none"

\* turn/steer, with the turn that is expected to be active.
SteerSent ==
    /\ SideCancelled /\ op.msg \in Updates
    /\ IF active # "none"
       THEN op' = At("steer") /\ UNCHANGED turn
       ELSE /\ op' = At("turn")
            /\ turn' = [turn EXCEPT ![op.msg].st = "asked"]
    /\ UNCHANGED <<alive, request, answers, inbox, watched, routed, closed, active,
                   expected, pending, side, events, reply, finisher, closing,
                   history>>

ServerSteers ==
    /\ op.at = "steer" /\ alive
    /\ IF active # "none" /\ turn[active].st = "running"
       THEN /\ turn' = [turn EXCEPT ![active].has = @ \cup {op.msg}]
            /\ op' = At("steered")
       ELSE op' = At("refused") /\ UNCHANGED turn
    /\ UNCHANGED <<alive, request, answers, inbox, watched, routed, run, reply,
                   finisher, closing, history>>

Steered ==
    /\ op.at = "steered"
    /\ told' = told \cup {op.msg}
    /\ op' = Idle
    /\ UNCHANGED <<server, inbox, watched, routed, run, reply, finisher, closing,
                   final, lost, cut, deaths, begun>>

\* The steer failed or timed out: a turn of its own, on a run that is not looked
\* at again.
SteerFalls ==
    /\ op.at \in {"steer", "steered", "refused"}
    /\ IF alive
       THEN /\ op' = At("turn")
            /\ turn' = [turn EXCEPT ![op.msg].st = "asked"]
       ELSE op' = Idle /\ UNCHANGED turn
    /\ UNCHANGED <<alive, request, answers, inbox, watched, routed, closed, active,
                   expected, pending, side, events, reply, finisher, closing,
                   history>>

\* thread/fork, thread/goal/clear and turn/start of a side query.
Fork ==
    /\ SideCancelled /\ op.msg \in Queries
    /\ IF alive
       THEN op' = At("fork") /\ turn' = [turn EXCEPT ![op.msg].st = "asked"]
       ELSE op' = Idle /\ UNCHANGED turn
    /\ UNCHANGED <<alive, request, answers, inbox, watched, routed, run, reply,
                   finisher, closing, history>>

\* The response: the side query replaces whatever _side_query held.
Forked ==
    /\ op.at = "fork" /\ turn[op.msg].st \in {"running", "over"} /\ alive
    /\ side' = op.msg
    /\ routed' = routed \cup {op.msg}
    /\ finisher' = [at |-> "waiting", query |-> op.msg]
    /\ op' = Idle
    /\ UNCHANGED <<server, inbox, watched, closed, active, expected, pending,
                   events, reply, closing, history>>

\* The request fails, or the gateway's timeout cancels the coroutine while it
\* awaits; what the server was asked for may still happen.  A side task that is
\* awaited is cancelled once more.
Cut ==
    /\ op.at \in {"side", "steer", "fork", "interrupt"}
       \/ (op.at = "turn" /\ op.msg # "first")
    /\ op' = Idle
    /\ lost' = (lost \/ op.at = "interrupt")
    /\ IF op.at = "side" /\ finisher.at # "none" THEN CancelledSide
       ELSE UNCHANGED <<finisher, side, routed>>
    /\ UNCHANGED <<server, inbox, watched, closed, active, expected, pending,
                   events, reply, closing, final, told, cut, deaths, begun>>

\* _interrupt_active of cancel: turn/interrupt for the active turn.
CancelSent ==
    /\ SideCancelled /\ op.msg = "cancel"
    /\ op' = At("interrupt")
    /\ expected' = expected \cup ({active} \ {"none"})
    /\ UNCHANGED <<server, inbox, watched, routed, closed, active, pending, side,
                   events, reply, finisher, closing, history>>

\* Mutant: cancel does not wait for the turn to be over.
ShutUnwaited ==
    /\ op.at = "interrupt"
    /\ closed' = TRUE /\ pending' = NoAsk
    /\ events' = <<>>
    /\ op' = Idle
    /\ final' = IF final = NoResult THEN EndOfEvents ELSE final
    /\ UNCHANGED <<server, inbox, watched, routed, active, expected, side, reply,
                   finisher, closing, told, lost, cut, deaths, begun>>

\* The turn is over, or there was none: _close, and the channel is cancelled.
Shut ==
    /\ op.at = "interrupt"
    /\ active = "none"
    /\ closed' = TRUE /\ pending' = NoAsk
    /\ events' = <<>>
    /\ op' = Idle
    /\ final' = IF final = NoResult THEN EndOfEvents ELSE final
    /\ UNCHANGED <<server, inbox, watched, routed, active, expected, side, reply,
                   finisher, closing, told, lost, cut, deaths, begun>>

\* It is not over in time, or the server is gone: restart stops the process.
Restart ==
    /\ op.at = "interrupt" /\ active # "none"
    /\ pending' = NoAsk
    /\ events' = Put(IF active \in routed THEN Resolved(pending) ELSE <<>>)
    /\ alive' = FALSE /\ watched' = FALSE /\ inbox' = <<>>
    /\ turn' = TurnsOver(Unfinished)
    /\ request' = RequestsGone(Turns)
    /\ routed' = {}
    /\ op' = At("restart")
    /\ UNCHANGED <<answers, closed, active, expected, side, reply, finisher,
                   closing, history>>

\* ... and starts another one; then the run is closed.
Restarted ==
    /\ op.at = "restart"
    /\ alive' = TRUE /\ watched' = TRUE
    /\ active' = "none"
    /\ closed' = TRUE
    /\ events' = <<>>
    /\ final' = IF final = NoResult THEN EndOfEvents ELSE final
    /\ op' = Idle
    /\ UNCHANGED <<turn, request, answers, inbox, routed, expected, pending, side,
                   reply, finisher, closing, told, lost, cut, deaths, begun>>

-----------------------------------------------------------------------------
(* respond *)

\* The reply finds its interaction or returns False.  While questions are left
\* the native request stays blocked and the next one is asked.
Respond(i) ==
    /\ reply.at = "idle" /\ Served /\ ~closed
    /\ pending = i /\ i # NoAsk
    /\ IF i.index < Questions[i.ask]
       THEN /\ pending' = [i EXCEPT !.index = @ + 1]
            /\ events' = Put(<<[kind |-> "asked", ask |-> [i EXCEPT !.index = @ + 1]]>>)
            /\ UNCHANGED <<reply, answers, request>>
       ELSE /\ alive
            /\ Responded(i.ask)
            /\ reply' = [at |-> "write", ask |-> i]
            /\ UNCHANGED <<pending, events>>
    /\ UNCHANGED <<alive, turn, inbox, watched, routed, closed, active, expected,
                   side, op, finisher, closing, history>>

\* Mutant: the interaction is kept until its turn is over.
WrittenKeeps ==
    /\ reply.at = "write"
    /\ reply' = [at |-> "idle", ask |-> NoAsk]
    /\ UNCHANGED <<server, inbox, watched, routed, run, op, finisher, closing, history>>

\* The response is written: _resolve_interaction, unless the turn's end, a
\* competing client or the close of the run did it.
Written ==
    /\ reply.at = "write"
    /\ IF pending = reply.ask
       THEN pending' = NoAsk /\ events' = Put(Resolved(pending))
       ELSE UNCHANGED <<pending, events>>
    /\ reply' = [at |-> "idle", ask |-> NoAsk]
    /\ UNCHANGED <<server, inbox, watched, routed, closed, active, expected, side,
                   op, finisher, closing, history>>

\* The gateway's timeout cancels the reply between its write and that; bounded
\* to once for each ask.
WriteCut ==
    /\ reply.at = "write" /\ reply.ask.ask \notin cut
    /\ cut' = cut \cup {reply.ask.ask}
    /\ reply' = [at |-> "idle", ask |-> NoAsk]
    /\ UNCHANGED <<server, inbox, watched, routed, run, op, finisher, closing,
                   final, told, lost, deaths, begun>>

-----------------------------------------------------------------------------
(* _finish_side_query and _dispose_side_query *)

\* The answer came.
SideAnswered ==
    /\ finisher.at = "answered"
    /\ events' = IF closed THEN events
                 ELSE Put(<<[kind |-> "share", query |-> finisher.query]>>)
    /\ finisher' = NoFinisher
    /\ side' = IF side = finisher.query THEN "none" ELSE side
    /\ routed' = routed \ {finisher.query}
    /\ UNCHANGED <<server, inbox, watched, closed, active, expected, pending, op,
                   reply, closing, history>>

\* Its time is up: the user is told so, and the turn has to be interrupted.
SideTimesOut ==
    /\ finisher.at = "waiting"
    /\ events' = IF closed THEN events
                 ELSE Put(<<[kind |-> "share", query |-> finisher.query]>>)
    /\ finisher' = [finisher EXCEPT !.at = "disposing"]
    /\ UNCHANGED <<server, inbox, watched, routed, closed, active, expected,
                   pending, side, op, reply, closing, history>>

\* The interrupt was answered, failed or timed out.
Disposed ==
    /\ finisher.at = "disposing"
    /\ finisher' = NoFinisher
    /\ side' = IF side = finisher.query THEN "none" ELSE side
    /\ routed' = routed \ {finisher.query}
    /\ UNCHANGED <<server, inbox, watched, closed, active, expected, pending,
                   events, op, reply, closing, history>>

-----------------------------------------------------------------------------
(* The dispatch job: WorkerRunChannel.events, then close *)

\* The next provider event; a result is the Done event and ends the stream, the
\* end of the queue without one is a failure.
Read ==
    /\ Served /\ final = NoResult /\ events # <<>>
    /\ IF Head(events).kind \in {"result", "end"}
       THEN final' = Head(events) /\ events' = <<>>
       ELSE events' = Tail(events) /\ UNCHANGED final
    /\ UNCHANGED <<server, inbox, watched, routed, closed, active, expected,
                   pending, side, op, reply, finisher, closing, told, lost, cut,
                   deaths, begun>>

\* The stream has ended: the run is closed.
Close ==
    /\ closing = "no" /\ final # NoResult
    /\ closed' = TRUE
    /\ IF closed
       THEN closing' = "done" /\ UNCHANGED <<finisher, side, routed>>
       ELSE closing' = "side" /\ CancelledSide
    /\ UNCHANGED <<server, inbox, watched, active, expected, pending, events, op,
                   reply, history>>

CloseInterrupts ==
    /\ closing = "side" /\ finisher.at = "none"
    /\ pending' = NoAsk
    /\ events' = Put(Resolved(pending))
    /\ expected' = expected \cup ({active} \ {"none"})
    /\ closing' = "interrupt"
    /\ UNCHANGED <<server, inbox, watched, routed, closed, active, side, op, reply,
                   finisher, history>>

\* The turn is over, or the interrupt failed: the run is released either way.
Closed ==
    /\ closing = "interrupt"
    /\ closing' = "done"
    /\ UNCHANGED <<server, inbox, watched, routed, closed, active, expected,
                   pending, side, events, op, reply, finisher, history>>

-----------------------------------------------------------------------------
(* Specification *)

\* An interrupt that was sent may end a turn; otherwise turns end as they like.
Server ==
    \/ \E t \in Turns : ServerStarts(t)
    \/ \E t \in Turns : ServerEnds(t, "ended")
    \/ \E t \in Turns : /\ t \in expected \/ finisher = [at |-> "disposing", query |-> t]
                        /\ ServerEnds(t, "interrupted")
    \/ \E a \in Asks, t \in MainTurns : ServerAsks(a, t)
    \/ \E a \in Asks : ServerResolves(a)
    \/ ServerDies

Watcher == NoticeDone \/ NoticeAsk \/ NoticeResolved \/ NoticeEnd

Operation ==
    \/ ThreadOpens \/ TurnStarts \/ StartFails
    \/ \E m \in Updates \cup Queries \cup {"cancel"} : Begin(m)
    \/ SteerSent \/ ServerSteers \/ Steered \/ SteerFalls
    \/ Fork \/ Forked
    \/ Cut
    \/ CancelSent \/ Shut \/ Restart \/ Restarted

Answer == (\E i \in Interactions : Respond(i)) \/ Written \/ WriteCut
SideTask == SideAnswered \/ SideTimesOut \/ Disposed
Dispatch == Read \/ Close \/ CloseInterrupts \/ Closed

Next == Server \/ Watcher \/ Operation \/ Answer \/ SideTask \/ Dispatch

Spec == Init /\ [][Next]_vars

\* The event loop runs what is ready, and the requests of a coroutine are
\* answered or time out.
Fairness ==
    /\ WF_vars(Watcher)
    /\ WF_vars(TurnStarts \/ StartFails)
    /\ WF_vars(SteerSent \/ Steered \/ SteerFalls \/ Fork \/ Forked \/ CancelSent)
    /\ WF_vars(Shut \/ Restart \/ Restarted)
    /\ WF_vars(SideTask)
    /\ WF_vars(Dispatch)

FairSpec == Spec /\ Fairness

-----------------------------------------------------------------------------
(* Properties *)

\* A request of the server gets one response: the user's answer and the
\* automatic decline never both reach it, except where a reply was cut off
\* between its write and the end of its interaction.
AnsweredOnce == \A a \in Asks : answers[a] > 1 => a \in cut

\* The run's stream is over, or the result that ends it is on its way.
Ending == closed \/ final # NoResult \/ \E n \in DOMAIN events : events[n].kind = "result"

\* A native request that is open is in somebody's hands: its notification is
\* to come, or it is the pending interaction, until the run's stream ends.
\* One that nobody holds would block its turn for good.
RequestHeld ==
    \A a \in Asks :
        request[a].st = "open" =>
            \/ \E n \in DOMAIN inbox : inbox[n] = [kind |-> "ask", ask |-> a]
            \/ pending.ask = a
            \/ Ending

\* Every request of the server is served once: it is in somebody's hands while
\* it is open, and two hands never answer it (_on_server_request, codex.py:1280;
\* respond, 983).
RequestsServed == AnsweredOnce /\ RequestHeld

\* When cancel has returned, no turn that was accepted runs any more (one whose
\* start was cut off by the gateway's timeout is not known to the run).
CancelStops ==
    (final = EndOfEvents /\ op.at = "idle") =>
        \A t \in {"first"} \cup told : turn[t].st \in {"none", "over"}

\* The run ends with the end of a main turn: a side query is answered "without
\* modifying the primary task" (README.md:145, the text of codex.py:1591).
QueriesStayAside == final.kind = "result" => final.turn \in MainTurns

\* A main turn that is over ends the run's stream, whatever steers, cancels and
\* side queries go on.  The watcher tells nobody of the death of the server.
RunEnds ==
    (turn["first"].st = "over" /\ deaths = 0) ~>
        (final # NoResult \/ lost \/ deaths > 0 \/ op.at = "dead")
=============================================================================
