---------------------------- MODULE CodexRunProofs ----------------------------
(***************************************************************************)
(* Proofs about CodexRun: for every number of follow-ups, side queries,    *)
(* requests and questions, and whatever the server and the gateway's       *)
(* timeouts do, a request of the server is served once (RequestsServed)    *)
(* and a cancel that has returned left nothing running (CancelStops).      *)
(***************************************************************************)
EXTENDS CodexRun, SequenceTheorems, TLAPS

Ask(a) == [kind |-> "ask", ask |-> a]
IsOpen(a) == request[a].st = "open"

-----------------------------------------------------------------------------
(* What holds between the coroutine with the task lock and the turns *)

\* A coroutine is where its message takes it, and a message that has no turn of
\* its own yet has not been told of either.
OpShape ==
    /\ op.at \in {"steer", "steered", "refused"} => op.msg \in Updates
    /\ op.at = "turn" => op.msg \in MainTurns
    /\ op.at = "fork" => op.msg \in Queries
    /\ op.at = "open" => op.msg = "first"
    /\ op.at \in {"open", "side", "steer", "steered", "refused"} =>
           \A t \in Turns : op.msg = t => turn[t].st = "none" /\ t \notin told
    /\ op.at = "open" \/ (op.at = "turn" /\ op.msg = "first") =>
           told = {} /\ active = "none"
    /\ op.at = "restart" => \A t \in Turns : turn[t].st \in {"none", "over"}

\* The active turn was started; one that the server took up after it found it over.
ActiveStarted ==
    /\ \A t \in Turns : active = t => turn[t].st \in {"running", "over"}
    /\ \A t, u \in Turns : (/\ op.at = "turn" /\ op.msg = u
                            /\ turn[u].st \in {"running", "over"}
                            /\ active = t) => turn[t].st = "over"
    /\ \A n \in DOMAIN inbox : \A t \in Turns :
           inbox[n].kind = "done" /\ inbox[n].turn = t => turn[t].st = "over"

Stopped(t) == turn[t].st \in {"none", "over"}

\* The only turn that was accepted and may run is the active one.
OnlyActiveRuns ==
    Served => \A t \in {"first"} \cup told : Stopped(t) \/ active = t

\* The channel ends without a result only once cancel has closed the run.
EndIsCancel ==
    /\ \A n \in DOMAIN events : events[n].kind = "end" => op.at = "dead"
    /\ final = EndOfEvents => /\ closed /\ op = Idle
                              /\ \A t \in {"first"} \cup told : Stopped(t)

-----------------------------------------------------------------------------
(* What holds of the requests of the server *)

\* An open request is one of the main turn that runs, and there is only one.
OneMainRuns ==
    /\ \A t, u \in MainTurns : turn[t].st = "running" /\ turn[u].st = "running" => t = u
    /\ \A a \in Asks : IsOpen(a) => alive
    /\ \A a \in Asks : IsOpen(a) => /\ request[a].turn \in MainTurns
                                    /\ turn[request[a].turn].st = "running"

\* A request nobody has made is known to nobody; one whose notification is to come
\* was looked at by nobody, and it comes once.
Unseen(a) == answers[a] = 0 /\ pending.ask # a /\ reply.ask.ask # a
AsksComeOnce ==
    /\ \A a \in Asks : request[a].st = "none" => Unseen(a)
    /\ \A n \in DOMAIN inbox : \A a \in Asks :
           inbox[n].kind = "ask" /\ inbox[n].ask = a =>
               /\ request[a].st # "none" /\ Unseen(a)
               /\ \A m \in DOMAIN inbox : inbox[m].kind = "ask" /\ inbox[m].ask = a => m = n
    /\ \A n \in DOMAIN inbox : \A a \in Asks :
           inbox[n].kind = "resolved" /\ inbox[n].ask = a =>
               request[a].st \notin {"none", "open"}

\* A pending interaction was not answered, unless its reply is at its write or was
\* cut off there.
PendingUnanswered ==
    /\ \A a \in Asks : pending.ask = a =>
           answers[a] = 0 \/ a \in cut \/ (reply.at = "write" /\ reply.ask.ask = a)
    /\ reply.at # "write" => reply = [at |-> "idle", ask |-> NoAsk]
    /\ reply.at = "write" => reply.ask # NoAsk
    /\ \A a \in Asks : reply.at = "write" /\ reply.ask.ask = a =>
           /\ ~IsOpen(a)
           /\ pending.ask = a => pending = reply.ask

-----------------------------------------------------------------------------
(* What keeps an open request in somebody's hands *)

\* The notifications come in order: what an open request waits for comes after the
\* end of every earlier main turn.
AsksAfterDone ==
    \A n \in DOMAIN inbox : inbox[n].kind = "done" /\ inbox[n].turn \in MainTurns =>
        \A a \in Asks : IsOpen(a) => \E m \in DOMAIN inbox : m > n /\ inbox[m] = Ask(a)

RunShape ==
    /\ finisher.at # "none" => finisher.query \in Queries
    /\ expected \subseteq MainTurns
    /\ closing # "no" => closed

IInv ==
    /\ TypeOK
    /\ OpShape /\ ActiveStarted /\ OnlyActiveRuns /\ EndIsCancel
    /\ OneMainRuns /\ AsksComeOnce /\ PendingUnanswered /\ AnsweredOnce
    /\ AsksAfterDone /\ RunShape /\ RequestHeld

-----------------------------------------------------------------------------
(* Types *)

OpTypes == [at : {"open", "turn", "idle", "side", "steer", "steered", "refused",
                  "fork", "interrupt", "restart", "dead"},
            msg : Turns \cup {"cancel", "none"}]
FinisherTypes == [at : {"none", "waiting", "answered", "disposing"},
                  query : Queries \cup {"none"}]
ReplyTypes == [at : {"idle", "write", "deny"}, ask : Interactions]
TurnTypes == [st : {"none", "asked", "running", "over"}, has : SUBSET Updates]
RequestTypes == [st : {"none", "open", "answered", "gone"}, turn : Turns \cup {"none"}]

TypeServer == /\ turn \in [Turns -> TurnTypes]
              /\ request \in [Asks -> RequestTypes]
              /\ answers \in [Asks -> Nat]
TypeInbox == inbox \in Seq(Notices)
TypeEvents == events \in Seq(Events) /\ final \in Results \cup {NoResult, EndOfEvents}
TypeOp == op \in OpTypes /\ active \in MainTurns \cup {"none"} /\ told \subseteq Updates
TypeSide == /\ finisher \in FinisherTypes
            /\ side \in Queries \cup {"none"}
            /\ routed \subseteq Turns
TypeReply == pending \in Interactions /\ reply \in ReplyTypes /\ cut \subseteq Asks
TypeFlags ==
    /\ alive \in BOOLEAN /\ watched \in BOOLEAN
    /\ closed \in BOOLEAN /\ lost \in BOOLEAN
    /\ expected \subseteq Turns
    /\ closing \in {"no", "side", "interrupt", "done"}
    /\ deaths \in 0..MaxDeaths /\ begun \in 0..MaxOps

\* The type invariant, split by what reads and writes the variables.
LEMMA TypeParts ==
    TypeOK <=> /\ TypeServer /\ TypeInbox /\ TypeEvents /\ TypeOp /\ TypeSide
               /\ TypeReply /\ TypeFlags
BY DEF TypeOK, TypeServer, TypeInbox, TypeEvents, TypeOp, TypeSide, TypeReply, TypeFlags,
       OpTypes, FinisherTypes, ReplyTypes, TurnTypes, RequestTypes

\* What the parts of the state look like at a turn, a request and an operation.
LEMMA Typed ==
    ASSUME TypeOK
    PROVE  /\ \A t \in Turns : turn[t] \in TurnTypes
           /\ \A a \in Asks : request[a] \in RequestTypes /\ answers[a] \in Nat
           /\ op \in OpTypes /\ reply \in ReplyTypes /\ finisher \in FinisherTypes
BY TypeParts DEF TypeServer, TypeOp, TypeReply, TypeSide

\* The types hold at the start.
LEMMA TypeInit == Init => TypeOK
<1> SUFFICES ASSUME Init PROVE TypeOK OBVIOUS
<1>1. NoAsk \in Interactions BY DEF Interactions
<1>2. TypeServer BY DEF Init, TypeServer, TurnTypes, RequestTypes
<1>3. TypeInbox BY DEF Init, TypeInbox
<1>4. TypeEvents BY DEF Init, TypeEvents
<1>5. TypeOp BY DEF Init, TypeOp, OpTypes, Turns, MainTurns
<1>6. TypeSide BY DEF Init, TypeSide, NoFinisher, FinisherTypes
<1>7. TypeReply BY <1>1 DEF Init, TypeReply, ReplyTypes
<1>8. TypeFlags
  <2>1. 0 \in 0..MaxDeaths /\ 0 \in 0..MaxOps BY BoundsAssumption
  <2> QED BY <2>1 DEF Init, TypeFlags
<1> QED BY <1>2, <1>3, <1>4, <1>5, <1>6, <1>7, <1>8, TypeParts

\* What can be put into the queue of events.
LEMMA EventTypes ==
    ASSUME TypeOK
    PROVE  /\ Resolved(pending) \in Seq(Events)
           /\ \A t \in Turns, s \in Statuses : Reported(t, s) \in Seq(Events)
           /\ <<EndOfEvents>> \in Seq(Events)
           /\ \A i \in Interactions : <<[kind |-> "asked", ask |-> i]>> \in Seq(Events)
           /\ \A q \in Queries : <<[kind |-> "share", query |-> q]>> \in Seq(Events)
<1>1. pending \in Interactions BY DEF TypeOK
<1>2. \A i \in Interactions : /\ [kind |-> "asked", ask |-> i] \in Events
                              /\ [kind |-> "resolved", ask |-> i] \in Events
  BY DEF Events
<1>3. \A t \in Turns, s \in Statuses :
          [kind |-> "result", turn |-> t, status |-> s] \in Events
  BY DEF Events, Results
<1>4. /\ EndOfEvents \in Events
      /\ \A q \in Queries : [kind |-> "share", query |-> q] \in Events
  BY DEF Events, EndOfEvents
<1> HIDE DEF Events
<1>5. Resolved(pending) \in Seq(Events)
  <2>1. CASE pending = NoAsk BY <2>1 DEF Resolved
  <2>2. CASE pending # NoAsk
    <3>1. Resolved(pending) = <<[kind |-> "resolved", ask |-> pending]>>
      BY <2>2 DEF Resolved
    <3>2. [kind |-> "resolved", ask |-> pending] \in Events BY <1>1, <1>2
    <3> QED BY <3>1, <3>2
  <2> QED BY <2>1, <2>2
<1>6. ASSUME NEW t \in Turns, NEW status \in Statuses
      PROVE  Reported(t, status) \in Seq(Events)
  BY <1>3 DEF Reported
<1>7. ASSUME NEW i \in Interactions
      PROVE  <<[kind |-> "asked", ask |-> i]>> \in Seq(Events)
  <2>1. [kind |-> "asked", ask |-> i] \in Events BY <1>2
  <2> QED BY <2>1
<1>8. ASSUME NEW q \in Queries PROVE <<[kind |-> "share", query |-> q]>> \in Seq(Events)
  <2>1. [kind |-> "share", query |-> q] \in Events BY <1>4
  <2> QED BY <2>1
<1>9. <<EndOfEvents>> \in Seq(Events) BY <1>4
<1> QED BY <1>5, <1>6, <1>7, <1>8, <1>9

\* What is put keeps the queue of events one of events.
LEMMA PutTypes ==
    ASSUME TypeOK, NEW s \in Seq(Events)
    PROVE  Put(s) \in Seq(Events)
<1> events \in Seq(Events) BY DEF TypeOK
<1> QED BY DEF Put

\* The steps that touch the turns, the requests or the answers.
LEMMA ServerSteps ==
    ASSUME [Next]_vars
    PROVE  \/ UNCHANGED <<turn, request, answers>>
           \/ \E t \in Turns : ServerStarts(t)
           \/ \E t \in Turns, status \in Statuses : ServerEnds(t, status)
           \/ \E a \in Asks, t \in MainTurns : ServerAsks(a, t)
           \/ \E a \in Asks : ServerResolves(a)
           \/ ServerDies \/ NoticeAsk
           \/ ThreadOpens \/ SteerSent \/ ServerSteers \/ SteerFalls \/ Fork
           \/ Restart
           \/ \E i \in Interactions : Respond(i)
BY DEF Next, vars, server, run, history, Server, Watcher, Operation, Answer, SideTask,
       Dispatch, NoticeDone, Statuses, NoticeResolved, NoticeEnd, TurnStarts, StartFails,
       Begin, Steered, Forked, Cut, CancelSent, Shut, Restarted, Written, WriteCut,
       SideAnswered, SideTimesOut, Disposed, Read, Close, CloseInterrupts, Closed

\* A turn goes from asked to running to over; only the message in hand asks for one.
TurnMoves(t) ==
    \/ turn'[t].st = turn[t].st
    \/ /\ turn'[t].st = "asked" /\ op.msg = t
       /\ op.at = "open" \/ t \in Updates \cup Queries
       /\ op.at \in {"open", "side", "steer", "steered", "refused"}
       /\ op' = [at |-> IF t \in Queries THEN "fork" ELSE "turn", msg |-> t]
    \/ /\ turn[t].st = "asked" /\ turn'[t].st = "running"
       /\ t \in MainTurns => ~MainRuns
       /\ ServerStarts(t)
    \/ turn[t].st = "running" /\ turn'[t].st = "over"
    \/ turn[t].st = "asked" /\ turn'[t].st = "over" /\ turn' = TurnsOver(Unfinished)

\* Every step moves every turn so, if at all.
LEMMA TurnStep ==
    ASSUME TypeOK, OpShape, [Next]_vars
    PROVE  turn' \in [Turns -> TurnTypes] /\ \A t \in Turns : TurnMoves(t)
<1> USE DEF TurnMoves
<1>0. turn \in [Turns -> TurnTypes] /\ op \in OpTypes BY TypeParts DEF TypeServer, TypeOp
<1>1. CASE UNCHANGED turn BY <1>0, <1>1
<1>2. ASSUME NEW u \in Turns, ServerStarts(u)
      PROVE  turn' \in [Turns -> TurnTypes] /\ \A t \in Turns : TurnMoves(t)
  BY <1>0, <1>2 DEF ServerStarts, TurnTypes
<1>3. ASSUME NEW T \in SUBSET Turns, turn' = TurnsOver(T),
             \A t \in T : turn[t].st = "running" \/ (T = Unfinished /\ turn[t].st = "asked")
      PROVE  turn' \in [Turns -> TurnTypes] /\ \A t \in Turns : TurnMoves(t)
  BY <1>0, <1>3 DEF TurnsOver, TurnTypes
<1>4. ASSUME turn' = [turn EXCEPT ![op.msg].st = "asked"], op.msg \in Turns,
             op.at \in {"open", "side", "steer", "steered", "refused"},
             op.at = "open" \/ op.msg \in Updates \cup Queries,
             op' = At(IF op.msg \in Queries THEN "fork" ELSE "turn")
      PROVE  turn' \in [Turns -> TurnTypes] /\ \A t \in Turns : TurnMoves(t)
  BY <1>0, <1>4 DEF At, OpTypes, TurnTypes
<1>5. ASSUME NEW u \in Turns, ServerSteers,
             turn' = [turn EXCEPT ![u].has = @ \cup {op.msg}]
      PROVE  turn' \in [Turns -> TurnTypes] /\ \A t \in Turns : TurnMoves(t)
  <2>1. op.msg \in Updates BY <1>5 DEF ServerSteers, OpShape
  <2> QED BY <1>0, <1>5, <2>1 DEF TurnTypes
<1>6. ASSUME NEW t \in Turns, NEW status \in Statuses, ServerEnds(t, status)
      PROVE  turn' = TurnsOver({t}) /\ turn[t].st = "running"
  BY <1>6 DEF ServerEnds
<1>7. ServerDies \/ Restart =>
          /\ turn' = TurnsOver(Unfinished)
          /\ \A t \in Unfinished : turn[t].st \in {"asked", "running"}
  BY DEF ServerDies, Restart, Unfinished
<1>8. ThreadOpens => /\ turn' = [turn EXCEPT ![op.msg].st = "asked"] /\ op.msg = "first"
                     /\ op.at = "open" /\ op' = At("turn")
  BY DEF ThreadOpens, OpShape
<1>9. SteerSent => \/ UNCHANGED turn
                   \/ /\ turn' = [turn EXCEPT ![op.msg].st = "asked"] /\ op.msg \in Updates
                      /\ op.at = "side" /\ op' = At("turn")
  BY DEF SteerSent, SideCancelled
<1>10. SteerFalls => \/ UNCHANGED turn
                     \/ /\ turn' = [turn EXCEPT ![op.msg].st = "asked"] /\ op.msg \in Updates
                        /\ op.at \in {"steer", "steered", "refused"} /\ op' = At("turn")
  BY DEF SteerFalls, OpShape
<1>11. Fork => \/ UNCHANGED turn
               \/ /\ turn' = [turn EXCEPT ![op.msg].st = "asked"] /\ op.msg \in Queries
                  /\ op.at = "side" /\ op' = At("fork")
  BY DEF Fork, SideCancelled
<1>12. ServerSteers => \/ UNCHANGED turn
                       \/ \E u \in Turns : turn' = [turn EXCEPT ![u].has = @ \cup {op.msg}]
  <2>1. active \in Turns \cup {"none"} BY DEF TypeOK, Turns
  <2> QED BY <2>1 DEF ServerSteers
<1>13. \A m \in Updates \cup {"first"} : m \in Turns /\ m \notin Queries
  BY NamesAssumption DEF Turns, MainTurns
<1>14. Queries \subseteq Turns /\ Unfinished \in SUBSET Turns BY DEF Turns, Unfinished
<1>15. UNCHANGED turn \/ ThreadOpens \/ SteerSent \/ ServerSteers \/ SteerFalls \/ Fork
       \/ ServerDies \/ Restart
       \/ (\E t \in Turns : ServerStarts(t))
       \/ (\E t \in Turns, status \in Statuses : ServerEnds(t, status))
  BY ServerSteps DEF ServerAsks, ServerResolves, NoticeAsk, Respond
<1> HIDE DEF TurnMoves
<1>16. CASE ServerDies \/ Restart BY <1>3, <1>7, <1>14, <1>16
<1>17. CASE \E t \in Turns, status \in Statuses : ServerEnds(t, status)
  <2>1. PICK t \in Turns, status \in Statuses : ServerEnds(t, status) BY <1>17
  <2>2. {t} \in SUBSET Turns OBVIOUS
  <2> QED BY <1>3, <1>6, <2>1, <2>2
<1>18. CASE ThreadOpens BY <1>4, <1>8, <1>13, <1>18
<1>19. CASE SteerSent BY <1>1, <1>4, <1>9, <1>13, <1>19
<1>20. CASE SteerFalls BY <1>1, <1>4, <1>10, <1>13, <1>20
<1>21. CASE Fork BY <1>1, <1>4, <1>11, <1>14, <1>21
<1>22. CASE ServerSteers BY <1>1, <1>5, <1>12, <1>22
<1> QED BY <1>1, <1>2, <1>15, <1>16, <1>17, <1>18, <1>19, <1>20, <1>21, <1>22

\* A request goes from nobody's to open, and from open to over; who answers settles it.
RequestMoves(a) ==
    \/ UNCHANGED <<request[a], answers[a]>>
    \/ \E t \in MainTurns : /\ ServerAsks(a, t)
                            /\ request'[a] = [st |-> "open", turn |-> t]
                            /\ answers'[a] = answers[a]
    \/ /\ request[a].st = "open" /\ request'[a] = [request[a] EXCEPT !.st = "gone"]
       /\ answers'[a] = answers[a]
    \/ /\ Responded(a) /\ alive
       /\ request'[a].turn = request[a].turn
       /\ request'[a].st = IF request[a].st = "open" THEN "answered" ELSE request[a].st
       /\ answers'[a] = answers[a] + 1

RequestsMove == /\ request' \in [Asks -> RequestTypes] /\ answers' \in [Asks -> Nat]
                /\ \A a \in Asks : RequestMoves(a)

\* Every step moves every request so, if at all.
LEMMA RequestStep == ASSUME TypeOK, [Next]_vars PROVE RequestsMove
<1> USE DEF RequestsMove, RequestMoves
<1>0. /\ request \in [Asks -> RequestTypes] /\ answers \in [Asks -> Nat]
      /\ MainTurns \subseteq Turns
  BY TypeParts DEF TypeServer, Turns
<1>1. CASE UNCHANGED <<request, answers>> BY <1>0, <1>1
<1>2. ASSUME NEW a \in Asks, NEW t \in MainTurns, ServerAsks(a, t) PROVE RequestsMove
  <2>1. request' = [request EXCEPT ![a] = [st |-> "open", turn |-> t]] /\ UNCHANGED answers
    BY <1>2 DEF ServerAsks
  <2>2. [st |-> "open", turn |-> t] \in RequestTypes BY <1>0 DEF RequestTypes
  <2> QED BY <1>0, <1>2, <2>1, <2>2
<1>3. ASSUME NEW A \in SUBSET Asks, \A a \in A : request[a].st = "open", UNCHANGED answers,
             request' = [a \in Asks |-> IF a \in A THEN [request[a] EXCEPT !.st = "gone"]
                                                   ELSE request[a]]
      PROVE  RequestsMove
  <2>1. \A a \in Asks : request'[a] \in RequestTypes BY <1>0, <1>3 DEF RequestTypes
  <2> QED BY <1>0, <1>3, <2>1
<1>4. ASSUME NEW a \in Asks, alive,
             answers' = [answers EXCEPT ![a] = @ + 1],
             request' = [request EXCEPT ![a].st = IF @ = "open" THEN "answered" ELSE @]
      PROVE  RequestsMove
  <2>1. \A b \in Asks : request'[b] \in RequestTypes BY <1>0, <1>4 DEF RequestTypes
  <2>2. Responded(a) BY <1>4 DEF Responded
  <2> QED BY <1>0, <1>4, <2>1, <2>2 DEF RequestTypes
<1>5. ASSUME NEW T, request' = RequestsGone(T), UNCHANGED answers PROVE RequestsMove
  <2> DEFINE A == {a \in Asks : request[a].st = "open" /\ request[a].turn \in T}
  <2>1. A \in SUBSET Asks /\ \A a \in A : request[a].st = "open" OBVIOUS
  <2>2. request' = [a \in Asks |-> IF a \in A THEN [request[a] EXCEPT !.st = "gone"]
                                              ELSE request[a]]
    BY <1>5 DEF RequestsGone
  <2> HIDE DEF A
  <2> QED BY <1>3, <1>5, <2>1, <2>2
<1>6. ASSUME NEW b \in Asks, ServerResolves(b) PROVE RequestsMove
  <2>1. /\ {b} \in SUBSET Asks /\ \A a \in {b} : request[a].st = "open"
        /\ UNCHANGED answers
    BY <1>6 DEF ServerResolves
  <2>2. request' = [a \in Asks |-> IF a \in {b} THEN [request[a] EXCEPT !.st = "gone"]
                                                ELSE request[a]]
    BY <1>0, <1>6 DEF ServerResolves, RequestTypes
  <2> QED BY <1>3, <2>1, <2>2
<1> HIDE DEF RequestsMove, RequestMoves
<1>7. ASSUME NoticeAsk PROVE RequestsMove
  <2>1. UNCHANGED <<request, answers>>
        \/ (Responded(Head(inbox).ask) /\ alive /\ Head(inbox).kind = "ask")
    BY <1>7 DEF NoticeAsk
  <2>2. Head(inbox) \in Notices
    <3>1. inbox \in Seq(Notices) /\ inbox # <<>>
      BY <1>7, TypeParts DEF TypeInbox, NoticeAsk, Noticed
    <3> HIDE DEF Notices
    <3> QED BY <3>1
  <2>3. Head(inbox).kind = "ask" => Head(inbox).ask \in Asks
    BY <2>2 DEF Notices, EndOfEvents
  <2> QED BY <1>1, <1>4, <2>1, <2>3 DEF Responded
<1>8. ASSUME NEW i \in Interactions, Respond(i) PROVE RequestsMove
  <2>1. i # NoAsk => i.ask \in Asks BY DEF Interactions, NoAsk
  <2>2. UNCHANGED <<request, answers>> \/ (Responded(i.ask) /\ alive /\ i # NoAsk)
    BY <1>8 DEF Respond
  <2> QED BY <1>1, <1>4, <2>1, <2>2 DEF Responded
<1>9. UNCHANGED <<request, answers>>
      \/ (\E T \in SUBSET Turns : request' = RequestsGone(T) /\ UNCHANGED answers)
      \/ (\E a \in Asks, t \in MainTurns : ServerAsks(a, t))
      \/ (\E a \in Asks : ServerResolves(a))
      \/ NoticeAsk
      \/ (\E i \in Interactions : Respond(i))
  <2>1. \A t \in Turns, status \in Statuses : ServerEnds(t, status) =>
            request' = RequestsGone({t}) /\ UNCHANGED answers
    BY DEF ServerEnds
  <2>2. ServerDies \/ Restart => request' = RequestsGone(Turns) /\ UNCHANGED answers
    BY DEF ServerDies, Restart
  <2>3. \A t \in Turns : {t} \in SUBSET Turns OBVIOUS
  <2> QED BY <2>1, <2>2, <2>3, ServerSteps DEF ServerStarts, ThreadOpens, SteerSent,
            ServerSteers, SteerFalls, Fork
<1>10. CASE \E T \in SUBSET Turns : request' = RequestsGone(T) /\ UNCHANGED answers
  BY <1>5, <1>10
<1>11. CASE \E a \in Asks, t \in MainTurns : ServerAsks(a, t) BY <1>2, <1>11
<1>12. CASE \E a \in Asks : ServerResolves(a) BY <1>6, <1>12
<1>13. CASE \E i \in Interactions : Respond(i) BY <1>8, <1>13
<1> QED BY <1>1, <1>7, <1>9, <1>10, <1>11, <1>12, <1>13

\* The notifications: the server sends one, the watcher takes the first, or a restart
\* drops all.
Sent(note) ==
    \/ \E t \in Turns, status \in Statuses :
          ServerEnds(t, status) /\ note = [kind |-> "done", turn |-> t, status |-> status]
    \/ \E a \in Asks, t \in MainTurns : ServerAsks(a, t) /\ note = Ask(a)
    \/ \E a \in Asks : ServerResolves(a) /\ note = [kind |-> "resolved", ask |-> a]
    \/ ServerDies /\ note = EndOfEvents
InboxMoves ==
    \/ UNCHANGED inbox
    \/ \E note \in Notices : inbox' = Append(inbox, note) /\ Sent(note)
    \/ inbox # <<>> /\ inbox' = Tail(inbox) /\ Watcher
    \/ inbox' = <<>> /\ Restart

\* Every step moves the notifications so, if at all.
LEMMA InboxStep == ASSUME TypeOK, [Next]_vars PROVE InboxMoves
<1>1. ASSUME NEW t \in Turns, NEW status \in Statuses, ServerEnds(t, status)
      PROVE  InboxMoves
  <2> DEFINE note == [kind |-> "done", turn |-> t, status |-> status]
  <2>1. note \in Notices BY DEF Notices
  <2>2. inbox' = Append(inbox, note) BY <1>1 DEF ServerEnds
  <2>3. Sent(note) BY <1>1 DEF Sent
  <2> QED BY <2>1, <2>2, <2>3 DEF InboxMoves
<1>2. ASSUME NEW a \in Asks, NEW t \in MainTurns, ServerAsks(a, t) PROVE InboxMoves
  <2>1. Ask(a) \in Notices BY DEF Notices, Ask
  <2>2. inbox' = Append(inbox, Ask(a)) BY <1>2 DEF ServerAsks, Ask
  <2>3. Sent(Ask(a)) BY <1>2 DEF Sent
  <2> QED BY <2>1, <2>2, <2>3 DEF InboxMoves
<1>3. ASSUME NEW a \in Asks, ServerResolves(a) PROVE InboxMoves
  <2> DEFINE note == [kind |-> "resolved", ask |-> a]
  <2>1. note \in Notices BY DEF Notices
  <2>2. inbox' = Append(inbox, note) BY <1>3 DEF ServerResolves
  <2>3. Sent(note) BY <1>3 DEF Sent
  <2> QED BY <2>1, <2>2, <2>3 DEF InboxMoves
<1>4. CASE ServerDies
  <2>1. EndOfEvents \in Notices BY DEF Notices
  <2>2. inbox' = Append(inbox, EndOfEvents) BY <1>4 DEF ServerDies
  <2>3. Sent(EndOfEvents) BY <1>4 DEF Sent
  <2> QED BY <2>1, <2>2, <2>3 DEF InboxMoves
<1>5. Watcher \/ Restart => InboxMoves
  BY DEF Watcher, NoticeDone, NoticeAsk, NoticeResolved, NoticeEnd, Noticed, Restart,
         InboxMoves
<1>6. \/ UNCHANGED inbox
      \/ \E t \in Turns, status \in Statuses : ServerEnds(t, status)
      \/ \E a \in Asks, t \in MainTurns : ServerAsks(a, t)
      \/ \E a \in Asks : ServerResolves(a)
      \/ ServerDies \/ Watcher \/ Restart
  BY DEF Next, vars, server, run, history, Server, Operation, Answer, SideTask,
       Dispatch, ServerStarts, Statuses, ThreadOpens, TurnStarts, StartFails, Begin,
       SteerSent, ServerSteers, Steered, SteerFalls, Fork, Forked, Cut, CancelSent, Shut,
       Restarted, Respond, Written, WriteCut, SideAnswered, SideTimesOut, Disposed,
       Read, Close, CloseInterrupts, Closed
<1> QED BY <1>1, <1>2, <1>3, <1>4, <1>5, <1>6 DEF InboxMoves

\* The types of the notifications are kept.
LEMMA TypeInboxKept == ASSUME TypeOK, [Next]_vars PROVE TypeInbox'
<1>1. inbox \in Seq(Notices) BY TypeParts DEF TypeInbox
<1> HIDE DEF Notices
<1>2. CASE \E note \in Notices : inbox' = Append(inbox, note)
  BY <1>1, <1>2, AppendProperties DEF TypeInbox
<1>3. CASE inbox # <<>> /\ inbox' = Tail(inbox) BY <1>1, <1>3 DEF TypeInbox
<1>4. CASE UNCHANGED inbox BY <1>1, <1>4 DEF TypeInbox
<1>5. CASE inbox' = <<>>
  <2>1. <<>> \in Seq(Notices) OBVIOUS
  <2> QED BY <1>5, <2>1 DEF TypeInbox
<1> QED BY <1>2, <1>3, <1>4, <1>5, InboxStep DEF InboxMoves

\* The types of the coroutine with the task lock, and of the active turn.
LEMMA TypeOpKept == ASSUME TypeOK, OpShape, [Next]_vars PROVE TypeOp'
<1>0. /\ op \in OpTypes /\ active \in MainTurns \cup {"none"} /\ told \subseteq Updates
      /\ \A a \in {"turn", "steer", "steered", "refused", "fork", "interrupt", "restart",
                   "dead"} : At(a) \in OpTypes
      /\ Idle \in OpTypes
      /\ \A m \in Updates \cup Queries \cup {"cancel"} : [at |-> "side", msg |-> m] \in OpTypes
  BY TypeParts DEF TypeOp, OpTypes, At, Idle, Turns, MainTurns
<1>1. \/ UNCHANGED op
      \/ op' = Idle
      \/ \E a \in {"turn", "steer", "steered", "refused", "fork", "interrupt", "restart",
                   "dead"} : op' = At(a)
      \/ \E m \in Updates \cup Queries \cup {"cancel"} : op' = [at |-> "side", msg |-> m]
  BY DEF Next, vars, server, run, history, Server, Watcher, Operation, Answer, SideTask,
       Dispatch, ServerStarts, ServerEnds, ServerAsks, ServerResolves, ServerDies, NoticeDone,
       NoticeAsk, NoticeResolved, NoticeEnd, ThreadOpens, TurnStarts, StartFails, Begin,
       SteerSent, ServerSteers, Steered, SteerFalls, Fork, Forked, Cut, CancelSent, Shut,
       Restart, Restarted, Respond, Written, WriteCut, SideAnswered, SideTimesOut, Disposed,
       Read, Close, CloseInterrupts, Closed
<1>2. \/ UNCHANGED <<active, told>>
      \/ active' = "none" /\ UNCHANGED told
      \/ /\ op.at = "turn" /\ active' = op.msg
         /\ told' = told \cup ({op.msg} \cap Updates)
      \/ /\ op.at = "steered" /\ UNCHANGED active
         /\ told' = told \cup {op.msg}
  BY DEF Next, vars, server, run, history, Server, Watcher, Operation, Answer, SideTask,
       Dispatch, ServerStarts, ServerEnds, ServerAsks, ServerResolves, ServerDies, NoticeDone,
       NoticeAsk, NoticeResolved, NoticeEnd, ThreadOpens, TurnStarts, StartFails, Begin,
       SteerSent, ServerSteers, Steered, SteerFalls, Fork, Forked, Cut, CancelSent, Shut,
       Restart, Restarted, Respond, Written, WriteCut, SideAnswered, SideTimesOut, Disposed,
       Read, Close, CloseInterrupts, Closed
<1>3. op' \in OpTypes BY <1>0, <1>1
<1>4. active' \in MainTurns \cup {"none"} /\ told' \subseteq Updates
  BY <1>0, <1>2 DEF OpShape
<1> QED BY <1>3, <1>4 DEF TypeOp

\* Cancelling a side query keeps the types of its task.
LEMMA CancelledTypes == ASSUME TypeOK, CancelledSide PROVE TypeSide'
<1>1. /\ finisher \in FinisherTypes /\ side \in Queries \cup {"none"}
      /\ routed \subseteq Turns
  BY TypeParts DEF TypeSide
<1>2. CASE finisher.at = "waiting"
  BY <1>1, <1>2 DEF CancelledSide, FinisherTypes, TypeSide
<1>3. CASE finisher.at # "waiting"
  <2>1. NoFinisher \in FinisherTypes BY DEF NoFinisher, FinisherTypes
  <2> QED BY <1>1, <1>3, <2>1 DEF CancelledSide, TypeSide
<1> QED BY <1>2, <1>3

\* The types of the side query.
LEMMA TypeSideKept == ASSUME TypeOK, OpShape, [Next]_vars PROVE TypeSide'
<1>0. /\ finisher \in FinisherTypes /\ side \in Queries \cup {"none"}
      /\ routed \subseteq Turns /\ MainTurns \subseteq Turns /\ Queries \subseteq Turns
      /\ NoFinisher \in FinisherTypes
      /\ \A a \in {"answered", "disposing"} : [finisher EXCEPT !.at = a] \in FinisherTypes
      /\ \A q \in Queries : [at |-> "waiting", query |-> q] \in FinisherTypes
  BY TypeParts DEF TypeSide, NoFinisher, FinisherTypes, Turns
<1>1. \/ CancelledSide
      \/ UNCHANGED side /\ routed' \in {routed, {}} /\ UNCHANGED finisher
      \/ NoticeDone \/ TurnStarts \/ Forked \/ SideTimesOut \/ SideAnswered \/ Disposed
  BY DEF Next, vars, server, run, history, Server, Watcher, Operation, Answer, SideTask,
       Dispatch, ServerStarts, ServerEnds, ServerAsks, ServerResolves, ServerDies,
       NoticeAsk, NoticeResolved, NoticeEnd, ThreadOpens, StartFails, Begin,
       SteerSent, ServerSteers, Steered, SteerFalls, Fork, Cut, CancelSent, Shut,
       Restart, Restarted, Respond, Written, WriteCut,
       Read, Close, CloseInterrupts, Closed
<1>2. CASE CancelledSide BY <1>2, CancelledTypes
<1>3. CASE UNCHANGED side /\ routed' \in {routed, {}} /\ UNCHANGED finisher
  BY <1>0, <1>3 DEF TypeSide
<1>4. CASE NoticeDone
  <2>1. /\ finisher' \in {finisher, [finisher EXCEPT !.at = "answered"]}
        /\ routed' \subseteq routed /\ UNCHANGED side
    BY <1>4 DEF NoticeDone
  <2> QED BY <1>0, <2>1 DEF TypeSide
<1>5. CASE TurnStarts
  <2>1. UNCHANGED <<finisher, side>> /\ routed' = routed \cup {op.msg} /\ op.at = "turn"
    BY <1>5 DEF TurnStarts
  <2> QED BY <1>0, <2>1 DEF TypeSide, OpShape
<1>6. CASE Forked
  <2>1. /\ finisher' = [at |-> "waiting", query |-> op.msg] /\ side' = op.msg
        /\ routed' = routed \cup {op.msg} /\ op.msg \in Queries
    BY <1>6 DEF Forked, OpShape
  <2> QED BY <1>0, <2>1 DEF TypeSide
<1>7. CASE SideTimesOut BY <1>0, <1>7 DEF SideTimesOut, TypeSide
<1>8. CASE SideAnswered \/ Disposed BY <1>0, <1>8 DEF SideAnswered, Disposed, TypeSide
<1> QED BY <1>1, <1>2, <1>3, <1>4, <1>5, <1>6, <1>7, <1>8

\* The types of the pending interaction and its reply.
LEMMA TypeReplyKept == ASSUME TypeOK, PendingUnanswered, [Next]_vars PROVE TypeReply'
<1>0. /\ pending \in Interactions /\ reply \in ReplyTypes /\ cut \subseteq Asks
      /\ NoAsk \in Interactions
      /\ [at |-> "idle", ask |-> NoAsk] \in ReplyTypes
      /\ \A i \in Interactions : [at |-> "write", ask |-> i] \in ReplyTypes
  BY TypeParts DEF TypeReply, ReplyTypes, Interactions
<1>1. \/ UNCHANGED <<pending, reply, cut>>
      \/ pending' = NoAsk /\ UNCHANGED <<reply, cut>>
      \/ NoticeAsk \/ (\E i \in Interactions : Respond(i)) \/ Written \/ WriteCut
  BY DEF Next, vars, server, run, history, Server, Watcher, Operation, Answer, SideTask,
       Dispatch, ServerStarts, ServerEnds, ServerAsks, ServerResolves, ServerDies,
       NoticeDone, NoticeResolved, NoticeEnd, ThreadOpens, TurnStarts, StartFails, Begin,
       SteerSent, ServerSteers, Steered, SteerFalls, Fork, Forked, Cut, CancelSent, Shut,
       Restart, Restarted, SideAnswered, SideTimesOut, Disposed,
       Read, Close, CloseInterrupts, Closed
<1>2. CASE NoticeAsk
  <2>1. Head(inbox) \in Notices
    <3>1. inbox \in Seq(Notices) /\ inbox # <<>>
      BY <1>2, TypeParts DEF TypeInbox, NoticeAsk, Noticed
    <3> HIDE DEF Notices
    <3> QED BY <3>1
  <2>2. Head(inbox).ask \in Asks BY <1>2, <2>1 DEF Notices, EndOfEvents, NoticeAsk
  <2>3. [ask |-> Head(inbox).ask, index |-> 1] \in Interactions
    BY <2>2, QuestionsAssumption DEF Interactions
  <2> QED BY <1>0, <1>2, <2>3 DEF NoticeAsk, TypeReply, history
<1>3. ASSUME NEW i \in Interactions, Respond(i) PROVE TypeReply'
  <2>1. i.index < Questions[i.ask] /\ i # NoAsk => [i EXCEPT !.index = @ + 1] \in Interactions
    <3>1. ASSUME i # NoAsk PROVE \E a \in Asks : \E n \in 1..Questions[a] :
                                     i = [ask |-> a, index |-> n]
      BY <3>1 DEF Interactions
    <3>2. ASSUME NEW a \in Asks, NEW n \in 1..Questions[a], n < Questions[a]
          PROVE  [ask |-> a, index |-> n + 1] \in Interactions
      BY <3>2, QuestionsAssumption DEF Interactions
    <3> HIDE DEF Interactions
    <3> QED BY <3>1, <3>2, QuestionsAssumption
  <2> QED BY <1>0, <1>3, <2>1 DEF Respond, TypeReply, history
<1>4. CASE WriteCut
  <2>1. reply.ask.ask \in Asks
    BY <1>0, <1>4 DEF WriteCut, PendingUnanswered, ReplyTypes, Interactions
  <2> QED BY <1>0, <1>4, <2>1 DEF WriteCut, TypeReply, run
<1>5. CASE Written BY <1>0, <1>5 DEF Written, TypeReply, history
<1> QED BY <1>0, <1>1, <1>2, <1>3, <1>4, <1>5 DEF TypeReply

\* The events: some are put, the channel takes the first or the last, or the close
\* of the run drops them.  Only a start that fails puts the end.
Plain(s) == \A n \in DOMAIN s : s[n].kind # "end"
EventsMoves ==
    \/ UNCHANGED events
    \/ events' = <<>> /\ closed'
    \/ Read
    \/ StartFails /\ events' = Put(<<EndOfEvents>>)
    \/ \E s \in Seq(Events) : Plain(s) /\ events' = Put(s)

\* Every step moves the events so, if at all.
LEMMA EventsStep ==
    ASSUME TypeOK, PendingUnanswered, RunShape, [Next]_vars
    PROVE  EventsMoves
<1>1. /\ Resolved(pending) \in Seq(Events) /\ <<>> \in Seq(Events)
      /\ Plain(Resolved(pending)) /\ Plain(<<>>)
  BY EventTypes DEF Resolved, Plain
<1>2. CASE NoticeDone
  <2>1. Head(inbox) \in Notices
    <3>1. inbox \in Seq(Notices) /\ inbox # <<>>
      BY <1>2, TypeParts DEF TypeInbox, NoticeDone, Noticed
    <3> HIDE DEF Notices
    <3> QED BY <3>1
  <2>2. Head(inbox).turn \in Turns /\ Head(inbox).status \in Statuses
    BY <1>2, <2>1 DEF Notices, EndOfEvents, NoticeDone
  <2> DEFINE report == Reported(Head(inbox).turn, Head(inbox).status)
  <2>3. report \in Seq(Events) BY <2>2, EventTypes
  <2>4. Plain(report) BY DEF Reported, Plain
  <2>5. UNCHANGED events \/ events' = Put(Resolved(pending) \o report) BY <1>2 DEF NoticeDone
  <2> HIDE DEF report
  <2>6. Resolved(pending) \o report \in Seq(Events) /\ Plain(Resolved(pending) \o report)
    BY <1>1, <2>3, <2>4, ConcatProperties DEF Plain
  <2> QED BY <2>5, <2>6 DEF EventsMoves
<1>3. CASE NoticeAsk \/ \E i \in Interactions : Respond(i)
  <2>1. UNCHANGED events \/ events' = Put(<<[kind |-> "asked", ask |-> pending']>>)
    BY <1>3 DEF NoticeAsk, Respond
  <2>2. <<[kind |-> "asked", ask |-> pending']>> \in Seq(Events)
    BY EventTypes, TypeReplyKept DEF TypeReply
  <2>3. Plain(<<[kind |-> "asked", ask |-> pending']>>) BY DEF Plain
  <2> QED BY <2>1, <2>2, <2>3 DEF EventsMoves
<1>4. CASE SideAnswered \/ SideTimesOut
  <2>1. /\ finisher.query \in Queries
        /\ \/ UNCHANGED events
           \/ events' = Put(<<[kind |-> "share", query |-> finisher.query]>>)
    BY <1>4 DEF SideAnswered, SideTimesOut, RunShape
  <2>2. <<[kind |-> "share", query |-> finisher.query]>> \in Seq(Events)
    BY <2>1, EventTypes
  <2>3. Plain(<<[kind |-> "share", query |-> finisher.query]>>) BY DEF Plain
  <2> QED BY <2>1, <2>2, <2>3 DEF EventsMoves
<1>5. \/ UNCHANGED events
      \/ events' = <<>> /\ closed'
      \/ Read
      \/ StartFails /\ events' = Put(<<EndOfEvents>>)
      \/ events' = Put(Resolved(pending)) \/ events' = Put(<<>>)
      \/ NoticeDone \/ NoticeAsk \/ (\E i \in Interactions : Respond(i))
      \/ SideAnswered \/ SideTimesOut
  BY DEF Next, vars, server, run, history, Server, Watcher, Operation, Answer, SideTask,
       Dispatch, ServerStarts, ServerEnds, ServerAsks, ServerResolves, ServerDies,
       NoticeResolved, NoticeEnd, ThreadOpens, TurnStarts, StartFails, Begin,
       SteerSent, ServerSteers, Steered, SteerFalls, Fork, Forked, Cut, CancelSent, Shut,
       Restart, Restarted, Written, WriteCut, Disposed, Close, CloseInterrupts, Closed
<1> QED BY <1>1, <1>2, <1>3, <1>4, <1>5 DEF EventsMoves

\* The types of the events.
LEMMA TypeEventsKept ==
    ASSUME TypeOK, PendingUnanswered, RunShape, [Next]_vars
    PROVE  TypeEvents'
<1>0. /\ events \in Seq(Events) /\ final \in Results \cup {NoResult, EndOfEvents}
      /\ <<>> \in Seq(Events)
  BY TypeParts DEF TypeEvents
<1>1. final' \in Results \cup {NoResult, EndOfEvents}
  <2>1. \/ UNCHANGED final
        \/ final' = EndOfEvents
        \/ events # <<>> /\ Head(events).kind \in {"result", "end"} /\ final' = Head(events)
    BY DEF Next, vars, server, run, history, Server, Watcher, Operation, Answer, SideTask,
       Dispatch, ServerStarts, ServerEnds, ServerAsks, ServerResolves, ServerDies, NoticeDone,
       NoticeAsk, NoticeResolved, NoticeEnd, ThreadOpens, TurnStarts, StartFails, Begin,
       SteerSent, ServerSteers, Steered, SteerFalls, Fork, Forked, Cut, CancelSent, Shut,
       Restart, Restarted, Respond, Written, WriteCut, SideAnswered, SideTimesOut, Disposed,
       Read, Close, CloseInterrupts, Closed
  <2>2. CASE events # <<>> /\ Head(events).kind \in {"result", "end"} /\ final' = Head(events)
    <3>1. Head(events) \in Events
      <4> HIDE DEF Events
      <4> QED BY <1>0, <2>2
    <3>2. \A e \in Events : e.kind \in {"result", "end"} => e \in Results \cup {EndOfEvents}
      BY DEF Events, Results, EndOfEvents
    <3> QED BY <2>2, <3>1, <3>2
  <2> QED BY <1>0, <2>1, <2>2
<1>2. events' \in Seq(Events)
  <2>1. CASE Read
    <3>1. events # <<>> /\ (events' = <<>> \/ events' = Tail(events))
      BY <2>1 DEF Read
    <3> HIDE DEF Events
    <3>2. CASE events' = <<>> BY <1>0, <3>2
    <3>3. CASE events' = Tail(events) BY <1>0, <3>1, <3>3
    <3> QED BY <3>1, <3>2, <3>3
  <2>2. Put(<<EndOfEvents>>) \in Seq(Events) BY EventTypes, PutTypes
  <2> QED BY <1>0, <2>1, <2>2, EventsStep, PutTypes DEF EventsMoves
<1> QED BY <1>1, <1>2 DEF TypeEvents

\* The types of the flags and the counters.
LEMMA TypeFlagsKept == ASSUME TypeOK, [Next]_vars PROVE TypeFlags'
<1>0. /\ alive \in BOOLEAN /\ watched \in BOOLEAN /\ closed \in BOOLEAN /\ lost \in BOOLEAN
      /\ expected \subseteq Turns /\ closing \in {"no", "side", "interrupt", "done"}
      /\ deaths \in 0..MaxDeaths /\ begun \in 0..MaxOps
      /\ active \in MainTurns \cup {"none"} /\ MainTurns \subseteq Turns
  BY TypeParts DEF TypeFlags, TypeOp, Turns
<1>1. /\ alive' \in {alive, TRUE, FALSE} /\ watched' \in {watched, TRUE, FALSE}
      /\ closed' \in {closed, TRUE}
      /\ lost' \in BOOLEAN
      /\ expected' \subseteq expected \cup ({active} \ {"none"})
      /\ closing' \in {closing, "side", "interrupt", "done"}
  BY <1>0 DEF Next, vars, server, run, history, Server, Watcher, Operation, Answer, SideTask,
       Dispatch, ServerStarts, ServerEnds, ServerAsks, ServerResolves, ServerDies, NoticeDone,
       NoticeAsk, NoticeResolved, NoticeEnd, ThreadOpens, TurnStarts, StartFails, Begin,
       SteerSent, ServerSteers, Steered, SteerFalls, Fork, Forked, Cut, CancelSent, Shut,
       Restart, Restarted, Respond, Written, WriteCut, SideAnswered, SideTimesOut, Disposed,
       Read, Close, CloseInterrupts, Closed
<1>2. /\ UNCHANGED deaths \/ (deaths < MaxDeaths /\ deaths' = deaths + 1)
      /\ UNCHANGED begun \/ (begun < MaxOps /\ begun' = begun + 1)
  BY DEF Next, vars, server, run, history, Server, Watcher, Operation, Answer, SideTask,
       Dispatch, ServerStarts, ServerEnds, ServerAsks, ServerResolves, ServerDies, NoticeDone,
       NoticeAsk, NoticeResolved, NoticeEnd, ThreadOpens, TurnStarts, StartFails, Begin,
       SteerSent, ServerSteers, Steered, SteerFalls, Fork, Forked, Cut, CancelSent, Shut,
       Restart, Restarted, Respond, Written, WriteCut, SideAnswered, SideTimesOut, Disposed,
       Read, Close, CloseInterrupts, Closed
<1>3. deaths' \in 0..MaxDeaths /\ begun' \in 0..MaxOps
  BY <1>0, <1>2, BoundsAssumption
<1> QED BY <1>0, <1>1, <1>3 DEF TypeFlags

\* The type invariant is kept.
LEMMA TypeKept ==
    ASSUME TypeOK, OpShape, PendingUnanswered, RunShape, [Next]_vars
    PROVE  TypeOK'
<1>1. TypeServer' BY TurnStep, RequestStep DEF TypeServer, RequestsMove
<1>2. /\ TypeInbox' /\ TypeEvents' /\ TypeOp' /\ TypeSide' /\ TypeReply' /\ TypeFlags'
  BY TypeInboxKept, TypeEventsKept, TypeOpKept, TypeSideKept, TypeReplyKept, TypeFlagsKept
<1> QED BY <1>1, <1>2 DEF TypeOK, TypeServer, TypeInbox, TypeEvents, TypeOp, TypeSide,
           TypeReply, TypeFlags, OpTypes, FinisherTypes, ReplyTypes, TurnTypes, RequestTypes

-----------------------------------------------------------------------------
(* The coroutine with the task lock *)

\* The steps that touch the coroutine with the task lock or what it tells.
LEMMA OpSteps ==
    ASSUME [Next]_vars
    PROVE  \/ UNCHANGED <<op, told>> /\ active' \in {active, "none"}
           \/ ThreadOpens \/ TurnStarts \/ StartFails
           \/ \E m \in Updates \cup Queries \cup {"cancel"} : Begin(m)
           \/ SteerSent \/ ServerSteers \/ Steered \/ SteerFalls \/ Fork \/ Forked \/ Cut
           \/ CancelSent \/ Shut \/ Restart \/ Restarted
BY DEF Next, vars, server, run, history, Server, Watcher, Operation, Answer, SideTask,
       Dispatch, ServerStarts, ServerEnds, ServerAsks, ServerResolves, ServerDies, NoticeDone,
       NoticeAsk, NoticeResolved, NoticeEnd, Respond, Written, WriteCut, SideAnswered,
       SideTimesOut, Disposed, Read, Close, CloseInterrupts, Closed

\* Where an operation is once it has moved.
LEMMA OpAt ==
    ASSUME TypeOK
    PROVE  /\ \A where : At(where).at = where /\ At(where).msg = op.msg
           /\ Idle.at = "idle"
BY Typed DEF OpTypes, At, Idle

\* A coroutine stays where its message takes it.
LEMMA OpShapeKept ==
    ASSUME TypeOK, OpShape, [Next]_vars
    PROVE  OpShape'
<1> USE DEF OpShape
<1>0. op \in OpTypes /\ \A t \in Turns : TurnMoves(t) BY Typed, TurnStep
<1>1. CASE UNCHANGED <<op, told>> /\ active' \in {active, "none"}
  BY <1>0, <1>1 DEF TurnMoves, MainTurns
<1>2. CASE ThreadOpens \/ StartFails
  BY <1>0, <1>2 DEF ThreadOpens, StartFails, At, OpTypes, MainTurns, Turns, run, server, history
<1>3. CASE TurnStarts \/ Steered \/ Forked \/ Cut \/ Shut \/ Restarted
  BY <1>3 DEF TurnStarts, Steered, Forked, Cut, Shut, Restarted, Idle
<1>4. CASE \E m \in Updates \cup Queries \cup {"cancel"} : Begin(m)
  BY <1>4, NamesAssumption DEF Begin, Turns, MainTurns, server
<1>5. CASE SteerSent \/ SteerFalls
  BY <1>0, <1>5, NamesAssumption DEF SteerSent, SteerFalls, SideCancelled, At, Idle,
     OpTypes, MainTurns, history
<1>6. CASE ServerSteers
  BY <1>0, <1>6 DEF ServerSteers, At, OpTypes, TurnMoves, history
<1>7. CASE Fork BY <1>0, <1>7 DEF Fork, SideCancelled, At, Idle, OpTypes
<1>8. CASE CancelSent BY <1>0, <1>8 DEF CancelSent, At, OpTypes
<1>9. CASE Restart
  <2>1. op'.at = "restart" /\ turn' = TurnsOver(Unfinished)
    BY <1>0, <1>9 DEF Restart, At, OpTypes
  <2>2. \A t \in Turns : turn[t].st \in {"none", "asked", "running", "over"}
    BY Typed DEF TurnTypes
  <2>3. \A t \in Turns : turn'[t].st \in {"none", "over"}
    BY <2>1, <2>2, Typed DEF TurnsOver, Unfinished, TurnTypes
  <2> QED BY <2>1, <2>3
<1> QED BY OpSteps, <1>1, <1>2, <1>3, <1>4, <1>5, <1>6, <1>7, <1>8, <1>9

-----------------------------------------------------------------------------
(* The notifications *)

\* What the notifications are about.
LEMMA InboxTyped ==
    ASSUME TypeOK
    PROVE  \A n \in DOMAIN inbox : /\ inbox[n] \in Notices
                                   /\ inbox[n].kind = "done" => /\ inbox[n].turn \in Turns
                                                               /\ inbox[n].status \in Statuses
                                   /\ inbox[n].kind \in {"ask", "resolved"} =>
                                          inbox[n].ask \in Asks
<1>1. ASSUME NEW n \in DOMAIN inbox PROVE inbox[n] \in Notices
  <2>1. inbox \in Seq(Notices) BY TypeParts DEF TypeInbox
  <2> HIDE DEF Notices
  <2> QED BY <2>1
<1> QED BY <1>1 DEF Notices, EndOfEvents

\* The notification the watcher takes.
LEMMA HeadOfInbox ==
    ASSUME TypeOK, inbox # <<>>
    PROVE  1 \in DOMAIN inbox /\ Head(inbox) = inbox[1]
<1> inbox \in Seq(Notices) BY TypeParts DEF TypeInbox
<1> HIDE DEF Notices
<1> QED OBVIOUS

\* Where a notification of the next state comes from ...
LEMMA InboxFrom ==
    ASSUME TypeOK, [Next]_vars, NEW n \in DOMAIN inbox'
    PROVE  \/ n \in DOMAIN inbox /\ inbox'[n] = inbox[n]
           \/ n + 1 \in DOMAIN inbox /\ inbox'[n] = inbox[n + 1]
           \/ \E note \in Notices : n = Len(inbox) + 1 /\ inbox'[n] = note /\ Sent(note)
<1>0. inbox \in Seq(Notices) BY TypeParts DEF TypeInbox
<1> HIDE DEF Notices
<1>1. CASE UNCHANGED inbox BY <1>1
<1>2. ASSUME NEW note \in Notices, inbox' = Append(inbox, note), Sent(note)
      PROVE  \/ n \in DOMAIN inbox /\ inbox'[n] = inbox[n]
             \/ n = Len(inbox) + 1 /\ inbox'[n] = note
  <2>1. /\ DOMAIN inbox' = 1..(Len(inbox) + 1) /\ DOMAIN inbox = 1..Len(inbox)
        /\ inbox'[Len(inbox) + 1] = note
        /\ \A k \in 1..Len(inbox) : inbox'[k] = inbox[k]
    BY <1>0, <1>2, AppendProperties
  <2> QED BY <1>2, <2>1
<1>3. CASE inbox # <<>> /\ inbox' = Tail(inbox) BY <1>0, <1>3
<1>4. CASE inbox' = <<>> BY <1>4
<1> QED BY <1>1, <1>2, <1>3, <1>4, InboxStep DEF InboxMoves

\* ... and where those of the present one are in it, in their order.
LEMMA InboxTo ==
    ASSUME TypeOK, [Next]_vars
    PROVE  \/ \A n \in DOMAIN inbox : n \in DOMAIN inbox' /\ inbox'[n] = inbox[n]
           \/ /\ inbox # <<>> /\ Watcher
              /\ \A n \in DOMAIN inbox \ {1} :
                     n - 1 \in DOMAIN inbox' /\ inbox'[n - 1] = inbox[n]
              /\ \A n \in DOMAIN inbox' :
                     n + 1 \in DOMAIN inbox /\ inbox'[n] = inbox[n + 1]
           \/ inbox' = <<>> /\ Restart
<1>0. inbox \in Seq(Notices) BY TypeParts DEF TypeInbox
<1> HIDE DEF Notices
<1>1. CASE UNCHANGED inbox BY <1>1
<1>2. ASSUME NEW note \in Notices, inbox' = Append(inbox, note)
      PROVE  \A n \in DOMAIN inbox : n \in DOMAIN inbox' /\ inbox'[n] = inbox[n]
  <2>1. /\ DOMAIN inbox' = 1..(Len(inbox) + 1) /\ DOMAIN inbox = 1..Len(inbox)
        /\ \A k \in 1..Len(inbox) : inbox'[k] = inbox[k] /\ Len(inbox) \in Nat
    BY <1>0, <1>2, AppendProperties
  <2> QED BY <2>1
<1>3. CASE inbox # <<>> /\ inbox' = Tail(inbox) /\ Watcher BY <1>0, <1>3
<1> QED BY <1>1, <1>2, <1>3, InboxStep DEF InboxMoves

-----------------------------------------------------------------------------
(* What a cancel leaves *)

\* The last turn to be started is over before another one is active.
LEMMA ActiveStartedKept ==
    ASSUME TypeOK, OpShape, ActiveStarted, [Next]_vars
    PROVE  ActiveStarted'
<1>0. /\ op \in OpTypes /\ \A t \in Turns : TurnMoves(t)
      /\ \A t \in Turns : turn[t] \in TurnTypes
  BY Typed, TurnStep
<1>1. \A t \in Turns : /\ turn[t].st \in {"running", "over"} => turn'[t].st \in {"running", "over"}
                       /\ turn[t].st = "over" => turn'[t].st = "over"
  BY <1>0 DEF TurnMoves, OpShape
<1>2. ASSUME NEW t \in Turns, active' = t PROVE turn'[t].st \in {"running", "over"}
  <2>1. CASE TurnStarts BY <2>1, <1>2 DEF TurnStarts, server
  <2>2. CASE active' \in {active, "none"}
    <3>1. active' # "none" BY <1>2, NamesAssumption DEF Turns, MainTurns
    <3> QED BY <2>2, <3>1, <1>1, <1>2 DEF ActiveStarted
  <2>3. TurnStarts \/ active' \in {active, "none"}
    BY OpSteps DEF ThreadOpens, StartFails, Begin, SteerSent, ServerSteers, Steered, SteerFalls,
       Fork, Forked, Cut, CancelSent, Shut, Restart, Restarted, run
  <2> QED BY <2>1, <2>2, <2>3
<1>3. ASSUME NEW t \in Turns, NEW u \in Turns, op'.at = "turn", op'.msg = u,
             turn'[u].st \in {"running", "over"}, active' = t
      PROVE  turn'[t].st = "over"
  <2>1. op' = op /\ active' = active
    <3>1. CASE UNCHANGED <<op, told>> /\ active' \in {active, "none"}
      <4>1. active' # "none" BY <1>3, NamesAssumption DEF Turns, MainTurns
      <4> QED BY <3>1, <4>1
    <3>2. CASE ThreadOpens \/ SteerSent \/ SteerFalls
      <4>1. \/ op' = At("turn") /\ turn' = [turn EXCEPT ![op.msg].st = "asked"]
            \/ op' = At("steer") \/ op' = Idle
        BY <3>2 DEF ThreadOpens, SteerSent, SteerFalls, OpShape
      <4>2. turn' = [turn EXCEPT ![op.msg].st = "asked"] /\ op.msg = u
        BY <1>3, <4>1, OpAt
      <4>3. turn'[u].st = "asked" BY <1>0, <4>2, TypeParts DEF TurnTypes, TypeServer
      <4> QED BY <1>3, <4>3
    <3>3. CASE StartFails \/ ServerSteers \/ Fork \/ CancelSent \/ Restart
      <4>1. op' = Idle \/ op' = op
            \/ \E where \in {"dead", "steered", "refused", "fork", "interrupt", "restart"} :
                  op' = At(where)
        BY <3>3 DEF StartFails, ServerSteers, Fork, CancelSent, Restart
      <4>2. UNCHANGED active
        BY <3>3 DEF StartFails, ServerSteers, Fork, CancelSent, Restart, run
      <4> QED BY <1>3, <4>1, <4>2, OpAt
    <3>4. CASE TurnStarts \/ Steered \/ Forked \/ Cut \/ Shut \/ Restarted
      BY <1>3, <3>4, OpAt DEF TurnStarts, Steered, Forked, Cut, Shut, Restarted
    <3>5. ASSUME NEW m, Begin(m) PROVE FALSE BY <1>3, <3>5 DEF Begin
    <3> QED BY <3>1, <3>2, <3>3, <3>4, <3>5, OpSteps
  <2>2. turn[u].st # "none" BY <1>0, <1>3 DEF TurnMoves
  <2>3. CASE turn[u].st \in {"running", "over"} BY <1>1, <1>3, <2>1, <2>3 DEF ActiveStarted
  <2>4. CASE turn[u].st = "asked"
    <3>1. turn[t].st \in {"running", "over"} BY <1>3, <2>1 DEF ActiveStarted
    <3>2. CASE turn' = TurnsOver(Unfinished)
      BY <3>1, <3>2, <1>0 DEF TurnsOver, Unfinished, TurnTypes
    <3>3. CASE ServerStarts(u) /\ (u \in MainTurns => ~MainRuns)
      <4>1. u \in MainTurns BY <1>3, <2>1 DEF OpShape
      <4>2. t \in MainTurns
        BY <1>3, <2>1, TypeParts, NamesAssumption DEF TypeOp, Turns, MainTurns
      <4>3. turn[t].st = "over" BY <3>1, <3>3, <4>1, <4>2 DEF MainRuns
      <4> QED BY <1>1, <4>3
    <3> QED BY <1>0, <1>3, <2>1, <2>4, <3>2, <3>3 DEF TurnMoves
  <2> QED BY <1>0, <2>2, <2>3, <2>4 DEF TurnTypes
<1>4. ASSUME NEW n \in DOMAIN inbox', NEW t \in Turns,
             inbox'[n].kind = "done", inbox'[n].turn = t
      PROVE  turn'[t].st = "over"
  <2>1. CASE n \in DOMAIN inbox /\ inbox'[n] = inbox[n]
    BY <1>1, <1>4, <2>1 DEF ActiveStarted
  <2>2. CASE n + 1 \in DOMAIN inbox /\ inbox'[n] = inbox[n + 1]
    BY <1>1, <1>4, <2>2 DEF ActiveStarted
  <2>3. ASSUME NEW note \in Notices, inbox'[n] = note, Sent(note) PROVE turn'[t].st = "over"
    <3>1. PICK u \in Turns, status \in Statuses :
              ServerEnds(u, status) /\ note = [kind |-> "done", turn |-> u, status |-> status]
      BY <1>4, <2>3 DEF Sent, Ask, EndOfEvents
    <3>2. u = t BY <1>4, <2>3, <3>1
    <3> QED BY <1>0, <3>1, <3>2 DEF ServerEnds, TurnsOver, TurnTypes
  <2> QED BY <2>1, <2>2, <2>3, InboxFrom
<1> QED BY <1>2, <1>3, <1>4 DEF ActiveStarted

\* The only turn that may run is the active one, over every step.
LEMMA OnlyActiveRunsKept ==
    ASSUME TypeOK, OpShape, ActiveStarted, OnlyActiveRuns, [Next]_vars
    PROVE  OnlyActiveRuns'
<1>0. /\ op \in OpTypes /\ \A t \in Turns : TurnMoves(t)
      /\ \A t \in Turns : turn[t] \in TurnTypes
      /\ told \subseteq Updates
      /\ {"first"} \cup Updates \subseteq Turns
      /\ "first" \notin Updates \cup Queries
  BY Typed, TurnStep, TypeParts, NamesAssumption DEF TypeOp, Turns, MainTurns
<1> SUFFICES ASSUME Served', NEW t \in {"first"} \cup told'
             PROVE  Stopped(t)' \/ active' = t
  BY DEF OnlyActiveRuns
<1>1. CASE Served /\ t \in {"first"} \cup told
  <2>1. t \in Turns BY <1>0, <1>1
  <2>2. Stopped(t) => Stopped(t)'
    BY <1>0, <1>1, <2>1 DEF Stopped, TurnMoves, OpShape, Served
  <2>3. CASE active = t /\ ~Stopped(t)
    <3>1. turn[t].st = "running" BY <1>0, <2>1, <2>3 DEF ActiveStarted, Stopped
    <3>2. UNCHANGED active \/ NoticeDone \/ TurnStarts \/ Restarted
      BY DEF Next, vars, server, run, history, Server, Watcher, Operation, Answer, SideTask,
       Dispatch, ServerStarts, ServerEnds, ServerAsks, ServerResolves, ServerDies,
       NoticeAsk, NoticeResolved, NoticeEnd, ThreadOpens, StartFails, Begin,
       SteerSent, ServerSteers, Steered, SteerFalls, Fork, Forked, Cut, CancelSent, Shut,
       Restart, Respond, Written, WriteCut, SideAnswered, SideTimesOut, Disposed,
       Read, Close, CloseInterrupts, Closed
    <3>3. CASE NoticeDone
      <4>1. inbox # <<>> /\ Head(inbox).kind = "done"
            /\ (active' # active => Head(inbox).turn = active)
        BY <3>3 DEF NoticeDone, Noticed
      <4>2. active' = active BY <2>1, <2>3, <3>1, <4>1, HeadOfInbox DEF ActiveStarted
      <4> QED BY <2>3, <4>2
    <3>4. CASE TurnStarts
      <4>1. op.at = "turn" /\ turn[op.msg].st \in {"running", "over"} /\ op.msg \in Turns
        BY <3>4 DEF TurnStarts, OpShape, Turns
      <4> QED BY <2>1, <2>3, <3>1, <4>1 DEF ActiveStarted
    <3>5. CASE Restarted BY <2>1, <3>1, <3>5 DEF Restarted, OpShape
    <3> QED BY <2>3, <3>2, <3>3, <3>4, <3>5
  <2> QED BY <1>1, <2>2, <2>3 DEF OnlyActiveRuns
<1>2. CASE ~(Served /\ t \in {"first"} \cup told)
  <2>1. CASE TurnStarts
    <3>1. active' = op.msg /\ told' = told \cup ({op.msg} \cap Updates) /\ op.at = "turn"
      BY <2>1 DEF TurnStarts
    <3>2. CASE op.msg = "first" BY <1>0, <3>1, <3>2 DEF OpShape
    <3>3. CASE op.msg # "first" BY <1>2, <3>1, <3>3 DEF Served
    <3> QED BY <3>2, <3>3
  <2>2. CASE Steered
    <3>1. told' = told \cup {op.msg} /\ op.at = "steered" /\ UNCHANGED turn
      BY <2>2 DEF Steered, server
    <3>2. t = op.msg BY <1>2, <3>1 DEF Served
    <3> QED BY <1>0, <3>1, <3>2 DEF OpShape, Stopped
  <2>3. CASE ~TurnStarts /\ ~Steered
    <3>1. UNCHANGED told
      BY <2>3, OpSteps DEF ThreadOpens, StartFails, Begin, SteerSent, ServerSteers, SteerFalls,
         Fork, Forked, Cut, CancelSent, Shut, Restart, Restarted, history
    <3>2. Served' => Served
      <4>1. ASSUME ~Served PROVE ~Served'
        <5>1. op.at \in {"open", "dead"} \/ (op.at = "turn" /\ op.msg = "first")
          BY <4>1 DEF Served
        <5>2. UNCHANGED op \/ op' = At("dead") \/ (op' = At("turn") /\ op.msg = "first")
          BY <5>1, <2>3, OpSteps DEF ThreadOpens, StartFails, Begin, SteerSent, ServerSteers,
             SteerFalls, Fork, Forked, Cut, CancelSent, Shut, Restart, Restarted, OpShape,
             SideCancelled
        <5> QED BY <5>1, <5>2, OpAt DEF Served
      <4> QED BY <4>1
    <3> QED BY <1>2, <3>1, <3>2
  <2> QED BY <2>1, <2>2, <2>3
<1> QED BY <1>1, <1>2

\* What is in the queue of events was there, is no end, or is the end of a start that
\* failed.
LEMMA EventsFrom ==
    ASSUME TypeOK, PendingUnanswered, RunShape, [Next]_vars, NEW n \in DOMAIN events'
    PROVE  \/ \E m \in DOMAIN events : events'[n] = events[m]
           \/ events'[n].kind # "end"
           \/ StartFails
<1>0. events \in Seq(Events) BY TypeParts DEF TypeEvents
<1> HIDE DEF Events
<1>1. CASE Read
  <2>1. events # <<>> /\ events' \in {<<>>, Tail(events)} BY <1>1 DEF Read
  <2>2. CASE events' = Tail(events) BY <1>0, <2>1, <2>2
  <2> QED BY <2>1, <2>2
<1>2. ASSUME NEW s \in Seq(Events), Plain(s), events' = Put(s)
      PROVE  events'[n].kind # "end" \/ \E m \in DOMAIN events : events'[n] = events[m]
  BY <1>0, <1>2, ConcatProperties DEF Put, Plain
<1> QED BY <1>0, <1>1, <1>2, EventsStep DEF EventsMoves

\* Only a cancel ends the stream without a result, over every step.
LEMMA EndIsCancelKept ==
    ASSUME TypeOK, OpShape, ActiveStarted, OnlyActiveRuns, EndIsCancel,
           PendingUnanswered, RunShape, [Next]_vars
    PROVE  EndIsCancel'
<1>0. /\ op \in OpTypes /\ \A t \in Turns : TurnMoves(t)
      /\ told \subseteq Updates /\ {"first"} \cup Updates \subseteq Turns
      /\ NoResult # EndOfEvents
  BY Typed, TurnStep, TypeParts DEF TypeOp, Turns, MainTurns, NoResult, EndOfEvents
<1>1. ASSUME NEW n \in DOMAIN events', events'[n].kind = "end" PROVE op'.at = "dead"
  <2>1. StartFails => op'.at = "dead" BY OpAt DEF StartFails
  <2>2. op.at = "dead" => UNCHANGED op
    BY OpSteps DEF ThreadOpens, TurnStarts, StartFails, Begin, SteerSent, ServerSteers,
       Steered, SteerFalls, Fork, Forked, Cut, CancelSent, Shut, Restart, Restarted,
       SideCancelled
  <2> QED BY <1>1, <2>1, <2>2, EventsFrom DEF EndIsCancel
<1>2. ASSUME final' = EndOfEvents, final = EndOfEvents
      PROVE  closed' /\ op' = Idle /\ \A t \in {"first"} \cup told' : Stopped(t)'
  <2>1. closed /\ op = Idle /\ \A t \in {"first"} \cup told : Stopped(t)
    BY <1>2 DEF EndIsCancel
  <2>2. UNCHANGED <<op, told>>
    BY <2>1, OpAt, OpSteps DEF ThreadOpens, TurnStarts, StartFails, Begin, SteerSent,
       ServerSteers, Steered, SteerFalls, Fork, Forked, Cut, CancelSent, Shut, Restart,
       Restarted, SideCancelled, Idle
  <2>3. closed'
    BY <2>1 DEF Next, vars, server, run, history, Server, Watcher, Operation, Answer,
       SideTask, Dispatch, ServerStarts, ServerEnds, ServerAsks, ServerResolves, ServerDies,
       NoticeDone, NoticeAsk, NoticeResolved, NoticeEnd, ThreadOpens, TurnStarts, StartFails,
       Begin, SteerSent, ServerSteers, Steered, SteerFalls, Fork, Forked, Cut, CancelSent,
       Shut, Restart, Restarted, Respond, Written, WriteCut, SideAnswered, SideTimesOut,
       Disposed, Read, Close, CloseInterrupts, Closed
  <2>4. ASSUME NEW t \in {"first"} \cup told PROVE Stopped(t)'
    <3>1. t \in Turns /\ Stopped(t) BY <1>0, <2>1
    <3> QED BY <1>0, <2>1, <3>1, OpAt DEF TurnMoves, Stopped
  <2> QED BY <2>1, <2>2, <2>3, <2>4
<1>3. ASSUME final' = EndOfEvents, final # EndOfEvents
      PROVE  closed' /\ op' = Idle /\ \A t \in {"first"} \cup told' : Stopped(t)'
  <2>1. Read \/ Shut \/ Restarted
    BY <1>3 DEF Next, vars, server, run, history, Server, Watcher, Operation, Answer,
       SideTask, Dispatch, ServerStarts, ServerEnds, ServerAsks, ServerResolves, ServerDies,
       NoticeDone, NoticeAsk, NoticeResolved, NoticeEnd, ThreadOpens, TurnStarts, StartFails,
       Begin, SteerSent, ServerSteers, Steered, SteerFalls, Fork, Forked, Cut, CancelSent,
       Restart, Respond, Written, WriteCut, SideAnswered, SideTimesOut,
       Disposed, Close, CloseInterrupts, Closed
  <2>2. CASE Read
    <3>1. /\ Served /\ events # <<>> /\ Head(events).kind \in {"result", "end"}
          /\ Head(events) = EndOfEvents
      BY <1>3, <2>2 DEF Read
    <3>2. 1 \in DOMAIN events /\ Head(events) = events[1]
      <4>1. events \in Seq(Events) BY TypeParts DEF TypeEvents
      <4> HIDE DEF Events
      <4> QED BY <3>1, <4>1
    <3> QED BY <3>1, <3>2 DEF EndIsCancel, EndOfEvents, Served
  <2>3. CASE Shut
    <3>1. /\ op.at = "interrupt" /\ active = "none" /\ closed' /\ op' = Idle
          /\ UNCHANGED <<turn, told>>
      BY <2>3 DEF Shut, server
    <3>2. \A t \in {"first"} \cup told : t # "none"
      BY <1>0, NamesAssumption
    <3> QED BY <3>1, <3>2 DEF OnlyActiveRuns, Served, Stopped
  <2>4. CASE Restarted
    BY <1>0, <2>4 DEF Restarted, OpShape, Stopped
  <2> QED BY <2>1, <2>2, <2>3, <2>4
<1> QED BY <1>1, <1>2, <1>3 DEF EndIsCancel

-----------------------------------------------------------------------------
(* The requests of the server *)

\* The steps that touch the pending interaction, the reply at its write and the cuts.
LEMMA ReplySteps ==
    ASSUME [Next]_vars
    PROVE  \/ UNCHANGED <<pending, reply, cut>>
           \/ /\ pending' = NoAsk /\ UNCHANGED <<reply, cut, request, answers>>
              /\ NoticeDone \/ NoticeResolved \/ Shut \/ CloseInterrupts
           \/ pending' = NoAsk /\ UNCHANGED <<reply, cut>> /\ Restart
           \/ NoticeAsk \/ (\E i \in Interactions : Respond(i)) \/ Written \/ WriteCut
BY ZenonT(60) DEF Next, vars, server, run, history, Server, Watcher, Operation, Answer, SideTask,
       Dispatch, ServerStarts, ServerEnds, ServerAsks, ServerResolves, ServerDies,
       NoticeDone, NoticeResolved, NoticeEnd, ThreadOpens, TurnStarts, StartFails, Begin,
       SteerSent, ServerSteers, Steered, SteerFalls, Fork, Forked, Cut, CancelSent, Shut,
       Restart, Restarted, SideAnswered, SideTimesOut, Disposed,
       Read, Close, CloseInterrupts, Closed

\* Only the watcher and a reply answer a request.
LEMMA AnswerSteps ==
    ASSUME [Next]_vars
    PROVE  UNCHANGED answers \/ NoticeAsk \/ \E i \in Interactions : Respond(i)
BY ServerSteps DEF ServerStarts, ServerEnds, ServerAsks, ServerResolves, ServerDies,
   ThreadOpens, SteerSent, ServerSteers, SteerFalls, Fork, Restart

\* A request that is known to nobody stays so until the watcher takes its notification.
Taken(a) == NoticeAsk /\ Head(inbox).kind = "ask" /\ Head(inbox).ask = a

\* ... and until then no step makes it known.
LEMMA UnseenKept ==
    ASSUME TypeOK, [Next]_vars, NEW a \in Asks, Unseen(a), ~Taken(a)
    PROVE  Unseen(a)'
<1>0. /\ answers \in [Asks -> Nat] /\ a # "none" /\ NoAsk.ask # a
      /\ answers[a] = 0 /\ pending.ask # a /\ reply.ask.ask # a
  BY TypeParts, NamesAssumption DEF TypeServer, NoAsk, Unseen
<1>1. CASE NoticeAsk
  <2>1. Head(inbox).kind = "ask" /\ Head(inbox).ask # a BY <1>1 DEF NoticeAsk, Taken
  <2> QED BY <1>0, <1>1, <2>1 DEF NoticeAsk, Responded, Unseen
<1>2. ASSUME NEW i \in Interactions, Respond(i) PROVE Unseen(a)'
  <2>1. i.ask # a BY <1>0, <1>2 DEF Respond
  <2>2. [i EXCEPT !.index = @ + 1].ask = i.ask BY DEF Interactions, NoAsk
  <2>3. /\ answers'[a] = answers[a]
        /\ reply' = reply \/ reply' = [at |-> "write", ask |-> i]
    BY <1>0, <1>2, <2>1 DEF Respond, Responded
  <2>4. pending' = pending \/ pending' = [i EXCEPT !.index = @ + 1]
    BY <1>2 DEF Respond
  <2>5. pending'.ask # a BY <1>0, <2>1, <2>2, <2>4
  <2>6. reply'.ask.ask # a BY <1>0, <2>1, <2>3
  <2> QED BY <1>0, <2>3, <2>5, <2>6 DEF Unseen
<1>3. CASE UNCHANGED answers
  <2>1. Written => /\ pending' = pending \/ pending' = NoAsk
                   /\ reply' = [at |-> "idle", ask |-> NoAsk]
    BY DEF Written
  <2>2. WriteCut => UNCHANGED pending /\ reply' = [at |-> "idle", ask |-> NoAsk]
    BY DEF WriteCut, run
  <2> QED BY <1>0, <1>1, <1>2, <1>3, <2>1, <2>2, ReplySteps DEF Unseen, NoAsk
<1> QED BY <1>1, <1>2, <1>3, AnswerSteps

\* The notification the watcher takes was the only one of its request.
LEMMA TakenOnce ==
    ASSUME TypeOK, AsksComeOnce, NEW a \in Asks, Taken(a)
    PROVE  /\ request[a].st # "none" /\ Unseen(a)
           /\ 1 \in DOMAIN inbox /\ inbox[1].kind = "ask" /\ inbox[1].ask = a
           /\ \A n \in DOMAIN inbox' : ~(inbox'[n].kind = "ask" /\ inbox'[n].ask = a)
<1>1. /\ inbox \in Seq(Notices) /\ inbox # <<>> /\ inbox' = Tail(inbox)
      /\ Head(inbox).kind = "ask" /\ Head(inbox).ask = a
  BY TypeParts DEF TypeInbox, Taken, NoticeAsk, Noticed
<1>2. 1 \in DOMAIN inbox /\ Head(inbox) = inbox[1] BY <1>1, HeadOfInbox
<1>3. ASSUME NEW n \in DOMAIN inbox'
      PROVE  n + 1 \in DOMAIN inbox /\ inbox'[n] = inbox[n + 1] /\ n + 1 # 1
  <2> HIDE DEF Notices
  <2> QED BY <1>1, <1>3
<1> QED BY <1>1, <1>2, <1>3 DEF AsksComeOnce

\* What happens to the requests and the turns they belong to.
LEMMA OneMainRunsKept ==
    ASSUME TypeOK, OpShape, OneMainRuns, [Next]_vars
    PROVE  OneMainRuns'
<1>0. /\ \A t \in Turns : TurnMoves(t)
      /\ \A t \in Turns : turn[t] \in TurnTypes
      /\ \A a \in Asks : request[a] \in RequestTypes
      /\ MainTurns \subseteq Turns
  BY Typed, TurnStep DEF Turns
<1>1. ASSUME NEW t \in MainTurns, NEW u \in MainTurns,
             turn'[t].st = "running", turn'[u].st = "running"
      PROVE  t = u
  <2>1. ASSUME NEW v \in MainTurns, NEW w \in MainTurns, ServerStarts(v), ~MainRuns,
               turn'[w].st = "running"
        PROVE  w = v
    <3>1. w # v => turn'[w] = turn[w] BY <1>0, <2>1, TypeParts DEF ServerStarts, TypeServer
    <3> QED BY <2>1, <3>1 DEF MainRuns
  <2>2. \A v \in MainTurns : turn'[v].st = "running" =>
            turn[v].st = "running" \/ (ServerStarts(v) /\ ~MainRuns)
    BY <1>0 DEF TurnMoves
  <2> QED BY <1>1, <2>1, <2>2 DEF OneMainRuns
<1>2. ASSUME NEW a \in Asks, request'[a].st = "open", request[a].st = "open"
      PROVE  /\ request'[a] = request[a] /\ alive'
             /\ turn'[request[a].turn].st = "running"
  <2>1. /\ alive /\ request[a].turn \in MainTurns /\ turn[request[a].turn].st = "running"
    BY <1>2 DEF OneMainRuns, IsOpen
  <2>2. request'[a] = request[a]
    <3>1. RequestMoves(a) BY RequestStep DEF RequestsMove
    <3> QED BY <1>0, <1>2, <3>1 DEF RequestMoves, RequestTypes, ServerAsks
  <2>3. ASSUME NEW T, request' = RequestsGone(T) PROVE request[a].turn \notin T
    <3>1. request'[a] = IF request[a].st = "open" /\ request[a].turn \in T
                        THEN [request[a] EXCEPT !.st = "gone"] ELSE request[a]
      BY <2>3 DEF RequestsGone
    <3>2. [request[a] EXCEPT !.st = "gone"].st = "gone" BY <1>0 DEF RequestTypes
    <3> QED BY <1>2, <3>1, <3>2
  <2>4. alive'
    <3>1. alive' = alive \/ alive' \/ ServerDies \/ Restart
      BY DEF Next, vars, server, run, history, Server, Watcher, Operation, Answer, SideTask,
       Dispatch, ServerStarts, ServerEnds, ServerAsks, ServerResolves, NoticeDone,
       NoticeAsk, NoticeResolved, NoticeEnd, ThreadOpens, TurnStarts, StartFails, Begin,
       SteerSent, ServerSteers, Steered, SteerFalls, Fork, Forked, Cut, CancelSent, Shut,
       Restarted, Respond, Written, WriteCut, SideAnswered, SideTimesOut, Disposed,
       Read, Close, CloseInterrupts, Closed
    <3>2. ServerDies \/ Restart => request' = RequestsGone(Turns) BY DEF ServerDies, Restart
    <3> QED BY <1>0, <2>1, <2>3, <3>1, <3>2
  <2>5. ASSUME NEW t \in Turns, NEW status \in Statuses, ServerEnds(t, status)
        PROVE  turn'[request[a].turn].st = "running"
    <3>1. request[a].turn # t BY <2>3, <2>5 DEF ServerEnds
    <3> QED BY <1>0, <2>1, <2>5, <3>1 DEF ServerEnds, TurnsOver
  <2>6. ServerDies \/ Restart => request' = RequestsGone(Turns) BY DEF ServerDies, Restart
  <2>7. request[a].turn \in Turns BY <1>0, <2>1
  <2>8. CASE turn'[request[a].turn].st = "over"
    <3>1. \/ \E t \in Turns, status \in Statuses : ServerEnds(t, status)
          \/ ServerDies \/ Restart \/ turn'[request[a].turn].st # "over"
      <4>1. turn \in [Turns -> TurnTypes] BY TypeParts DEF TypeServer
      <4>2. ASSUME NEW u \in Turns, NEW e \in {"asked", "running"}, NEW h,
                   turn' = [turn EXCEPT ![u].st = e] \/ turn' = [turn EXCEPT ![u].has = h]
                   \/ turn' = [turn EXCEPT ![u] = [st |-> e, has |-> h]]
            PROVE  turn'[request[a].turn].st # "over"
        BY <2>1, <2>7, <4>1, <4>2 DEF TurnTypes
      <4>3. \A u \in Turns : ServerStarts(u) => \E h :
                turn' = [turn EXCEPT ![u] = [st |-> "running", has |-> h]]
        BY DEF ServerStarts
      <4>4. ThreadOpens \/ SteerSent \/ SteerFalls \/ Fork =>
                UNCHANGED turn \/ (op.msg \in Turns
                                   /\ turn' = [turn EXCEPT ![op.msg].st = "asked"])
        BY DEF ThreadOpens, SteerSent, SteerFalls, Fork, OpShape, Turns, MainTurns
      <4>5. ServerSteers => UNCHANGED turn \/ (active \in Turns
                                   /\ \E h : turn' = [turn EXCEPT ![active].has = h])
        <5>1. active \in Turns \cup {"none"} BY TypeParts DEF TypeOp, Turns
        <5> QED BY <5>1 DEF ServerSteers
      <4>6. CASE UNCHANGED turn BY <2>1, <4>6
      <4>7. \/ UNCHANGED turn
            \/ \E u \in Turns : ServerStarts(u)
            \/ \E t \in Turns, status \in Statuses : ServerEnds(t, status)
            \/ ServerDies \/ Restart
            \/ ThreadOpens \/ SteerSent \/ SteerFalls \/ Fork \/ ServerSteers
        BY ServerSteps DEF ServerAsks, ServerResolves, NoticeAsk, Respond
      <4> QED BY <4>2, <4>3, <4>4, <4>5, <4>6, <4>7
    <3> QED BY <2>3, <2>5, <2>6, <2>7, <2>8, <3>1
  <2> QED BY <1>0, <2>1, <2>2, <2>4, <2>7, <2>8 DEF TurnMoves, OpShape
<1>3. ASSUME NEW a \in Asks, request'[a].st = "open", request[a].st # "open"
      PROVE  /\ alive' /\ request'[a].turn \in MainTurns
             /\ turn'[request'[a].turn].st = "running"
  <2>1. RequestMoves(a) BY RequestStep DEF RequestsMove
  <2>2. PICK t \in MainTurns : ServerAsks(a, t) /\ request'[a] = [st |-> "open", turn |-> t]
    BY <1>0, <1>3, <2>1 DEF RequestMoves, RequestTypes
  <2> QED BY <2>2 DEF ServerAsks
<1> QED BY <1>1, <1>2, <1>3 DEF OneMainRuns, IsOpen

\* A request was made before it is notified, and its notification comes once.
LEMMA AsksComeOnceKept ==
    ASSUME TypeOK, AsksComeOnce, [Next]_vars
    PROVE  AsksComeOnce'
<1>0. /\ \A a \in Asks : request[a] \in RequestTypes /\ RequestMoves(a)
      /\ inbox \in Seq(Notices)
  BY Typed, RequestStep, TypeParts DEF RequestsMove, TypeInbox
<1>1. \A a \in Asks : /\ request[a].st # "none" => request'[a].st # "none"
                      /\ request[a].st \notin {"none", "open"} =>
                             request'[a].st \notin {"none", "open"}
  BY <1>0 DEF RequestMoves, RequestTypes, ServerAsks
<1>2. ASSUME NEW a \in Asks, request'[a].st = "none" PROVE Unseen(a)'
  BY <1>1, <1>2, UnseenKept, TakenOnce DEF AsksComeOnce
<1>3. ASSUME NEW n \in DOMAIN inbox', NEW a \in Asks,
             inbox'[n].kind = "ask", inbox'[n].ask = a
      PROVE  request'[a].st # "none" /\ Unseen(a)'
  <2>1. ~Taken(a) BY <1>3, TakenOnce
  <2>2. ASSUME NEW m \in DOMAIN inbox, inbox'[n] = inbox[m]
        PROVE  request'[a].st # "none" /\ Unseen(a)'
    BY <1>1, <1>3, <2>1, <2>2, UnseenKept DEF AsksComeOnce
  <2>3. ASSUME NEW note \in Notices, inbox'[n] = note, Sent(note)
        PROVE  request'[a].st # "none" /\ Unseen(a)'
    <3>1. PICK t \in MainTurns : ServerAsks(a, t)
      BY <1>3, <2>3 DEF Sent, Ask, EndOfEvents
    <3>2. request[a].st = "none" /\ request'[a].st = "open"
      BY <1>0, <3>1, TypeParts DEF ServerAsks, TypeServer
    <3> QED BY <2>1, <3>2, UnseenKept DEF AsksComeOnce
  <2> QED BY <2>2, <2>3, InboxFrom
<1>4. ASSUME NEW n \in DOMAIN inbox', NEW m \in DOMAIN inbox', NEW a \in Asks,
             inbox'[n].kind = "ask", inbox'[n].ask = a,
             inbox'[m].kind = "ask", inbox'[m].ask = a
      PROVE  m = n
  <2>1. CASE UNCHANGED inbox BY <1>4, <2>1 DEF AsksComeOnce
  <2>2. CASE inbox # <<>> /\ inbox' = Tail(inbox)
    <3>1. ASSUME NEW k \in DOMAIN inbox'
          PROVE  k \in Nat /\ k + 1 \in DOMAIN inbox /\ inbox'[k] = inbox[k + 1]
      <4> HIDE DEF Notices
      <4> QED BY <1>0, <2>2, <3>1
    <3>2. m + 1 = n + 1 BY <1>4, <3>1 DEF AsksComeOnce
    <3> QED BY <3>1, <3>2
  <2>3. ASSUME NEW note \in Notices, inbox' = Append(inbox, note), Sent(note) PROVE m = n
    <3>1. /\ DOMAIN inbox' = 1..(Len(inbox) + 1) /\ DOMAIN inbox = 1..Len(inbox)
          /\ inbox'[Len(inbox) + 1] = note
          /\ \A k \in 1..Len(inbox) : inbox'[k] = inbox[k]
          /\ Len(inbox) \in Nat
      <4> HIDE DEF Notices
      <4> QED BY <1>0, <2>3, AppendProperties
    <3>2. CASE m \in DOMAIN inbox /\ n \in DOMAIN inbox
      BY <1>4, <3>1, <3>2 DEF AsksComeOnce
    <3>3. ASSUME NEW k \in DOMAIN inbox, inbox[k].kind = "ask", inbox[k].ask = a,
                 note.kind = "ask", note.ask = a
          PROVE  FALSE
      <4>1. PICK t \in MainTurns : ServerAsks(a, t)
        BY <2>3, <3>3 DEF Sent, Ask, EndOfEvents
      <4> QED BY <3>3, <4>1 DEF ServerAsks, AsksComeOnce
    <3> QED BY <1>4, <3>1, <3>2, <3>3
  <2>4. CASE inbox' = <<>> BY <1>4, <2>4
  <2> QED BY <2>1, <2>2, <2>3, <2>4, InboxStep DEF InboxMoves
<1>5. ASSUME NEW n \in DOMAIN inbox', NEW a \in Asks,
             inbox'[n].kind = "resolved", inbox'[n].ask = a
      PROVE  request'[a].st \notin {"none", "open"}
  <2>1. ASSUME NEW m \in DOMAIN inbox, inbox'[n] = inbox[m]
        PROVE  request'[a].st \notin {"none", "open"}
    BY <1>1, <1>5, <2>1 DEF AsksComeOnce
  <2>2. ASSUME NEW note \in Notices, inbox'[n] = note, Sent(note)
        PROVE  request'[a].st \notin {"none", "open"}
    <3>1. ServerResolves(a) BY <1>5, <2>2 DEF Sent, Ask, EndOfEvents
    <3> QED BY <1>0, <3>1, TypeParts DEF ServerResolves, TypeServer, RequestTypes
  <2> QED BY <2>1, <2>2, InboxFrom
<1> QED BY <1>2, <1>3, <1>4, <1>5 DEF AsksComeOnce

\* The same for the interaction that is pending and the reply that is at its write.
LEMMA PendingUnansweredKept ==
    ASSUME TypeOK, AsksComeOnce, PendingUnanswered, [Next]_vars
    PROVE  PendingUnanswered'
<1>0. /\ \A a \in Asks : request[a] \in RequestTypes /\ RequestMoves(a)
      /\ \A a \in Asks : a # "none" /\ NoAsk.ask # a
      /\ answers \in [Asks -> Nat] /\ request \in [Asks -> RequestTypes]
      /\ reply \in ReplyTypes /\ pending \in Interactions
  BY Typed, RequestStep, NamesAssumption, TypeParts
     DEF RequestsMove, NoAsk, TypeServer, TypeReply
<1>1. ASSUME NEW a \in Asks, ~IsOpen(a), request[a].st # "none" PROVE ~IsOpen(a)'
  BY <1>0, <1>1 DEF RequestMoves, RequestTypes, ServerAsks, IsOpen
<1>2. ASSUME NEW a \in Asks, reply.at = "write", reply.ask.ask = a PROVE ~IsOpen(a)'
  BY <1>1, <1>2 DEF PendingUnanswered, AsksComeOnce, Unseen
<1>3. CASE NoticeAsk
  <2>1. /\ UNCHANGED <<reply, cut>>
        /\ Taken(Head(inbox).ask)
        /\ \/ pending' = [ask |-> Head(inbox).ask, index |-> 1] /\ UNCHANGED answers
           \/ UNCHANGED pending
        /\ UNCHANGED answers \/ Responded(Head(inbox).ask)
    BY <1>3 DEF NoticeAsk, history, Taken
  <2>2. Head(inbox).ask \in Asks
    BY <1>3, HeadOfInbox, InboxTyped DEF NoticeAsk, Noticed
  <2>3. Unseen(Head(inbox).ask) BY <2>1, <2>2, TakenOnce
  <2>4. \A a \in Asks : a # Head(inbox).ask => answers'[a] = answers[a]
    BY <1>0, <2>1 DEF Responded
  <2> QED BY <1>0, <1>2, <2>1, <2>2, <2>3, <2>4 DEF PendingUnanswered, Unseen, IsOpen
<1>4. ASSUME NEW i \in Interactions, Respond(i) PROVE PendingUnanswered'
  <2>1. reply.at = "idle" /\ pending = i /\ i # NoAsk /\ UNCHANGED cut
    BY <1>4 DEF Respond, history
  <2>2. i.ask \in Asks BY <2>1 DEF Interactions
  <2>3. CASE i.index < Questions[i.ask]
    <3>1. /\ pending' = [i EXCEPT !.index = @ + 1] /\ UNCHANGED <<reply, answers, cut>>
      BY <1>4, <2>3 DEF Respond, history
    <3>2. [i EXCEPT !.index = @ + 1].ask = i.ask BY DEF Interactions, NoAsk
    <3> QED BY <2>1, <2>2, <3>1, <3>2 DEF PendingUnanswered
  <2>4. CASE ~(i.index < Questions[i.ask])
    <3>1. /\ reply' = [at |-> "write", ask |-> i] /\ UNCHANGED <<pending, cut>>
          /\ Responded(i.ask)
      BY <1>4, <2>4 DEF Respond, history
    <3>2. ~IsOpen(i.ask)' BY <1>0, <2>2, <3>1 DEF Responded, IsOpen, RequestTypes
    <3>3. \A a \in Asks : a # i.ask => answers'[a] = answers[a]
      BY <1>0, <3>1 DEF Responded
    <3> QED BY <2>1, <2>2, <3>1, <3>2, <3>3 DEF PendingUnanswered
  <2> QED BY <2>3, <2>4
<1>5. CASE Written
  <2>1. /\ reply' = [at |-> "idle", ask |-> NoAsk] /\ UNCHANGED <<answers, cut>>
        /\ IF pending = reply.ask THEN pending' = NoAsk ELSE UNCHANGED pending
    BY <1>5 DEF Written, server, history
  <2> QED BY <1>0, <2>1 DEF PendingUnanswered, NoAsk
<1>6. CASE WriteCut
  <2>1. /\ reply' = [at |-> "idle", ask |-> NoAsk] /\ UNCHANGED <<answers, pending>>
        /\ cut' = cut \cup {reply.ask.ask}
    BY <1>6 DEF WriteCut, server, run
  <2> QED BY <1>0, <2>1 DEF PendingUnanswered, NoAsk
<1>7. CASE /\ UNCHANGED <<pending, reply, cut>> \/ (pending' = NoAsk /\ UNCHANGED <<reply, cut>>)
           /\ UNCHANGED answers
  BY <1>0, <1>2, <1>7 DEF PendingUnanswered, IsOpen
<1> QED BY <1>3, <1>4, <1>5, <1>6, <1>7, ReplySteps, AnswerSteps

\* Two hands answer a request only where a reply was cut off.
LEMMA AnsweredOnceKept ==
    ASSUME TypeOK, AsksComeOnce, PendingUnanswered, AnsweredOnce, [Next]_vars
    PROVE  AnsweredOnce'
<1>0. answers \in [Asks -> Nat] BY TypeParts DEF TypeServer
<1>1. cut \subseteq cut'
  BY ReplySteps DEF NoticeAsk, Respond, Written, WriteCut, history
<1>2. ASSUME NEW a \in Asks, answers'[a] > 1 PROVE a \in cut'
  <2>1. CASE NoticeAsk
    <3>1. CASE Taken(a)
      BY <1>0, <1>2, <2>1, <3>1, TakenOnce DEF Unseen, NoticeAsk, Responded
    <3>2. CASE ~Taken(a)
      <4>1. answers'[a] = answers[a]
        BY <1>0, <2>1, <3>2 DEF Taken, NoticeAsk, Responded
      <4> QED BY <1>1, <1>2, <4>1 DEF AnsweredOnce
    <3> QED BY <3>1, <3>2
  <2>2. ASSUME NEW i \in Interactions, Respond(i) PROVE a \in cut'
    <3>1. \/ answers'[a] = answers[a]
          \/ pending.ask = a /\ reply.at = "idle" /\ answers'[a] = answers[a] + 1
      BY <1>0, <2>2 DEF Respond, Responded
    <3> QED BY <1>1, <1>2, <3>1 DEF AnsweredOnce, PendingUnanswered
  <2>3. CASE UNCHANGED answers BY <1>1, <1>2, <2>3 DEF AnsweredOnce
  <2> QED BY <2>1, <2>2, <2>3, AnswerSteps
<1> QED BY <1>2 DEF AnsweredOnce

-----------------------------------------------------------------------------
(* Somebody holds a request that is open *)

\* What an open request waits for comes after the end of the turns before it.
LEMMA AsksAfterDoneKept ==
    ASSUME TypeOK, OneMainRuns, AsksAfterDone, [Next]_vars
    PROVE  AsksAfterDone'
<1>0. /\ inbox \in Seq(Notices)
      /\ \A a \in Asks : request[a] \in RequestTypes /\ RequestMoves(a)
  BY Typed, RequestStep, TypeParts DEF TypeInbox, RequestsMove
<1> SUFFICES ASSUME NEW n \in DOMAIN inbox', inbox'[n].kind = "done",
                    inbox'[n].turn \in MainTurns, NEW a \in Asks, IsOpen(a)'
             PROVE  \E m \in DOMAIN inbox' : m > n /\ inbox'[m] = Ask(a)
  BY DEF AsksAfterDone, Ask
<1>1. CASE ~IsOpen(a)
  <2>1. PICK t \in MainTurns : ServerAsks(a, t)
    BY <1>0, <1>1 DEF RequestMoves, RequestTypes, IsOpen
  <2>2. inbox' = Append(inbox, Ask(a)) /\ Ask(a) \in Notices
    BY <2>1 DEF ServerAsks, Ask, Notices
  <2>3. /\ DOMAIN inbox' = 1..(Len(inbox) + 1)
        /\ inbox'[Len(inbox) + 1] = Ask(a) /\ Len(inbox) \in Nat
    <3> HIDE DEF Notices
    <3> QED BY <1>0, <2>2, AppendProperties
  <2>4. n # Len(inbox) + 1 BY <2>3 DEF Ask
  <2> QED BY <2>3, <2>4
<1>2. CASE IsOpen(a)
  <2>1. CASE UNCHANGED inbox BY <1>2, <2>1 DEF AsksAfterDone
  <2>2. CASE inbox # <<>> /\ inbox' = Tail(inbox)
    <3>1. \A k \in DOMAIN inbox' : k \in Nat /\ k + 1 \in DOMAIN inbox /\ inbox'[k] = inbox[k + 1]
      <4> HIDE DEF Notices
      <4> QED BY <1>0, <2>2
    <3>2. \A k \in DOMAIN inbox : k > 1 => k - 1 \in DOMAIN inbox' /\ inbox'[k - 1] = inbox[k]
      <4> HIDE DEF Notices
      <4> QED BY <1>0, <2>2
    <3>3. DOMAIN inbox \subseteq Nat
      <4> HIDE DEF Notices
      <4> QED BY <1>0
    <3>4. PICK m \in DOMAIN inbox : m > n + 1 /\ inbox[m] = Ask(a)
      BY <1>2, <3>1 DEF AsksAfterDone
    <3> QED BY <3>1, <3>2, <3>3, <3>4
  <2>3. ASSUME NEW note \in Notices, inbox' = Append(inbox, note), Sent(note)
        PROVE  \E m \in DOMAIN inbox' : m > n /\ inbox'[m] = Ask(a)
    <3>1. /\ DOMAIN inbox' = 1..(Len(inbox) + 1) /\ DOMAIN inbox = 1..Len(inbox)
          /\ inbox'[Len(inbox) + 1] = note
          /\ \A k \in 1..Len(inbox) : inbox'[k] = inbox[k]
          /\ Len(inbox) \in Nat
      <4> HIDE DEF Notices
      <4> QED BY <1>0, <2>3, AppendProperties
    <3>2. CASE n \in DOMAIN inbox BY <1>2, <3>1, <3>2 DEF AsksAfterDone
    <3>3. CASE n \notin DOMAIN inbox
      <4>1. inbox'[n] = note BY <3>1, <3>3
      <4>2. PICK t \in Turns, status \in Statuses :
                ServerEnds(t, status) /\ note = [kind |-> "done", turn |-> t, status |-> status]
        BY <2>3, <4>1 DEF Sent, Ask, EndOfEvents
      <4>3. t \in MainTurns /\ turn[t].st = "running" BY <4>1, <4>2 DEF ServerEnds
      <4>4. request[a].turn = t BY <1>2, <4>3 DEF OneMainRuns
      <4>5. request'[a].st = "gone"
        BY <1>0, <1>2, <4>2, <4>4 DEF ServerEnds, RequestsGone, IsOpen, RequestTypes
      <4> QED BY <4>5 DEF IsOpen
    <3> QED BY <3>2, <3>3
  <2>4. CASE inbox' = <<>> BY <2>4
  <2> QED BY <2>1, <2>2, <2>3, <2>4, InboxStep DEF InboxMoves
<1> QED BY <1>1, <1>2

\* A run that was closed stays closed, and the channel ends once.
LEMMA StaysOver ==
    ASSUME [Next]_vars
    PROVE  (closed => closed') /\ (final # NoResult => final' = final)
<1>1. ASSUME closed PROVE closed'
  BY <1>1 DEF Next, vars, server, run, history, Server, Watcher, Operation, Answer, SideTask,
       Dispatch, ServerStarts, ServerEnds, ServerAsks, ServerResolves, ServerDies, NoticeDone,
       NoticeAsk, NoticeResolved, NoticeEnd, ThreadOpens, TurnStarts, StartFails, Begin,
       SteerSent, ServerSteers, Steered, SteerFalls, Fork, Forked, Cut, CancelSent, Shut,
       Restart, Restarted, Respond, Written, WriteCut, SideAnswered, SideTimesOut, Disposed,
       Read, Close, CloseInterrupts, Closed
<1>2. ASSUME final # NoResult PROVE final' = final
  BY <1>2 DEF Next, vars, server, run, history, Server, Watcher, Operation, Answer, SideTask,
       Dispatch, ServerStarts, ServerEnds, ServerAsks, ServerResolves, ServerDies, NoticeDone,
       NoticeAsk, NoticeResolved, NoticeEnd, ThreadOpens, TurnStarts, StartFails, Begin,
       SteerSent, ServerSteers, Steered, SteerFalls, Fork, Forked, Cut, CancelSent, Shut,
       Restart, Restarted, Respond, Written, WriteCut, SideAnswered, SideTimesOut, Disposed,
       Read, Close, CloseInterrupts, Closed
<1> QED BY <1>1, <1>2

\* Only side queries have a task, only main turns are expected to be interrupted.
LEMMA RunShapeKept ==
    ASSUME TypeOK, OpShape, RunShape, [Next]_vars
    PROVE  RunShape'
<1>0. /\ finisher \in FinisherTypes /\ active \in MainTurns \cup {"none"}
      /\ expected \subseteq Turns
  BY TypeParts DEF TypeSide, TypeOp, TypeFlags
<1>1. finisher'.at # "none" => finisher'.query \in Queries
  <2>1. \/ UNCHANGED finisher
        \/ CancelledSide \/ NoticeDone \/ Forked \/ SideTimesOut
        \/ finisher' = NoFinisher
    BY DEF Next, vars, server, run, history, Server, Watcher, Operation, Answer, SideTask,
       Dispatch, ServerStarts, ServerEnds, ServerAsks, ServerResolves, ServerDies,
       NoticeAsk, NoticeResolved, NoticeEnd, ThreadOpens, TurnStarts, StartFails, Begin,
       SteerSent, ServerSteers, Steered, SteerFalls, Fork, Cut, CancelSent, Shut,
       Restart, Restarted, Respond, Written, WriteCut, SideAnswered, Disposed,
       Read, Close, CloseInterrupts, Closed
  <2>2. ASSUME NEW e, finisher.at # "none", finisher' = [finisher EXCEPT !.at = e]
        PROVE  finisher'.query \in Queries
    BY <1>0, <2>2 DEF RunShape, FinisherTypes
  <2>3. CASE CancelledSide
    BY <2>2, <2>3 DEF CancelledSide, NoFinisher
  <2>4. CASE NoticeDone
    <3>1. \/ UNCHANGED finisher
          \/ /\ finisher = [at |-> "waiting", query |-> Head(inbox).turn]
             /\ finisher' = [finisher EXCEPT !.at = "answered"]
      BY <2>4 DEF NoticeDone
    <3>2. finisher = [at |-> "waiting", query |-> Head(inbox).turn] => finisher.at # "none"
      OBVIOUS
    <3> QED BY <2>2, <3>1, <3>2 DEF RunShape
  <2>5. CASE Forked BY <2>5 DEF Forked, OpShape
  <2>6. CASE SideTimesOut BY <2>2, <2>6 DEF SideTimesOut
  <2> QED BY <2>1, <2>3, <2>4, <2>5, <2>6 DEF RunShape, NoFinisher
<1>2. expected' \subseteq MainTurns
  <2>1. expected' \subseteq expected \cup ({active} \ {"none"})
    BY DEF Next, vars, server, run, history, Server, Watcher, Operation, Answer, SideTask,
       Dispatch, ServerStarts, ServerEnds, ServerAsks, ServerResolves, ServerDies, NoticeDone,
       NoticeAsk, NoticeResolved, NoticeEnd, ThreadOpens, TurnStarts, StartFails, Begin,
       SteerSent, ServerSteers, Steered, SteerFalls, Fork, Forked, Cut, CancelSent, Shut,
       Restart, Restarted, Respond, Written, WriteCut, SideAnswered, SideTimesOut, Disposed,
       Read, Close, CloseInterrupts, Closed
  <2> QED BY <1>0, <2>1 DEF RunShape
<1>3. closing' # "no" => closed'
  <2>1. closing' = closing \/ closing # "no" \/ Close
    BY DEF Next, vars, server, run, history, Server, Watcher, Operation, Answer, SideTask,
       Dispatch, ServerStarts, ServerEnds, ServerAsks, ServerResolves, ServerDies, NoticeDone,
       NoticeAsk, NoticeResolved, NoticeEnd, ThreadOpens, TurnStarts, StartFails, Begin,
       SteerSent, ServerSteers, Steered, SteerFalls, Fork, Forked, Cut, CancelSent, Shut,
       Restart, Restarted, Respond, Written, WriteCut, SideAnswered, SideTimesOut, Disposed,
       Read, CloseInterrupts, Closed
  <2>2. Close => closed' BY DEF Close
  <2> QED BY <2>1, <2>2, StaysOver DEF RunShape
<1> QED BY <1>1, <1>2, <1>3 DEF RunShape

\* The events that are queued stay so while the channel reads.
LEMMA PutKeeps ==
    ASSUME TypeOK, NEW s \in Seq(Events), events' = Put(s)
    PROVE  /\ \A n \in DOMAIN events : n \in DOMAIN events' /\ events'[n] = events[n]
           /\ final = NoResult =>
                  \A n \in DOMAIN s : \E m \in DOMAIN events' : events'[m] = s[n]
<1> events \in Seq(Events) BY TypeParts DEF TypeEvents
<1> HIDE DEF Events
<1>1. CASE final # NoResult BY <1>1 DEF Put
<1>2. CASE final = NoResult
  <2>1. events' = events \o s BY <1>2 DEF Put
  <2>2. /\ Len(events) \in Nat /\ Len(s) \in Nat
        /\ DOMAIN events = 1..Len(events) /\ DOMAIN s = 1..Len(s)
        /\ DOMAIN events' = 1..(Len(events) + Len(s))
        /\ \A n \in 1..Len(events) : events'[n] = events[n]
        /\ \A n \in 1..Len(s) : events'[Len(events) + n] = s[n]
    BY <2>1, ConcatProperties
  <2>3. ASSUME NEW n \in DOMAIN s PROVE \E m \in DOMAIN events' : events'[m] = s[n]
    <3>1. Len(events) + n \in DOMAIN events' BY <2>2, <2>3
    <3> QED BY <2>2, <2>3, <3>1
  <2> QED BY <2>2, <2>3
<1> QED BY <1>1, <1>2

\* A stream that is over, or about to be, does not come back.
LEMMA EndingKept ==
    ASSUME TypeOK, PendingUnanswered, RunShape, [Next]_vars, Ending
    PROVE  Ending'
<1>0. events \in Seq(Events) /\ final \in Results \cup {NoResult, EndOfEvents}
  BY TypeParts DEF TypeEvents
<1>1. CASE closed BY <1>1, StaysOver DEF Ending
<1>2. CASE final # NoResult BY <1>2, StaysOver DEF Ending
<1>3. ASSUME NEW n \in DOMAIN events, events[n].kind = "result" PROVE Ending'
  <2>1. CASE UNCHANGED events BY <1>3, <2>1 DEF Ending
  <2>2. CASE events' = <<>> /\ closed' BY <2>2 DEF Ending
  <2>3. CASE Read
    <3>1. events # <<>> BY <2>3 DEF Read
    <3>2. Head(events) = events[1] /\ 1 \in DOMAIN events
      <4> HIDE DEF Events
      <4> QED BY <1>0, <3>1
    <3>3. CASE Head(events).kind \in {"result", "end"}
      <4>1. final' = Head(events) BY <2>3, <3>3 DEF Read
      <4>2. Head(events) # NoResult BY <3>3 DEF NoResult
      <4> QED BY <4>1, <4>2 DEF Ending
    <3>4. CASE Head(events).kind \notin {"result", "end"}
      <4>1. events' = Tail(events) BY <2>3, <3>4 DEF Read
      <4>2. n # 1 BY <1>3, <3>2, <3>4
      <4>3. n - 1 \in DOMAIN events' /\ events'[n - 1] = events[n]
        <5> HIDE DEF Events
        <5> QED BY <1>0, <3>1, <4>1, <4>2
      <4> QED BY <1>3, <4>3 DEF Ending
    <3> QED BY <3>3, <3>4
  <2>4. ASSUME NEW s \in Seq(Events), events' = Put(s) PROVE Ending'
    BY <1>3, <2>4, PutKeeps DEF Ending
  <2>5. <<EndOfEvents>> \in Seq(Events) BY EventTypes
  <2> QED BY <2>1, <2>2, <2>3, <2>4, <2>5, EventsStep DEF EventsMoves
<1> QED BY <1>1, <1>2, <1>3 DEF Ending

\* A request that is held stays so: its notification is taken in its turn, and what
\* ends its interaction ends it or the run.
LEMMA RequestHeldKept ==
    ASSUME TypeOK, OpShape, OneMainRuns, AsksComeOnce, PendingUnanswered, AsksAfterDone,
           RunShape, RequestHeld, [Next]_vars
    PROVE  RequestHeld'
<1>0. /\ \A a \in Asks : request[a] \in RequestTypes /\ RequestMoves(a)
      /\ \A a \in Asks : a # "none" /\ NoAsk.ask # a
      /\ request \in [Asks -> RequestTypes] /\ inbox \in Seq(Notices)
      /\ pending \in Interactions /\ MainTurns \subseteq Turns
  BY Typed, RequestStep, NamesAssumption, TypeParts
     DEF RequestsMove, NoAsk, TypeServer, TypeInbox, TypeReply, Turns
<1> DEFINE Held(a) == \/ \E n \in DOMAIN inbox : inbox[n] = Ask(a)
                      \/ pending.ask = a
                      \/ Ending
<1> SUFFICES ASSUME NEW a \in Asks, IsOpen(a)' PROVE Held(a)'
  BY DEF RequestHeld, IsOpen, Ask
<1>1. CASE ~IsOpen(a)
  <2>1. PICK t \in MainTurns : ServerAsks(a, t)
    BY <1>0, <1>1 DEF RequestMoves, RequestTypes, IsOpen
  <2>2. inbox' = Append(inbox, Ask(a)) /\ Ask(a) \in Notices
    BY <2>1 DEF ServerAsks, Ask, Notices
  <2>3. /\ DOMAIN inbox' = 1..(Len(inbox) + 1)
        /\ inbox'[Len(inbox) + 1] = Ask(a) /\ Len(inbox) \in Nat
    <3> HIDE DEF Notices
    <3> QED BY <1>0, <2>2, AppendProperties
  <2> QED BY <2>3
<1>2. ASSUME Restart, IsOpen(a) PROVE FALSE
  <2>1. request' = RequestsGone(Turns) BY <1>2 DEF Restart
  <2> QED BY <1>0, <1>2, <2>1 DEF RequestsGone, OneMainRuns, IsOpen, RequestTypes
<1>3. ASSUME IsOpen(a), NEW n \in DOMAIN inbox, inbox[n] = Ask(a) PROVE Held(a)'
  <2>1. CASE n \in DOMAIN inbox' /\ inbox'[n] = inbox[n] BY <1>3, <2>1
  <2>2. CASE n - 1 \in DOMAIN inbox' /\ inbox'[n - 1] = inbox[n] BY <1>3, <2>2
  <2>3. CASE inbox # <<>> /\ Watcher /\ n = 1
    <3>1. Head(inbox) = Ask(a) BY <1>3, <2>3, HeadOfInbox
    <3>2. NoticeAsk
      BY <2>3, <3>1 DEF Watcher, NoticeDone, NoticeResolved, NoticeEnd, Ask
    <3>3. \/ pending' = [ask |-> a, index |-> 1]
          \/ alive => Responded(a)
      BY <3>1, <3>2 DEF NoticeAsk, Ask
    <3>4. ~(alive => Responded(a))
      BY <1>0, <1>3 DEF OneMainRuns, Responded, IsOpen, RequestTypes
    <3> QED BY <3>3, <3>4
  <2> QED BY <1>2, <1>3, <2>1, <2>2, <2>3, InboxTo
<1>4. ASSUME IsOpen(a), pending.ask = a PROVE Held(a)'
  <2>1. CASE NoticeDone
    <3>1. inbox # <<>> /\ Head(inbox).kind = "done" /\ 1 \in DOMAIN inbox
          /\ Head(inbox) = inbox[1] /\ inbox[1].turn \in Turns
          /\ inbox[1].status \in Statuses
      BY <2>1, HeadOfInbox, InboxTyped DEF NoticeDone, Noticed
    <3>2. CASE inbox[1].turn \in MainTurns
      <4>1. PICK m \in DOMAIN inbox : inbox[m] = Ask(a)
        BY <1>4, <3>1, <3>2 DEF AsksAfterDone
      <4>2. Held(a)' BY <1>3, <1>4, <4>1
      <4> QED BY <4>2
    <3>3. CASE inbox[1].turn \in Queries /\ pending' # pending
      <4> DEFINE t == inbox[1].turn
                 r == [kind |-> "result", turn |-> t, status |-> inbox[1].status]
      <4>1. events' = Put(Resolved(pending) \o Reported(t, inbox[1].status))
            /\ UNCHANGED final
        BY <2>1, <3>1, <3>3 DEF NoticeDone
      <4>2. Reported(t, inbox[1].status) = <<r>>
        BY <3>3, NamesAssumption DEF Reported, RunShape, MainTurns
      <4>3. Resolved(pending) = <<[kind |-> "resolved", ask |-> pending]>>
        BY <1>0, <1>4 DEF Resolved
      <4>4. /\ Resolved(pending) \in Seq(Events)
            /\ Reported(t, inbox[1].status) \in Seq(Events)
        BY <3>1, EventTypes
      <4>5. /\ Resolved(pending) \o Reported(t, inbox[1].status) \in Seq(Events)
            /\ 2 \in DOMAIN (Resolved(pending) \o Reported(t, inbox[1].status))
            /\ (Resolved(pending) \o Reported(t, inbox[1].status))[2] = r
        <5> HIDE DEF Events
        <5>1. Resolved(pending) \o Reported(t, inbox[1].status) \in Seq(Events)
          BY <4>4, ConcatProperties
        <5> HIDE DEF r, t
        <5> DEFINE p == Resolved(pending)
                   q == Reported(t, inbox[1].status)
        <5>2. Len(p) = 1 /\ Len(q) = 1 /\ q[1] = r BY <4>2, <4>3
        <5>3. p \in Seq(Events) /\ q \in Seq(Events) BY <4>4
        <5> HIDE DEF p, q
        <5>4. Len(p \o q) = 2 /\ (p \o q)[2] = r
          <6>1. /\ Len(p \o q) = 1 + 1
                /\ \A k \in 1..(1 + 1) :
                       (p \o q)[k] = IF k <= 1 THEN p[k] ELSE q[k - 1]
            <7>1. /\ Len(p \o q) = Len(p) + Len(q)
                  /\ \A k \in 1..(Len(p) + Len(q)) :
                         (p \o q)[k] = IF k <= Len(p) THEN p[k] ELSE q[k - Len(p)]
              BY <5>3, ConcatProperties, Zenon
            <7> QED BY <5>2, <7>1, Zenon
          <6>2. 2 \in 1..(1 + 1) /\ ~(2 <= 1) /\ 2 - 1 = 1 /\ 1 + 1 = 2 OBVIOUS
          <6>3. (p \o q)[2] = q[2 - 1] BY <6>1, <6>2
          <6> QED BY <5>2, <6>1, <6>2, <6>3
        <5>5. p \o q \in Seq(Events) BY <5>1 DEF p, q
        <5>6. 2 \in DOMAIN (p \o q) BY <5>4, <5>5
        <5> QED BY <5>4, <5>5, <5>6 DEF p, q
      <4>6. CASE final = NoResult
        <5> HIDE DEF r, t, Events
        <5> DEFINE s == Resolved(pending) \o Reported(t, inbox[1].status)
        <5>2. s \in Seq(Events) /\ 2 \in DOMAIN s /\ s[2] = r /\ events' = Put(s)
          BY <4>1, <4>5
        <5> HIDE DEF s
        <5>1. \E m \in DOMAIN events' : events'[m] = r BY <4>6, <5>2, PutKeeps
        <5>3. r.kind = "result" BY DEF r
        <5> QED BY <5>1, <5>3 DEF Ending
      <4>7. CASE final # NoResult BY <4>1, <4>7 DEF Ending
      <4> QED BY <4>6, <4>7
    <3> QED BY <1>4, <3>1, <3>2, <3>3 DEF Turns
  <2>2. CASE NoticeResolved
    <3>1. inbox # <<>> /\ Head(inbox).kind = "resolved" /\ 1 \in DOMAIN inbox
          /\ Head(inbox) = inbox[1]
      BY <2>2, HeadOfInbox DEF NoticeResolved, Noticed
    <3>2. Head(inbox).ask # a BY <1>4, <3>1 DEF AsksComeOnce, IsOpen
    <3>3. UNCHANGED pending BY <1>4, <2>2, <3>2 DEF NoticeResolved
    <3> QED BY <1>4, <3>3
  <2>3. CASE Shut BY <2>3 DEF Shut, Ending
  <2>4. CASE CloseInterrupts BY <2>4 DEF CloseInterrupts, RunShape, Ending
  <2>5. CASE NoticeAsk
    <3>1. pending # NoAsk BY <1>0, <1>4
    <3>2. UNCHANGED pending BY <2>5, <3>1 DEF NoticeAsk
    <3> QED BY <1>4, <3>2
  <2>6. ASSUME NEW i \in Interactions, Respond(i) PROVE Held(a)'
    <3>1. [i EXCEPT !.index = @ + 1].ask = i.ask BY DEF Interactions, NoAsk
    <3>2. pending = i /\ (pending' = pending \/ pending' = [i EXCEPT !.index = @ + 1])
      BY <2>6 DEF Respond
    <3>3. pending'.ask = a BY <1>4, <3>1, <3>2
    <3> QED BY <3>3
  <2>7. CASE Written
    <3>1. reply.at = "write" BY <2>7 DEF Written
    <3>2. pending # reply.ask BY <1>4, <3>1 DEF PendingUnanswered
    <3>3. UNCHANGED pending BY <2>7, <3>2 DEF Written
    <3> QED BY <1>4, <3>3
  <2>8. CASE WriteCut BY <1>4, <2>8 DEF WriteCut, run
  <2>9. CASE UNCHANGED pending BY <1>4, <2>9
  <2> QED BY <1>2, <1>4, <2>1, <2>2, <2>3, <2>4, <2>5, <2>6, <2>7, <2>8, <2>9, ReplySteps
<1>5. ASSUME Ending PROVE Held(a)' BY <1>5, EndingKept
<1> QED BY <1>1, <1>3, <1>4, <1>5 DEF RequestHeld, IsOpen, Ask

-----------------------------------------------------------------------------
(* Theorems *)

\* The run starts with nothing asked, sent or queued.
LEMMA InitHolds == Init => IInv
<1> SUFFICES ASSUME Init PROVE IInv OBVIOUS
<1>1. TypeOK BY TypeInit
<1>2. OpShape BY DEF Init, OpShape, MainTurns
<1>3. ActiveStarted /\ OnlyActiveRuns /\ EndIsCancel
  <2>1. \A t \in Turns : t # "none"
    BY NamesAssumption DEF Turns, MainTurns
  <2> QED BY <2>1 DEF Init, ActiveStarted, OnlyActiveRuns, EndIsCancel, Served, NoResult,
                EndOfEvents
<1>4. OneMainRuns BY DEF Init, OneMainRuns, IsOpen, Turns
<1>5. AsksComeOnce /\ PendingUnanswered /\ AnsweredOnce
  BY NamesAssumption DEF Init, AsksComeOnce, PendingUnanswered, AnsweredOnce, Unseen, NoAsk
<1>6. AsksAfterDone /\ RunShape /\ RequestHeld
  BY DEF Init, AsksAfterDone, RunShape, RequestHeld, NoFinisher
<1> QED BY <1>1, <1>2, <1>3, <1>4, <1>5, <1>6 DEF IInv

\* The invariant of a run of the provider: what holds of its turns, of the server's
\* requests and of the notifications on their way (codex.py:764-1650) is kept by every
\* step of the server, the watcher and the coroutines.
THEOREM Inductive == Spec => []IInv
<1>1. Init => IInv BY InitHolds
<1>2. IInv /\ [Next]_vars => IInv'
  <2> SUFFICES ASSUME IInv, [Next]_vars PROVE IInv' OBVIOUS
  <2> USE DEF IInv
  <2>1. TypeOK' BY TypeKept
  <2>2. OpShape' /\ ActiveStarted' /\ OnlyActiveRuns' /\ EndIsCancel'
    BY OpShapeKept, ActiveStartedKept, OnlyActiveRunsKept, EndIsCancelKept
  <2>3. OneMainRuns' /\ AsksComeOnce' /\ PendingUnanswered' /\ AnsweredOnce'
    BY OneMainRunsKept, AsksComeOnceKept, PendingUnansweredKept, AnsweredOnceKept
  <2>4. AsksAfterDone' /\ RunShape' /\ RequestHeld'
    BY AsksAfterDoneKept, RunShapeKept, RequestHeldKept
  <2> QED BY <2>1, <2>2, <2>3, <2>4
<1> QED BY <1>1, <1>2, PTL DEF Spec

\* The variables of a run keep their types.
THEOREM TypeCorrect == Spec => []TypeOK
<1>1. IInv => TypeOK BY DEF IInv
<1> QED BY <1>1, Inductive, PTL

\* A request of the server is in somebody's hands while it is open, and two hands never
\* answer it (_on_server_request, codex.py:1280; respond, 983).
THEOREM EveryRequestServedOnce == Spec => []RequestsServed
<1>1. IInv => RequestsServed BY DEF IInv, RequestsServed
<1> QED BY <1>1, Inductive, PTL

\* When cancel has returned, no turn that was accepted runs any more (cancel,
\* _interrupt_active and restart of codex.py).
THEOREM CancelLeavesNothing == Spec => []CancelStops
<1>1. IInv => CancelStops BY DEF IInv, EndIsCancel, CancelStops, Stopped
<1> QED BY <1>1, Inductive, PTL
=============================================================================
