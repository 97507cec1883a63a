-------------------------------- MODULE Plans --------------------------------
(***************************************************************************)
(* What the gateway does with a plan of the coordinator for the requests   *)
(* of one owner: _apply_plan validates it and carries out its commands one *)
(* by one, while the dispatch jobs of the tasks it names open runs, replay *)
(* the outbox to them and end.  A request whose plan was cut by the death  *)
(* of the process is planned again, and the ids of its operations are      *)
(* those of the request and of the command's place in the plan.            *)
(* No provider of the repository resumes a session: a restart fails the    *)
(* tasks that were running.  An update is the operation that made it.      *)
(***************************************************************************)
EXTENDS PlanPromise

CONSTANTS
    MaxTasks,      \* tasks, bound
    MaxCrashes

\* Assumed by the module that instantiates this one.
PlansAssumption ==
    {MaxRequests, MaxPlan, MaxTasks, MaxQueued, MaxCrashes} \subseteq Nat

VARIABLES
    marks,     \* operations saved with save_task_once
    hand,      \* the request in hand and its plan: [req, plan, i]
    told       \* requests that are over, their plan carried out or rejected

planVars == << planned, outbox, marks, given, awaits, hand, told, planUp, planCrashes >>

Idle == [req |-> 0, plan |-> << >>, i |-> 0]
Ids == DOMAIN planned
Over(t) == planned[t].status = "over"
Registered(t) == planned[t].run \in {"replaying", "serving"}

Init ==
    /\ planned = << >> /\ outbox = << >> /\ marks = {} /\ given = << >>
    /\ awaits = {} /\ hand = Idle /\ told = 0
    /\ planUp = TRUE /\ planCrashes = 0

-----------------------------------------------------------------------------
(***************************************************************************)
(* The outbox.                                                             *)
(***************************************************************************)
Command(op) == { c \in ToSet(outbox) : c.op = op }
State(op) == (CHOOSE c \in Command(op) : TRUE).state

\* A row that is written again is the last in the order of updated_at_ms.
Rest(box, op) == Only(box, { c \in ToSet(box) : c.op # op })
Put(box, op, t, s) == Append(Rest(box, op), [op |-> op, task |-> t, state |-> s])

\* fail_provider_commands_for_run, one row after the other.
Open(box, t) == { c \in ToSet(box) : c.task = t /\ c.state \in {"pending", "sending"} }
FailedBox(box, t) ==
    LET failed == Only(box, Open(box, t))
    IN Only(box, ToSet(box) \ Open(box, t))
       \o [k \in DOMAIN failed |-> [failed[k] EXCEPT !.state = "failed"]]

Ended(ts, t) == [ts EXCEPT ![t].status = "over", ![t].run = "none", ![t].left = << >>]

Await(by, op, t) == awaits' = awaits \union
                    {[by |-> by, op |-> op, task |-> t, taken |-> FALSE]}

\* run.send reaches the worker, unless its run is over.
Taken(a) ==
    /\ ~ a.taken /\ Registered(a.task)
    /\ awaits' = (awaits \ {a}) \union {[a EXCEPT !.taken = TRUE]}
    /\ given' = [given EXCEPT ![a.task] = Append(@, a.op)]
    /\ UNCHANGED << planned, outbox, marks, hand, told, planUp, planCrashes >>

-----------------------------------------------------------------------------
(***************************************************************************)
(* Plans.                                                                  *)
(***************************************************************************)
Create == [kind |-> "create", task |-> 0]
Commands == {Create} \union [kind : {"update", "cancel"}, task : Ids]

\* _validate_plan.
Valid(plan) ==
    /\ \A k \in DOMAIN plan : plan[k].kind = "update" => ~ Over(plan[k].task)
    /\ Cardinality({ k \in DOMAIN plan : plan[k] = Create }) + Cardinality(Queued) <= MaxQueued

Reply == hand' = Idle /\ told' = told + 1
NextCommand == hand' = [hand EXCEPT !.i = @ + 1] /\ UNCHANGED told

\* The coordinator's plan for the next request that is not over.
Apply(plan) ==
    /\ planUp /\ hand = Idle /\ told < MaxRequests
    /\ IF Valid(plan)
         THEN hand' = [req |-> told + 1, plan |-> plan, i |-> 1] /\ UNCHANGED told
         ELSE Reply
    /\ UNCHANGED << planned, outbox, marks, given, awaits, planUp, planCrashes >>

Op == << hand.req, hand.i >>
At(kind) ==
    /\ planUp /\ hand # Idle /\ hand.i <= Len(hand.plan)
    /\ hand.plan[hand.i].kind = kind
    /\ \A a \in awaits : a.by # "plan"
Target == hand.plan[hand.i].task

\* A task of the same operation exists when the plan is carried out again.
CreateTask ==
    /\ At("create") /\ NextCommand
    /\ IF \E t \in Ids : planned[t].op = Op
         THEN UNCHANGED << planned, given >>
         ELSE /\ Len(planned) < MaxTasks
              /\ planned' = Append(planned, [op |-> Op, status |-> "queued", run |-> "none",
                                         text |-> << >>, left |-> << >>])
              /\ given' = Append(given, << >>)
    /\ UNCHANGED << outbox, marks, awaits, planUp, planCrashes >>

\* _send_task to a queued task: the words are part of its instruction.
Instruct ==
    LET t == Target
    IN /\ At("update") /\ planned[t].status = "queued" /\ NextCommand
       /\ planned' = IF Op \in marks THEN planned
                   ELSE [planned EXCEPT ![t].text = Append(@, Op)]
       /\ marks' = marks \union {Op}
       /\ UNCHANGED << outbox, given, awaits, planUp, planCrashes >>

\* ... and to any other: a command for its run, sent if the run is there.  A
\* command of the same id is that of a run that died, and another one.
Message ==
    LET t == Target
    IN /\ At("update") /\ planned[t].status # "queued"
       /\ CASE Over(t) \/ Command(Op) # {} ->
                 Reply /\ UNCHANGED << outbox, awaits >>
            [] ~ Over(t) /\ Command(Op) = {} /\ Registered(t) ->
                 /\ outbox' = Put(outbox, Op, t, "sending")
                 /\ Await("plan", Op, t) /\ UNCHANGED << hand, told >>
            [] OTHER ->
                 /\ outbox' = Put(outbox, Op, t, "pending")
                 /\ NextCommand /\ UNCHANGED awaits
       /\ UNCHANGED << planned, marks, given, planUp, planCrashes >>

\* _deliver_provider_command returns to the plan: an answer, or a timeout,
\* which does not undo what the worker has taken.
Delivered(a, ok) ==
    /\ a.by = "plan" /\ (ok => a.taken)
    /\ awaits' = awaits \ {a}
    /\ outbox' = Put(outbox, a.op, a.task, IF ok THEN "sent" ELSE "failed")
    /\ IF ok THEN NextCommand ELSE Reply
    /\ UNCHANGED << planned, marks, given, planUp, planCrashes >>

\* _cancel_task.  The worker confirms, or run.cancel fails.
CancelTask(ok) ==
    LET t == Target
    IN /\ At("cancel")
       /\ IF Over(t) \/ planned[t].run = "opening"
            THEN /\ ok /\ NextCommand /\ UNCHANGED outbox
                 /\ planned' = IF Over(t) THEN planned
                             ELSE [planned EXCEPT ![t].status = "cancelling"]
            ELSE IF ok
            THEN planned' = Ended(planned, t) /\ outbox' = FailedBox(outbox, t) /\ NextCommand
            ELSE /\ planned[t].status # "queued" /\ UNCHANGED outbox
                 /\ planned' = [planned EXCEPT ![t].status = "cancelling"]
                 /\ Reply
       /\ UNCHANGED << marks, given, awaits, planUp, planCrashes >>

Finish ==
    /\ planUp /\ hand # Idle /\ hand.i > Len(hand.plan)
    /\ Reply
    /\ UNCHANGED << planned, outbox, marks, given, awaits, planUp, planCrashes >>

-----------------------------------------------------------------------------
(***************************************************************************)
(* The dispatch job of a task.                                             *)
(***************************************************************************)
OnlyTasks == UNCHANGED << marks, hand, told, planUp, planCrashes >>

\* The lock of the task is free: no plan awaits its worker.
Unlocked(t) == \A a \in awaits : a.by = "plan" => a.task # t

\* The worker's request holds the instruction as the task has it now.
Begin(t) ==
    /\ planUp /\ t \in Queued
    /\ planned' = [planned EXCEPT ![t].status = "running", ![t].run = "opening"]
    /\ UNCHANGED << outbox, given, awaits >> /\ OnlyTasks

\* Mutant: the outbox is read before the run is opened.
OpenedEarly(t) ==
    /\ planUp /\ planned[t].run = "opening" /\ UNCHANGED << outbox, awaits >> /\ OnlyTasks
    /\ planned' = [planned EXCEPT ![t].run = "replaying"]
    /\ given' = [given EXCEPT ![t] = planned[t].text]

\* The run is open: it is registered and the replay reads the outbox at once.
Opened(t) ==
    LET mine == Only(outbox, { c \in Open(outbox, t) : c.state = "pending" })
    IN /\ planUp /\ planned[t].run = "opening" /\ UNCHANGED << outbox, awaits >> /\ OnlyTasks
       /\ planned' = [planned EXCEPT ![t].run = "replaying",
                                 ![t].left = [k \in DOMAIN mine |-> mine[k].op]]
       /\ given' = [given EXCEPT ![t] = planned[t].text]

\* _replay_provider_commands: one command after the other.
Replay(t) ==
    LET op == Head(planned[t].left)
        send == State(op) \in {"pending", "sending"}
    IN /\ planUp /\ planned[t].run = "replaying" /\ planned[t].left # << >>
       /\ \A a \in awaits : a.task = t => a.by # "replay"
       /\ planned' = [planned EXCEPT ![t].left = Tail(@)]
       /\ outbox' = IF send THEN Put(outbox, op, t, "sending") ELSE outbox
       /\ IF send THEN Await("replay", op, t) ELSE UNCHANGED awaits
       /\ UNCHANGED given /\ OnlyTasks

\* A command the replay could not deliver has failed, and nobody is told.
Replayed(a, ok) ==
    /\ a.by = "replay" /\ (ok => a.taken)
    /\ awaits' = awaits \ {a}
    /\ outbox' = Put(outbox, a.op, a.task, IF ok THEN "sent" ELSE "failed")
    /\ UNCHANGED << planned, given >> /\ OnlyTasks

\* A task that was cancelled meanwhile is cancelled now.
Serve(t) ==
    /\ planUp /\ planned[t].run = "replaying" /\ planned[t].left = << >>
    /\ \A a \in awaits : a.task = t => a.by # "replay"
    /\ IF planned[t].status = "cancelling"
         THEN planned' = Ended(planned, t) /\ outbox' = FailedBox(outbox, t)
         ELSE planned' = [planned EXCEPT ![t].run = "serving"] /\ UNCHANGED outbox
    /\ UNCHANGED << given, awaits >> /\ OnlyTasks

\* The worker is done, which needs no lock, or opening or running it failed,
\* which does.
RunEnds(t, done) ==
    /\ planUp /\ planned[t].run \in {"opening", "serving"}
    /\ IF done THEN planned[t].run = "serving" ELSE Unlocked(t)
    /\ planned' = Ended(planned, t) /\ outbox' = FailedBox(outbox, t)
    /\ UNCHANGED << given, awaits >> /\ OnlyTasks

-----------------------------------------------------------------------------
Crash ==
    /\ planUp /\ planCrashes < MaxCrashes
    /\ planUp' = FALSE /\ planCrashes' = planCrashes + 1
    /\ awaits' = {} /\ hand' = Idle
    /\ UNCHANGED << planned, outbox, marks, given, told >>

\* reset_sending_provider_commands, then every run fails with its commands:
\* all of them are over, in whatever order.
Start ==
    LET lost(t) == planned[t].status \in {"running", "cancelling"}
        gone(c) == lost(c.task) /\ c.state \in {"pending", "sending"}
    IN /\ ~ planUp /\ planUp' = TRUE
       /\ planned' = [t \in Ids |-> IF lost(t)
                                    THEN [planned[t] EXCEPT !.status = "over",
                                                          !.run = "none", !.left = << >>]
                                    ELSE planned[t]]
       /\ outbox' = [k \in DOMAIN outbox |->
                       IF gone(outbox[k]) THEN [outbox[k] EXCEPT !.state = "failed"]
                       ELSE outbox[k]]
       /\ UNCHANGED << marks, given, awaits, hand, told, planCrashes >>

-----------------------------------------------------------------------------
Next ==
    \/ \E n \in 1 .. MaxPlan : \E plan \in [1 .. n -> Commands] : Apply(plan)
    \/ CreateTask \/ Instruct \/ Finish
    \/ Message \/ \E ok \in BOOLEAN : CancelTask(ok)
    \/ \E a \in awaits : Taken(a) \/ \E ok \in BOOLEAN : Delivered(a, ok) \/ Replayed(a, ok)
    \/ \E t \in Ids : \/ Begin(t) \/ Opened(t) \/ Replay(t) \/ Serve(t)
                      \/ \E done \in BOOLEAN : RunEnds(t, done)
    \/ Crash \/ Start

Spec == Init /\ [][Next]_planVars

=============================================================================
