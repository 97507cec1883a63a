----------------------------- MODULE TaskControl -----------------------------
(***************************************************************************)
(* The three tools by which the speaking model controls one owner's tasks  *)
(* (GanderGateway.task_start, task_send, task_resolve): receipts, the      *)
(* tasks that can be named, the resolution of a spoken reference, the      *)
(* decision each tool takes on its target, and the pruning of finished     *)
(* tasks.                                                                  *)
(*                                                                         *)
(* A call holds the owner's lock to its end.  What it decides on reading   *)
(* the ledger is one step; a call that then awaits a task's lock or its    *)
(* worker is in hand, and workers run, ask and finish before it goes on.   *)
(* Tasks are numbered in the order of creation.  A name is the sequence of *)
(* its stem and the numbers appended to make it new.  Times are abstracted *)
(* to an order: `ended` lists finished tasks by updated_at_ms; those in    *)
(* `late` are out of the reference window, those in `over` past their TTL. *)
(* One provider is registered: native steering, side queries and forks.    *)
(***************************************************************************)
EXTENDS NamePromise

CONSTANTS Stems,        \* names the model proposes
          MaxTasks,     \* bound: tasks and side queries ever created
          MaxMain,      \* bound: those that are no side queries
          MaxBatch,     \* calls made under one user turn
          MaxAsks       \* interactions pending at a task

\* Assumed by the module that instantiates this one.
TaskControlAssumption ==
  MaxTasks \in Nat /\ MaxTerminal \in Nat /\ MaxAsks \in Nat

Sends == {"main", "fork"}
Decisions == {"allow_once", "allow_session", "deny"}
Tools == {"start", "cancel"} \cup Sends \cup Decisions

VARIABLES over,      \* finished tasks past their TTL
          receipts,  \* the calls of the latest turn that have a receipt
          hand,      \* the call in hand
          standing   \* _standing_allow holds the owner

controlVars == <<tasks, ended, late, over, undelivered, receipts, hand, standing>>

AllNames == <<"all">>   \* "all" is no stem
Nobody == [act |-> "none"]

Init ==
  /\ tasks = <<>>
  /\ ended = <<>>
  /\ late = {} /\ over = {}
  /\ undelivered = {}
  /\ receipts = {}
  /\ hand = Nobody
  /\ standing = FALSE

-----------------------------------------------------------------------------
(* What can be named *)

Names(S) == {tasks[t].name : t \in S}

(* Mutant: only the names of active tasks are taken.                       *)
NamedActive(kept, name) ==
  LET taken == Names(Active)
      free == {k \in 2..(MaxTasks + 2) : Append(name, k) \notin taken}
  IN IF name \notin taken THEN name
     ELSE Append(name, CHOOSE k \in free : \A l \in free : k <= l)

(* assign_frontbrain_task_name: the proposed name, or the first numbered   *)
(* variant nobody visible has.                                             *)
Named(kept, name) ==
  LET taken == Names(Active \cup Recent(kept))
      free == {k \in 2..(MaxTasks + 2) : Append(name, k) \notin taken}
  IN IF name \notin taken THEN name
     ELSE Append(name, CHOOSE k \in free : \A l \in free : k <= l)

Resolved(kept, ref) ==
  IF ref = AllNames THEN (IF Active = {} THEN "no_such_task" ELSE "all")
  ELSE LET pool == Pool(kept, ref) IN
       IF pool = {} THEN "no_such_task"
       ELSE IF Cardinality(pool) > 1 THEN "ambiguous" ELSE "target"

Target(kept, ref) == CHOOSE t \in Pool(kept, ref) : TRUE

-----------------------------------------------------------------------------
(* Pruning *)

(* Mutant: a pending delivery does not keep its task.                      *)
PrunableAny(deliveries) == {t \in ToSet(ended) : ~Asked(t)}

(* prune_terminal_tasks: a finished task goes when its TTL is over, or     *)
(* when MaxTerminal younger ones of its kind are kept; not while its       *)
(* delivery is pending or a side query of it runs.                         *)
Prunable(deliveries) == {t \in ToSet(ended) : t \notin deliveries /\ ~Asked(t)}

Pruned ==
  LET free == Prunable(undelivered)
      Kept(kind) == {t \in free \ over : tasks[t].kind = kind}
      Excess(kind) == {t \in Kept(kind) :
                         Cardinality(Newer(ended, Kept(kind), t)) >= MaxTerminal}
  IN (free \cap over) \cup Excess("main") \cup Excess("side")

Left(gone) ==
  [t \in Ids |-> IF t \in gone THEN [tasks[t] EXCEPT !.status = "gone"] ELSE tasks[t]]

-----------------------------------------------------------------------------
(* What a call decides *)

Record(kind, name, parent) ==
  [kind |-> kind, status |-> "queued", name |-> name, parent |-> parent, q |-> 0, p |-> 0]

Do(act, t) == [act |-> act, task |-> t]
Refuse == Do("refuse", 0)

(* A message for a finished main task answers its only side question, else *)
(* continues it as a new task.                                             *)
ToEnded(t) ==
  LET sides == {c \in Ids : tasks[c].parent = t /\ Live(c)}
      asking == {c \in sides : tasks[c].q + tasks[c].p > 0}
  IN IF \E c \in asking : tasks[c].p > 0 THEN Refuse
     ELSE IF asking = {} THEN Do("continue", t)
     ELSE IF \E c \in asking : asking # {c} \/ tasks[c].q > 1 THEN Refuse
     ELSE Do("reply", CHOOSE c \in asking : TRUE)

(* _apply_task_send                                                        *)
Sent(lane, t) ==
  IF ~Live(t) THEN (IF lane = "main" THEN ToEnded(t) ELSE Do("side", t))
  ELSE IF lane = "fork"
       THEN IF tasks[t].status = "queued" THEN Refuse ELSE Do("query", t)
  ELSE IF tasks[t].p > 0 \/ tasks[t].q > 1 THEN Refuse
  ELSE IF tasks[t].q = 1 THEN Do("reply", t) ELSE Do("send", t)

(* _apply_task_resolution of a permission                                  *)
Decided(decision, t) ==
  IF ~Live(t) \/ tasks[t].p > 1 THEN Refuse
  ELSE IF tasks[t].p = 1 THEN Do(decision, t)
  ELSE IF decision = "deny" /\ standing THEN Do("revoke", t) ELSE Refuse

Chosen(kept, tool, ref) ==
  LET found == Resolved(kept, ref) IN
  IF tool = "start" THEN Do("start", 0)
  ELSE IF found = "all"
       THEN IF tool = "cancel" THEN [act |-> "all", tasks |-> Active] ELSE Refuse
  ELSE IF found # "target" THEN Refuse
  ELSE LET t == Target(kept, ref) IN
       CASE tool \in Sends -> Sent(tool, t)
         [] tool = "cancel" -> IF Live(t) THEN Do("cancel", t) ELSE Refuse
         [] tool \in Decisions -> Decided(tool, t)

Awaiting == {"send", "query", "reply", "cancel", "all"} \cup Decisions

(* The task a call creates at once, if it does.                            *)
New(do, kept, proposed) ==
  CASE do.act = "start" -> <<Record("main", Named(kept, proposed), 0)>>
    [] do.act = "continue" -> <<Record("main", Named(kept, tasks[do.task].name), 0)>>
    [] do.act = "side" -> <<Record("side", tasks[do.task].name, do.task)>>
    [] OTHER -> <<>>

(* The bounds: the tool answers, whatever number of tasks there is.        *)
Within(all) ==
  /\ Len(all) <= MaxTasks
  /\ Cardinality({t \in DOMAIN all : all[t].kind = "main"}) <= MaxMain

(* A tool call of the latest turn.  What is over is pruned; a call that    *)
(* has its receipt gets that result again and does nothing more.  What a   *)
(* call decides without waiting is done, and has its receipt, at once.     *)
Call(tool, ref) ==
  LET key == <<tool, ref>>
      gone == Pruned
      kept == Only(ended, Ids \ gone)
      do == IF key \in receipts THEN Refuse ELSE Chosen(kept, tool, ref)
      new == New(do, kept, ref)
  IN /\ hand = Nobody
     /\ key \in receipts \/ Cardinality(receipts) < MaxBatch
     /\ Within(tasks \o new)
     /\ tasks' = Left(gone) \o new
     /\ ended' = kept /\ late' = late \ gone /\ over' = over \ gone
     /\ standing' = IF do.act = "revoke" THEN FALSE ELSE standing
     /\ IF do.act \in Awaiting
        THEN /\ hand' = [act |-> do.act, key |-> key,
                         left |-> IF do.act = "all" THEN do.tasks ELSE {do.task}]
             /\ receipts' = receipts
        ELSE /\ hand' = hand
             /\ receipts' = receipts \cup {key}
     /\ UNCHANGED undelivered

Refs(tool) ==
  IF tool = "start" THEN {<<stem>> : stem \in Stems}
  ELSE {NoName, AllNames} \cup Names(InView)

(* The user's next turn; its calls have receipts of their own.             *)
Turn ==
  /\ hand = Nobody
  /\ receipts' = {}
  /\ UNCHANGED <<tasks, ended, late, over, undelivered, hand, standing>>

-----------------------------------------------------------------------------
(* The call goes on, under the task's lock *)

Closed(t) == [tasks[t] EXCEPT !.status = "ended", !.q = 0, !.p = 0]

(* A task finishes: its questions are closed and the user is to be told.   *)
Ends(t) ==
  /\ tasks' = [tasks EXCEPT ![t] = Closed(t)]
  /\ ended' = Append(ended, t)
  /\ undelivered' = undelivered \cup {t}
  /\ late' = late /\ over' = over

(* The record is saved again: a finished task counts as just updated.      *)
Touched(t) ==
  /\ ended' = IF t \in ToSet(ended) THEN Append(Only(ended, Ids \ {t}), t)
              ELSE ended
  /\ late' = late \ {t} /\ over' = over \ {t}

Receipt == hand' = Nobody /\ receipts' = receipts \cup {hand.key}
Raises == hand' = Nobody /\ receipts' = receipts

(* _send_task: a queued task takes the words into its instruction, a       *)
(* running one gets a message, which the worker may refuse; a task that    *)
(* has ended meanwhile has no run to send to.                              *)
Send(t) ==
  /\ hand.act \in {"send", "query"}
  /\ t \in hand.left
  /\ Touched(t)
  /\ \/ tasks[t].status = "queued" /\ hand.act = "send" /\ Receipt
     \/ tasks[t].status = "running" /\ Receipt
     \/ tasks[t].status # "queued" /\ Raises
  /\ UNCHANGED <<tasks, undelivered, standing>>

(* _cancel_task, for one task or for each active one in turn.              *)
Cancel(t) ==
  LET rest == hand.left \ {t}
      next == IF rest = {} THEN Receipt
              ELSE hand' = [hand EXCEPT !.left = rest] /\ receipts' = receipts
  IN /\ hand.act \in {"cancel", "all"}
     /\ t \in hand.left
     /\ \A u \in rest : t < u
     /\ \/ ~Live(t) /\ next /\ UNCHANGED <<tasks, ended, late, over, undelivered>>
        \/ Live(t) /\ next /\ Ends(t)
        \/ /\ tasks[t].status = "running"
           /\ next \/ Raises
           /\ UNCHANGED <<tasks, ended, late, over, undelivered>>
     /\ standing' = standing

(* A reply or a decision: the turn is linked to the task, and the answer   *)
(* is taken or comes too late.  A decision for the session stands.         *)
Answer(t) ==
  LET kind == IF hand.act = "reply" THEN "q" ELSE "p" IN
  /\ hand.act \in {"reply"} \cup Decisions
  /\ t \in hand.left
  /\ Touched(t)
  /\ \/ /\ tasks[t][kind] > 0
        /\ tasks' = [tasks EXCEPT ![t][kind] = @ - 1]
        /\ standing' = CASE hand.act = "allow_session" -> TRUE
                         [] hand.act = "deny" -> FALSE
                         [] OTHER -> standing
     \/ UNCHANGED <<tasks, standing>>
  /\ Receipt
  /\ undelivered' = undelivered

Proceed ==
  /\ hand # Nobody
  /\ \E t \in hand.left : Send(t) \/ Cancel(t) \/ Answer(t)

-----------------------------------------------------------------------------
(* Workers, deliveries and time *)

Start(t) ==
  /\ tasks[t].status = "queued"
  /\ tasks' = [tasks EXCEPT ![t].status = "running"]
  /\ UNCHANGED <<ended, late, over, undelivered, receipts, hand, standing>>

(* A worker asks the user; authorize raises no permission for a side query *)
(* (denied) nor under a standing grant (allowed).                          *)
Ask(t, kind) ==
  /\ tasks[t].status = "running"
  /\ tasks[t].q + tasks[t].p < MaxAsks
  /\ kind = "p" => Main(t) /\ ~standing
  /\ tasks' = [tasks EXCEPT ![t][kind] = @ + 1]
  /\ UNCHANGED <<ended, late, over, undelivered, receipts, hand, standing>>

Finish(t) ==
  /\ tasks[t].status = "running"
  /\ Ends(t)
  /\ UNCHANGED <<receipts, hand, standing>>

Delivered(t) ==
  /\ t \in undelivered
  /\ undelivered' = undelivered \ {t}
  /\ UNCHANGED <<tasks, ended, late, over, receipts, hand, standing>>

(* Time passes: the oldest finished task still in the window leaves it, or *)
(* the oldest one still within its TTL, out of the window, exceeds it.     *)
Oldest(done) ==
  {t \in ToSet(ended) \ done : \A u \in ToSet(ended) : Before(ended, u, t) => u \in done}

Age ==
  /\ \/ /\ \E t \in Oldest(late) : late' = late \cup {t}
        /\ over' = over
     \/ /\ \E t \in Oldest(over) \cap late : over' = over \cup {t}
        /\ late' = late
  /\ UNCHANGED <<tasks, ended, undelivered, receipts, hand, standing>>

Next ==
  \/ Turn \/ Proceed \/ Age
  \/ \E tool \in Tools : \E ref \in Refs(tool) : Call(tool, ref)
  \/ \E t \in Ids : Start(t) \/ Finish(t) \/ Delivered(t) \/ Ask(t, "q") \/ Ask(t, "p")

Spec == Init /\ [][Next]_controlVars

TypeOK ==
  /\ \A t \in Ids : tasks[t].q + tasks[t].p <= MaxAsks
  /\ ToSet(ended) = {t \in Ids : tasks[t].status = "ended"}
  /\ over \subseteq late /\ late \subseteq ToSet(ended)
=============================================================================
