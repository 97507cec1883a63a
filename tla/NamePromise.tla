----------------------------- MODULE NamePromise -----------------------------
(***************************************************************************)
(* Which of an owner's tasks the speaking model can name, what a name      *)
(* refers to, and what the gateway promises of both; with the part of the  *)
(* state this speaks of.  TaskControl says how these variables change.     *)
(***************************************************************************)
EXTENDS Naturals, FiniteSets, Sequences, SequencesExt, SeqOrder

CONSTANT MaxTerminal  \* max_terminal_tasks_per_owner

VARIABLES tasks,     \* every task record
          ended,     \* finished tasks still in the ledger, oldest update first
          late,      \* those out of the reference window
          undelivered \* tasks with a pending or claimed delivery

NoName == <<>>          \* a reference left out

Ids == DOMAIN tasks
Live(t) == tasks[t].status \in {"queued", "running"}
Main(t) == tasks[t].kind = "main"

(* Tasks a side query of which still runs.                                 *)
Asked(t) == \E c \in Ids : tasks[c].parent = t /\ Live(c)

Active == {t \in Ids : Main(t) /\ Live(t)}

(* Those of S that were updated after t.                                   *)
Newer(kept, S, t) == {u \in S : Before(kept, t, u)}

(* recent_terminal_tasks: within the window or with a live side query, the *)
(* newest MaxTerminal of them.                                             *)
Recent(kept) ==
  LET shown == {t \in ToSet(kept) : Main(t) /\ (t \notin late \/ Asked(t))}
  IN {t \in shown : Cardinality(Newer(kept, shown, t)) < MaxTerminal}

InView == Active \cup Recent(ended)

(* resolve_target: an active task of that name, else a recent one; with no *)
(* name, the only active task.                                             *)
Pool(kept, ref) ==
  LET act == IF ref = NoName THEN Active ELSE {t \in Active : tasks[t].name = ref}
  IN IF act # {} \/ ref = NoName THEN act
     ELSE {t \in Recent(kept) : tasks[t].name = ref}

-----------------------------------------------------------------------------
(* The promises *)

(* A finished task stays in the ledger while somebody still needs it: its  *)
(* delivery has not been made, or a side query of it is running            *)
(* (supervision.py:705-761).                                               *)
NeededKept ==
  \A t \in Ids :
    t \in undelivered \/ Asked(t) => tasks[t].status # "gone"

(* A name that two tasks bear because the older one was out of view when   *)
(* the younger was named: only a side query can bring the older one back.  *)
Borne(n) == \E u \in InView : tasks[u].name = n /\ u \in late /\ Asked(u)

(* A name the user has heard keeps its meaning: while the task it resolves *)
(* to can be named, it resolves to that task, whatever else is created,    *)
(* finishes, ages or is pruned (tool_protocol.py:21-47), unless a side     *)
(* query brings a namesake back.                                           *)
Refers(n, t) == Pool(ended, n) = {t}

NamesStick ==
  [][\A t \in InView \cap InView' :
       Refers(tasks[t].name, t) => \/ Refers(tasks[t].name, t)'
                                   \/ Borne(tasks[t].name)']_<<tasks, ended, late>>
=============================================================================
