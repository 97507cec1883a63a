------------------------------ MODULE TaskCalls ------------------------------
(***************************************************************************)
(* The tool calls of the speaking model: DuplexLiveSession (one call may   *)
(* be outstanding, its answer enters with the next unit of input), the     *)
(* coordinator that binds a call to the user's final turn, buffers a call  *)
(* that arrives before its turn, and answers each call through             *)
(* feed_tool_response (TaskToolsRealtimeCoordinator), and the receive loop *)
(* of the connection that drives both.  A connection that dies is parked   *)
(* and resumed (DuplexSession); here it takes an event with it.            *)
(*                                                                         *)
(* Two threads meet here.  The model's thread runs a step or takes an      *)
(* answer, one at a time (the RLock of GanderDuplexSession).  Whatever it  *)
(* finishes is posted to the event loop, which runs the continuations in   *)
(* the order of posting.  A tool call is known by its number; what it asks *)
(* for is the length of its batch, and "refused" stands for every call     *)
(* that is answered with an error at once: malformed, mixed with an        *)
(* external tool, invalid arguments, too many calls.                       *)
(***************************************************************************)
EXTENDS CallPromise, Naturals, FiniteSets, Sequences, SequencesExt

CONSTANTS MaxCalls,     \* tool units the model generates
          MaxTurns,     \* final turns the client reports
          MaxRaises,    \* times the gateway raises in a handler
          MaxUnfit,     \* answers over max_tool_response_tokens
          Grace         \* turn_bind_grace_sec # 0

(* Assumed by the module that instantiates this one.                       *)
TaskCallsAssumption ==
  /\ {MaxCalls, MaxTurns, MaxRaises, MaxUnfit} \subseteq Nat
  /\ Grace \in BOOLEAN

(* What a unit with tool calls asks for, and what a unit may be.           *)
Shapes == {"one", "two", "refused", "external"}
Units == {"listen", "end"} \cup Shapes
Batch == [one |-> 1, two |-> 2]
Task(shape) == shape \in DOMAIN Batch

VARIABLES posted,    \* continuations posted to the event loop, oldest first
          recv,      \* what the receive loop awaits
          control,   \* _control_pending
          buffered,  \* _pending_task_calls
          nonce,     \* _pending_task_nonce
          recovering,\* _recovering_tool_error
          external,  \* _external_tool_pending
          latest,    \* _latest_turn; turns are numbered from 1
          consumed,  \* _consumed_turns
          shape,     \* the shape of each call made so far
          lost,      \* calls whose event died with the socket
          raises, unfit

callVars == <<live, posted, recv, control, buffered, nonce, recovering, external,
              latest, consumed, jobs, shape, served, lost, raises, unfit>>

Init ==
  /\ live = [open |-> 0, queue |-> <<>>]
  /\ posted = <<>>
  /\ recv = "idle"
  /\ control = FALSE
  /\ buffered = 0
  /\ nonce = 0
  /\ recovering = FALSE
  /\ external = 0
  /\ latest = 0
  /\ consumed = {}
  /\ jobs = {}
  /\ shape = <<>>
  /\ served = {}
  /\ lost = {}
  /\ raises = 0
  /\ unfit = 0

Job(call, turn, pc) ==
  [call |-> call, turn |-> turn, pc |-> pc, todo |-> 0, nonce |-> 0]

Moved(j, to) == (jobs \ {j}) \cup {to}

-----------------------------------------------------------------------------
(* The model's thread *)

(* One unit of input: the oldest queued answer goes in with it, and the    *)
(* model listens, speaks, ends its turn or calls tools.  A call made while *)
(* another is open gets an error and no answer is expected for it.         *)
Step ==
  /\ recv = "idle"
  /\ \E out \in Units :
       LET tool == out \in Shapes
           call == Len(shape) + 1
           expected == tool /\ live.open = 0
       IN /\ tool => Len(shape) < MaxCalls
          /\ shape' = IF tool THEN Append(shape, out) ELSE shape
          /\ live' = [open |-> IF expected THEN call ELSE live.open,
                      queue |-> IF live.queue = <<>> THEN <<>> ELSE Tail(live.queue)]
          /\ posted' = Append(posted, [is |-> out, call |-> IF expected THEN call ELSE 0])
          /\ recv' = "step"
          /\ UNCHANGED <<control, buffered, nonce, recovering, external, latest,
                         consumed, jobs, served, lost, raises, unfit>>

(* feed_tool_response on the model's thread: the answer is queued and the  *)
(* call closed, or the session refuses it: nothing is open, or the answer  *)
(* is over the token limit.                                                *)
Fed(call, from) ==
  \/ /\ live.open # 0
     /\ live' = [open |-> 0, queue |-> Append(live.queue, call)]
     /\ posted' = Append(posted, [is |-> "fed", job |-> from])
     /\ unfit' = unfit
  \/ /\ live.open # 0 => unfit < MaxUnfit
     /\ unfit' = IF live.open # 0 THEN unfit + 1 ELSE unfit
     /\ live' = live
     /\ posted' = Append(posted, [is |-> "raised", job |-> from])

Feed(j) ==
  /\ j.pc \in {"feed", "excuse"}
  /\ LET waits == [j EXCEPT !.pc = IF j.pc = "feed" THEN "answering" ELSE "excusing"]
     IN /\ Fed(j.call, waits)
        /\ jobs' = Moved(j, waits)
  /\ UNCHANGED <<recv, control, buffered, nonce, recovering, external, latest,
                 consumed, shape, served, lost, raises>>

-----------------------------------------------------------------------------
(* The event loop *)

Spawn(j) == jobs' = jobs \cup {j}
Keep == UNCHANGED <<control, buffered, nonce>>

(* A tool call that concerns tasks: refused while another is in hand;      *)
(* buffered when no fresh turn is known; else handled with that turn.      *)
Bound(call) ==
  LET fresh == latest # 0 /\ latest \notin consumed IN
  IF control \/ (~fresh /\ ~Grace)
  THEN Spawn(Job(call, 0, "error")) /\ Keep
  ELSE /\ control' = TRUE
       /\ IF fresh
          THEN /\ Spawn([Job(call, latest, "handle") EXCEPT !.todo = Batch[shape[call]]])
               /\ UNCHANGED <<buffered, nonce>>
          ELSE /\ buffered' = call
               /\ nonce' = nonce + 1
               /\ Spawn([Job(call, 0, "sleep") EXCEPT !.nonce = nonce + 1])

(* observe_frontbrain, after the event was sent to the client.  A spoken   *)
(* turn that ends uses up the latest turn.                                 *)
Observe(e) ==
  /\ recv' = "idle"
  /\ consumed' = IF e.is = "end" /\ latest # 0 THEN consumed \cup {latest} ELSE consumed
  /\ IF e.call = 0
     THEN jobs' = jobs /\ external' = external /\ Keep
     ELSE \/ /\ Task(shape[e.call])
             /\ Bound(e.call)
             /\ external' = external
          \/ /\ shape[e.call] = "refused"
             /\ Spawn(Job(e.call, 0, "error"))
             /\ external' = external /\ Keep
          \/ /\ shape[e.call] = "external"
             /\ external' = IF external = 0 THEN e.call ELSE external
             /\ IF external = 0 THEN jobs' = jobs ELSE Spawn(Job(e.call, 0, "error"))
             /\ Keep
  /\ UNCHANGED <<recovering, served>>

(* A job that ends lets the next task call in.  An error that answers a    *)
(* task call only ends the job that holds control.                         *)
Ends(j) ==
  /\ jobs' = jobs \ {j}
  /\ control' = IF j.nonce # 0 \/ j.turn # 0 THEN FALSE ELSE control

(* Mutant: _recovering_tool_error is not reset.                            *)
ResumeRecovering(e) ==
  LET j == e.job IN
  /\ IF j.pc = "answering" /\ e.is = "raised"
     THEN jobs' = Moved(j, [j EXCEPT !.pc = "error"]) /\ control' = control
     ELSE Ends(j)
  /\ UNCHANGED <<recv, consumed, external, buffered, nonce, recovering, served>>

(* The answer went in, or the session raised: a batch then tries to say    *)
(* so; an error that cannot be said either is left to the client.          *)
Resume(e) ==
  LET j == e.job IN
  /\ IF j.pc = "answering" /\ e.is = "raised"
     THEN jobs' = Moved(j, [j EXCEPT !.pc = "error"]) /\ control' = control
     ELSE Ends(j)
  /\ recovering' = IF j.pc = "excusing" THEN FALSE ELSE recovering
  /\ UNCHANGED <<recv, consumed, external, buffered, nonce, served>>

(* The client's answer to its own tool: a refused one may be sent again.   *)
Injected(e) ==
  /\ recv' = "idle"
  /\ external' = IF e.is = "fed" THEN 0 ELSE external
  /\ UNCHANGED <<control, buffered, nonce, recovering, consumed, jobs, served>>

Loop ==
  /\ posted # <<>>
  /\ posted' = Tail(posted)
  /\ LET e == Head(posted) IN
       IF e.is \in {"fed", "raised"}
       THEN IF e.job.pc = "inject" THEN Injected(e) ELSE Resume(e)
       ELSE Observe(e)
  /\ UNCHANGED <<live, latest, shape, lost, raises, unfit>>

(* The socket dies before the event is sent: emit_model_event raises before *)
(* observe_frontbrain, the receive loop ends and the session is parked.  A *)
(* resumed connection starts a new loop over the same model session, where *)
(* the call of the event is open and known to nobody.                      *)
Lose ==
  /\ posted # <<>>
  /\ LET e == Head(posted) IN
       /\ e.is \in Units
       /\ lost' = lost \cup ({e.call} \ {0})
  /\ posted' = Tail(posted)
  /\ recv' = "idle"
  /\ UNCHANGED <<live, control, buffered, nonce, recovering, external, latest,
                 consumed, jobs, shape, served, raises, unfit>>

(* A buffered call is handled with the turn that has come.                 *)
BindLate(turn) ==
  IF buffered = 0
  THEN UNCHANGED <<buffered, nonce, jobs>>
  ELSE /\ buffered' = 0
       /\ nonce' = nonce + 1
       /\ Spawn([Job(buffered, turn, "handle") EXCEPT !.todo = Batch[shape[buffered]]])

(* bind_final_turn from the client: a new turn becomes the latest.  (A     *)
(* turn reported again changes nothing.)                                   *)
Bind ==
  /\ recv = "idle"
  /\ latest < MaxTurns
  /\ latest' = latest + 1
  /\ BindLate(latest + 1)
  /\ UNCHANGED <<live, posted, recv, control, recovering, external, consumed, shape,
                 served, lost, raises, unfit>>

(* The client answers an external tool; the receive loop awaits the feed.  *)
Inject ==
  /\ recv = "idle"
  /\ external # 0
  /\ recv' = "inject"
  /\ Fed(external, Job(external, 0, "inject"))
  /\ UNCHANGED <<control, buffered, nonce, recovering, external, latest, consumed, jobs,
                 shape, served, lost, raises>>

(* One call of a batch returns from the gateway.  The turn is used up when *)
(* the last one does; a handler that raises leaves it, and the batch is    *)
(* answered with an error.                                                 *)
Handle(j) ==
  /\ j.pc = "handle"
  /\ \/ /\ j.todo > 1
        /\ jobs' = Moved(j, [j EXCEPT !.todo = j.todo - 1])
        /\ UNCHANGED <<consumed, served, raises>>
     \/ /\ j.todo = 1
        /\ jobs' = Moved(j, [j EXCEPT !.todo = 0, !.pc = "feed"])
        /\ consumed' = consumed \cup {j.turn}
        /\ served' = served \cup {<<j.turn, j.call>>}
        /\ raises' = raises
     \/ /\ raises < MaxRaises
        /\ raises' = raises + 1
        /\ jobs' = Moved(j, [j EXCEPT !.todo = 0, !.pc = "error"])
        /\ UNCHANGED <<consumed, served>>
  /\ UNCHANGED <<live, posted, recv, control, buffered, nonce, recovering, external,
                 latest, shape, lost, unfit>>

(* Mutant: the expiry does not look at the nonce.                          *)
ExpireBlind(j) ==
  /\ j.pc = "sleep"
  /\ buffered' = 0
  /\ nonce' = nonce + 1
  /\ jobs' = Moved(j, [j EXCEPT !.pc = "error"])
  /\ UNCHANGED <<live, posted, recv, control, recovering, external, latest, consumed,
                 shape, served, lost, raises, unfit>>

(* The grace for the turn is over: the buffered call is answered with an   *)
(* error, unless its turn came first (another nonce).                      *)
Expire(j) ==
  /\ j.pc = "sleep"
  /\ IF j.nonce # nonce \/ buffered = 0
     THEN jobs' = jobs \ {j} /\ UNCHANGED <<buffered, nonce>>
     ELSE /\ buffered' = 0
          /\ nonce' = nonce + 1
          /\ jobs' = Moved(j, [j EXCEPT !.pc = "error"])
  /\ UNCHANGED <<live, posted, recv, control, recovering, external, latest, consumed,
                 shape, served, lost, raises, unfit>>

(* _deliver_tool_error: one at a time; a second one is only reported.      *)
Excuse(j) ==
  /\ j.pc = "error"
  /\ IF recovering
     THEN Ends(j) /\ recovering' = recovering
     ELSE /\ recovering' = TRUE
          /\ jobs' = Moved(j, [j EXCEPT !.pc = "excuse"])
          /\ control' = control
  /\ UNCHANGED <<live, posted, recv, buffered, nonce, external, latest, consumed, shape,
                 served, lost, raises, unfit>>

Next ==
  \/ Step \/ Loop \/ Lose \/ Bind \/ Inject
  \/ \E j \in jobs : Feed(j) \/ Handle(j) \/ Expire(j) \/ Excuse(j)

Spec == Init /\ [][Next]_callVars

(* The event loop runs what is posted, a thread pool call returns, the     *)
(* gateway answers (its calls are bounded by timeouts) and a sleep ends.   *)
(* Nothing is assumed of the client, of its socket or of the model.        *)
Fairness ==
  /\ WF_callVars(Loop)
  /\ WF_callVars(\E j \in jobs : Feed(j))
  /\ WF_callVars(\E j \in jobs : Handle(j))
  /\ WF_callVars(\E j \in jobs : Expire(j))
  /\ WF_callVars(\E j \in jobs : Excuse(j))

-----------------------------------------------------------------------------
(* Properties *)

TypeOK ==
  /\ live.open \in 0..MaxCalls
  /\ live.queue \in Seq(1..MaxCalls)
  /\ recv \in {"idle", "step", "inject"}
  /\ control \in BOOLEAN /\ recovering \in BOOLEAN
  /\ {buffered, external} \subseteq 0..MaxCalls
  /\ latest \in 0..MaxTurns /\ consumed \subseteq 1..MaxTurns
  /\ lost \subseteq 1..MaxCalls
  /\ \A j \in jobs : j.call \in 1..MaxCalls /\ j.turn \in 0..MaxTurns

(* A call of the model that reached the coordinator is answered, whatever  *)
(* fails on the way: with its result or an error.  A call for an external  *)
(* tool waits for the client, an answer over the token limit may leave its *)
(* call open, and so does a socket that died with the event of the call.   *)
CallsAnswered ==
  \A c \in 1..MaxCalls :
    (live.open = c) ~> (live.open # c \/ external = c \/ c \in lost \/ unfit > 0)
=============================================================================
