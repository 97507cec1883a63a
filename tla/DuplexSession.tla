---------------------------- MODULE DuplexSession ----------------------------
(***************************************************************************)
(* The life of a duplex session: the websocket handler of                  *)
(* create_online_duplex_app, the grace timers that hold a session whose    *)
(* socket dropped, and the clean-up of a model open whose client left.     *)
(*                                                                         *)
(* A connection is a websocket handler; a session (_ActiveSession) is      *)
(* named after the connection that opened it, and so are the resumed       *)
(* events and the grace timers after the connection that parked.  A step   *)
(* is the code between two awaits.                                         *)
(***************************************************************************)
CONSTANTS Conns,       \* connections clients make
          Nobody,
          Ids,         \* session ids
          SessionId    \* Conns -> Ids: the id a connection asks for

ASSUME NobodyAssumption == Nobody \notin Conns
ASSUME IdsAssumption == SessionId \in [Conns -> Ids]

VARIABLES
    lock,       \* runtime.model_lock, and the session it was acquired for
    sessions,   \* runtime.sessions
    thinker,    \* the model session of an _ActiveSession
    active,     \* its flags, its coordinator and its resumed event
    fired,      \* the resumed events that are set
    handler,    \* the handler of a connection and its local `active`
    timer       \* expire_reconnect_grace, started by a connection's end

vars == <<lock, sessions, thinker, active, fired, handler, timer>>

MaybeConn == Conns \cup {Nobody}
HandlerPc == {"new", "resuming", "opening", "building", "serving", "draining",
              "detaching", "stopping", "abandoned", "closing", "gone"}
TimerPc == {"none", "detaching", "waiting", "expired", "stopping", "closing",
            "gone"}

\* Every variable keeps its type.
TypeOK ==
    /\ lock \in MaybeConn
    /\ sessions \in [Ids -> MaybeConn]
    /\ thinker \in [Conns -> {"none", "opening", "open", "closed"}]
    /\ active \in [Conns -> [attached : BOOLEAN, stopped : BOOLEAN,
                             released : BOOLEAN, ended : BOOLEAN,
                             coordinator : {"none", "building", "up", "closed"},
                             announced : BOOLEAN, resumed : MaybeConn]]
    /\ fired \subseteq Conns
    /\ handler \in [Conns -> [pc : HandlerPc, of : MaybeConn]]
    /\ timer \in [Conns -> [pc : TimerPc, of : MaybeConn, on : MaybeConn]]

Init ==
    /\ lock = Nobody
    /\ sessions = [i \in Ids |-> Nobody]
    /\ thinker = [c \in Conns |-> "none"]
    /\ active = [c \in Conns |->
                    [attached |-> TRUE, stopped |-> FALSE, released |-> FALSE,
                     ended |-> FALSE, coordinator |-> "none",
                     announced |-> FALSE, resumed |-> Nobody]]
    /\ fired = {}
    /\ handler = [c \in Conns |-> [pc |-> "new", of |-> Nobody]]
    /\ timer = [c \in Conns |-> [pc |-> "none", of |-> Nobody, on |-> Nobody]]

-----------------------------------------------------------------------------
(* Helpers *)

Goto(c, p) == handler' = [handler EXCEPT ![c].pc = p]
Ticks(c, p) == timer' = [timer EXCEPT ![c].pc = p]

\* Mutant: the slot is released by whoever gets there, again and again.
FreeAgain(s) ==
    /\ thinker' = [thinker EXCEPT ![s] = "closed"]
    /\ active' = [active EXCEPT ![s].released = TRUE]
    /\ lock' = Nobody

\* The Thinker is closed and the slot released, unless that was done: neither
\* call suspends.
Free(s) ==
    /\ thinker' = [thinker EXCEPT ![s] = "closed"]
    /\ active' = [active EXCEPT ![s].released = TRUE]
    /\ lock' = IF active[s].released THEN lock ELSE Nobody

\* The session leaves runtime.sessions and /ws/screen learns that it is over.
Unlisted(s) ==
    /\ sessions' = [i \in Ids |-> IF sessions[i] = s THEN Nobody ELSE sessions[i]]
    /\ active' = [active EXCEPT ![s].ended = TRUE]

-----------------------------------------------------------------------------
(* A connection arrives *)

\* The session a client with its token may take over.
Resumable(s, token) == /\ s # Nobody
                       /\ ~active[s].attached
                       /\ ~active[s].stopped
                       /\ token

\* Refused while the model is taken; otherwise the slot is acquired and the
\* Thinker is built on a worker thread.
Admit(c) ==
    IF lock # Nobody
    THEN Goto(c, "gone") /\ UNCHANGED <<lock, thinker>>
    ELSE /\ lock' = c
         /\ Goto(c, "opening")
         /\ thinker' = [thinker EXCEPT ![c] = "opening"]

\* The decision to resume is taken here, and carried out by the first step of
\* run_startup.  Only who was sent `ready` knows the token.
Connect(c) ==
    /\ handler[c].pc = "new"
    /\ LET s == sessions[SessionId[c]] IN
       \E token \in BOOLEAN :
          /\ token => s # Nobody /\ active[s].announced
          /\ IF Resumable(s, token)
             THEN /\ handler' = [handler EXCEPT ![c] =
                                    [pc |-> "resuming", of |-> s]]
                  /\ UNCHANGED <<lock, thinker>>
             ELSE Admit(c)
    /\ UNCHANGED <<sessions, active, fired, timer>>

\* The resumed session is attached and its grace timers are told.
Attach(c) ==
    /\ handler[c].pc = "resuming"
    /\ active' = [active EXCEPT ![handler[c].of].attached = TRUE]
    /\ fired' = fired \cup {active[handler[c].of].resumed}
    /\ Goto(c, "serving")
    /\ UNCHANGED <<lock, sessions, thinker, timer>>

-----------------------------------------------------------------------------
(* A session starts *)

\* The Thinker is there: the session is listed and its coordinator is built,
\* which awaits the recovery of its gateway.
Opened(c) ==
    /\ handler[c].pc = "opening"
    /\ thinker' = [thinker EXCEPT ![c] = "open"]
    /\ sessions' = [sessions EXCEPT ![SessionId[c]] = c]
    /\ active' = [active EXCEPT ![c].coordinator = "building"]
    /\ handler' = [handler EXCEPT ![c] = [pc |-> "building", of |-> c]]
    /\ UNCHANGED <<lock, fired, timer>>

\* The coordinator runs, and `ready` carries the resume token.
Ready(c) ==
    /\ handler[c].pc = "building"
    /\ active' = [active EXCEPT ![c].coordinator = "up", ![c].announced = TRUE]
    /\ Goto(c, "serving")
    /\ UNCHANGED <<lock, sessions, thinker, fired, timer>>

\* Mutant: the slot is given back while the Thinker is still being built.
AbandonEarly(c) ==
    /\ handler[c].pc = "opening"
    /\ Goto(c, "abandoned")
    /\ active' = [active EXCEPT ![c].released = TRUE]
    /\ lock' = Nobody
    /\ UNCHANGED <<sessions, thinker, fired, timer>>

\* The client leaves, floods or the open raises while the Thinker is built:
\* the worker thread is not reached, a task waits for its result.
Abandon(c) ==
    /\ handler[c].pc = "opening"
    /\ Goto(c, "abandoned")
    /\ UNCHANGED <<lock, sessions, thinker, active, fired, timer>>

\* Mutant: the task closes the orphan and keeps the slot.
CloseAbandonedHolds(c) ==
    /\ handler[c].pc = "abandoned"
    /\ thinker' = [thinker EXCEPT ![c] = "closed"]
    /\ Goto(c, "gone")
    /\ UNCHANGED <<lock, sessions, active, fired, timer>>

\* close_abandoned_open
CloseAbandoned(c) ==
    /\ handler[c].pc = "abandoned"
    /\ Free(c)
    /\ Goto(c, "gone")
    /\ UNCHANGED <<sessions, fired, timer>>

-----------------------------------------------------------------------------
(* A connection ends *)

\* Mutant: the parked session keeps the resumed event of its last resume.
ParkOnOldEvent(c, s) ==
    /\ active' = [active EXCEPT ![s].attached = FALSE]
    /\ timer' = [timer EXCEPT ![c] = [pc |-> "detaching", of |-> s,
                                      on |-> Nobody]]
    /\ Goto(c, "gone")

\* The session is held for its client with a fresh event and a timer.
Park(c, s) ==
    /\ active' = [active EXCEPT ![s].attached = FALSE, ![s].resumed = c]
    /\ timer' = [timer EXCEPT ![c] = [pc |-> "detaching", of |-> s,
                                      on |-> Nobody]]
    /\ Goto(c, "gone")

Parkable(s) == ~active[s].stopped /\ sessions[SessionId[s]] = s

\* The socket drops, in the startup after the Thinker is there, in service, or
\* while a Stop drains.
Drop(c) ==
    /\ handler[c].pc \in {"building", "serving", "draining"}
    /\ IF Parkable(handler[c].of)
       THEN Park(c, handler[c].of)
       ELSE Goto(c, "detaching") /\ UNCHANGED <<active, timer>>
    /\ UNCHANGED <<lock, sessions, thinker, fired>>

\* An exception, a flood or the cancellation of the handler: never parked.
Fail(c) ==
    /\ handler[c].pc \in {"building", "serving", "draining"}
    /\ Goto(c, "detaching")
    /\ UNCHANGED <<lock, sessions, thinker, active, fired, timer>>

\* A Stop is marked at once; _drain then speaks what is left and closes the
\* Thinker.
Stop(c) ==
    /\ handler[c].pc = "serving"
    /\ active' = [active EXCEPT ![handler[c].of].stopped = TRUE]
    /\ Goto(c, "draining")
    /\ UNCHANGED <<lock, sessions, thinker, fired, timer>>

Drained(c) ==
    /\ handler[c].pc = "draining"
    /\ thinker' = [thinker EXCEPT ![handler[c].of] = "closed"]
    /\ Goto(c, "detaching")
    /\ UNCHANGED <<lock, sessions, active, fired, timer>>

\* detach_connection returned: unlisted, and stop_model_jobs is awaited.
Detached(c) ==
    /\ handler[c].pc = "detaching"
    /\ Unlisted(handler[c].of)
    /\ Goto(c, "stopping")
    /\ UNCHANGED <<lock, thinker, fired, timer>>

\* However that ended, returned, raised or cancelled, even before the session
\* was unlisted: the Thinker is closed and the slot is free.
Freed(c) ==
    /\ handler[c].pc \in {"detaching", "stopping"}
    /\ Free(handler[c].of)
    /\ Goto(c, "closing")
    /\ UNCHANGED <<sessions, fired, timer>>

\* What coordinator.close leaves; one that was never built is not closed.
Closed(s) == IF active[s].coordinator = "up"
             THEN active' = [active EXCEPT ![s].coordinator = "closed"]
             ELSE UNCHANGED active

Leave(c) ==
    /\ handler[c].pc = "closing"
    /\ Closed(handler[c].of)
    /\ Goto(c, "gone")
    /\ UNCHANGED <<lock, sessions, thinker, fired, timer>>

-----------------------------------------------------------------------------
(* expire_reconnect_grace *)

\* detach_connection returned: the timer waits for the event the session has
\* by then.
GraceDetached(c) ==
    /\ timer[c].pc = "detaching"
    /\ timer' = [timer EXCEPT ![c].pc = "waiting",
                              ![c].on = active[timer[c].of].resumed]
    /\ UNCHANGED <<lock, sessions, thinker, active, fired, handler>>

GraceResumed(c) ==
    /\ timer[c].pc = "waiting"
    /\ timer[c].on \in fired
    /\ Ticks(c, "gone")
    /\ UNCHANGED <<lock, sessions, thinker, active, fired, handler>>

\* wait_for times out; the timer's task runs a little later.
GraceTimeout(c) ==
    /\ timer[c].pc = "waiting"
    /\ timer[c].on \notin fired
    /\ Ticks(c, "expired")
    /\ UNCHANGED <<lock, sessions, thinker, active, fired, handler>>

\* A client re-bound in between, or nobody did.
GraceChecks(c) ==
    /\ timer[c].pc = "expired"
    /\ IF active[timer[c].of].attached
       THEN Ticks(c, "gone") /\ UNCHANGED <<sessions, active>>
       ELSE Unlisted(timer[c].of) /\ Ticks(c, "stopping")
    /\ UNCHANGED <<lock, thinker, fired, handler>>

GraceFrees(c) ==
    /\ timer[c].pc = "stopping"
    /\ Free(timer[c].of)
    /\ Ticks(c, "closing")
    /\ UNCHANGED <<sessions, fired, handler>>

GraceLeaves(c) ==
    /\ timer[c].pc = "closing"
    /\ Closed(timer[c].of)
    /\ Ticks(c, "gone")
    /\ UNCHANGED <<lock, sessions, thinker, fired, handler>>

-----------------------------------------------------------------------------
(* The specification *)

StartupStep(c) == Attach(c) \/ Opened(c) \/ Ready(c) \/ CloseAbandoned(c)
TeardownStep(c) == Drained(c) \/ Detached(c) \/ Freed(c) \/ Leave(c)
GraceStep(c) == \/ GraceDetached(c) \/ GraceResumed(c) \/ GraceTimeout(c)
                \/ GraceChecks(c) \/ GraceFrees(c) \/ GraceLeaves(c)

Next == \E c \in Conns :
            \/ Connect(c) \/ Abandon(c) \/ Drop(c) \/ Fail(c) \/ Stop(c)
            \/ StartupStep(c) \/ TeardownStep(c) \/ GraceStep(c)

Spec == Init /\ [][Next]_vars

\* Coroutines run, a model open ends and a timer fires.  Nothing makes a client
\* connect or leave.
Fairness == \A c \in Conns : /\ WF_vars(StartupStep(c))
                            /\ WF_vars(TeardownStep(c))
                            /\ WF_vars(GraceStep(c))

FairSpec == Spec /\ Fairness

-----------------------------------------------------------------------------
(* Properties *)

\* The Thinker is never built, nor alive, without the slot: two model sessions
\* never share the model.
ThinkerHasSlot ==
    \A s \in Conns : thinker[s] \in {"opening", "open"} => lock = s

Parked(s) == sessions[SessionId[s]] = s /\ ~active[s].attached

\* A timer that will find nobody came back to s.
Watches(c, s) ==
    /\ timer[c].of = s
    /\ \/ timer[c].pc \in {"detaching", "expired"}
       \/ timer[c].pc = "waiting" /\ timer[c].on \notin fired

\* A held session that no handler serves is watched: unless its client comes
\* back some grace timer ends it.  Until then it has its Thinker and the slot.
ParkedIsWatched ==
    \A s \in Conns :
        Parked(s) /\ (\A c \in Conns : handler[c].of = s => handler[c].pc = "gone")
            => /\ \E c \in Conns : Watches(c, s)
               /\ active[s].released \/ (lock = s /\ thinker[s] = "open")

\* A slot that is taken is given back, or serves the client that holds it; no
\* order of drops, stops, failures and timers strands it.
SlotComesBack ==
    lock # Nobody ~> \/ lock = Nobody
                     \/ \E c \in Conns : handler[c] = [pc |-> "serving", of |-> lock]

\* Same Thinker, same coordinator, same model slot: a client that resumed is
\* served by a session that still has them.
ResumedIsWhole ==
    \A c \in Conns :
        handler[c].pc = "serving" /\ ~active[handler[c].of].stopped
            => lock = handler[c].of /\ thinker[handler[c].of] = "open"

Slot == INSTANCE ModelSlot WITH Openers <- Conns, holder <- lock

\* The handlers and timers implement the slot: acquired before a Thinker is
\* built, released by its holder alone and only with the Thinker closed.
KeepsSlot == Slot!Spec
=============================================================================
