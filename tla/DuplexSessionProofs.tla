------------------------- MODULE DuplexSessionProofs -------------------------
(***************************************************************************)
(* Proofs about DuplexSession, for every set of connections and session    *)
(* ids: the Thinker never lives without the slot, and the handlers and     *)
(* grace timers implement ModelSlot; and about Speech, what one session    *)
(* says: no audio is lost on its way, and none of a cancelled turn heard.  *)
(*                                                                         *)
(* That a Thinker has the slot is not inductive: a handler or a timer that *)
(* frees a session must know that it frees that session's own slot.  IInv  *)
(* says so: whoever can name a session (a handler, a timer, the table of   *)
(* sessions) names one that holds the slot or has already released it.     *)
(*                                                                         *)
(* The second part follows a chunk from the worker to the socket: it is in *)
(* the worker's queue, with the pump of the current connection, or in its  *)
(* outbox, until it is heard or a dropped connection loses it.  Nothing    *)
(* of a generation to come is on that way, so a raised floor discards only *)
(* what was cancelled.                                                     *)
(***************************************************************************)
EXTENDS DuplexSession, SpeechPromise, SequenceTheorems, TLAPS

Starting == {"new", "opening", "abandoned"}

Flags == [attached : BOOLEAN, stopped : BOOLEAN, released : BOOLEAN,
          ended : BOOLEAN, coordinator : {"none", "building", "up", "closed"},
          announced : BOOLEAN, resumed : MaybeConn]

\* A session that was opened: it holds the slot or gave it back.
Known(s) == /\ handler[s].pc \notin Starting
            /\ thinker[s] \in {"open", "closed"}
            /\ lock = s \/ active[s].released

\* What a connection's handler relies on where it waits.
HandlerOK(c) ==
    /\ handler[c].pc = "new" => thinker[c] = "none" /\ ~active[c].released
    /\ handler[c].pc \in {"opening", "abandoned"}
         => lock = c /\ thinker[c] = "opening"
    /\ handler[c].pc \in Starting => handler[c].of = Nobody
    /\ handler[c].pc \notin Starting \cup {"gone"} => handler[c].of # Nobody
    /\ handler[c].of # Nobody => Known(handler[c].of)
    /\ handler[c].pc = "resuming" => active[handler[c].of].resumed # Nobody

TimerOK(c) == /\ timer[c].pc # "none" => timer[c].of # Nobody
              /\ timer[c].of # Nobody => Known(timer[c].of)

\* A session's slot: with the Thinker, and never again once released.
SlotOK(s) == /\ thinker[s] \in {"opening", "open"} => lock = s
             /\ active[s].released => thinker[s] = "closed" /\ lock # s
             /\ ~active[s].attached => active[s].resumed # Nobody

ListedOK == \A i \in Ids : sessions[i] # Nobody => Known(sessions[i])

IInv == /\ TypeOK
        /\ \A c \in Conns : HandlerOK(c) /\ TimerOK(c) /\ SlotOK(c)
        /\ ListedOK

USE NobodyAssumption, IdsAssumption

\* Moving a handler or a timer keeps its type.
LEMMA MovesTyped ==
    ASSUME TypeOK, NEW c \in Conns
    PROVE  /\ \A p \in HandlerPc : Goto(c, p) =>
                handler' \in [Conns -> [pc : HandlerPc, of : MaybeConn]]
           /\ \A p \in TimerPc : Ticks(c, p) =>
                timer' \in [Conns -> [pc : TimerPc, of : MaybeConn, on : MaybeConn]]
<1>1. ASSUME NEW p \in HandlerPc, Goto(c, p)
      PROVE  handler' \in [Conns -> [pc : HandlerPc, of : MaybeConn]]
  <2>1. handler \in [Conns -> [pc : HandlerPc, of : MaybeConn]]
    BY DEF TypeOK
  <2> QED BY <1>1, <2>1 DEF Goto
<1>2. ASSUME NEW p \in TimerPc, Ticks(c, p)
      PROVE  timer' \in [Conns -> [pc : TimerPc, of : MaybeConn, on : MaybeConn]]
  <2>1. timer \in [Conns -> [pc : TimerPc, of : MaybeConn, on : MaybeConn]]
    BY DEF TypeOK
  <2> QED BY <1>2, <2>1 DEF Ticks
<1> QED BY <1>1, <1>2

\* The types of the next state, one variable at a time.
LEMMA NextTyped ==
    ASSUME lock' \in MaybeConn,
           sessions' \in [Ids -> MaybeConn],
           thinker' \in [Conns -> {"none", "opening", "open", "closed"}],
           active' \in [Conns -> Flags],
           fired' \subseteq Conns,
           handler' \in [Conns -> [pc : HandlerPc, of : MaybeConn]],
           timer' \in [Conns -> [pc : TimerPc, of : MaybeConn, on : MaybeConn]]
    PROVE  TypeOK'
BY DEF TypeOK, Flags, MaybeConn, HandlerPc, TimerPc

-----------------------------------------------------------------------------

\* The server starts without a session.
LEMMA InitIInv == Init => IInv
BY DEF Init, IInv, TypeOK, HandlerOK, TimerOK, SlotOK, ListedOK, Known,
       Starting, MaybeConn, HandlerPc, TimerPc

\* A connection arrives: refused, admitted with the free slot, or resuming a
\* session of the table.
LEMMA ConnectSafe ==
    ASSUME IInv, NEW c \in Conns, Connect(c)
    PROVE  IInv'
<1> USE DEF Starting, MaybeConn, HandlerPc, TimerPc
<1>0. /\ handler[c].pc = "new" /\ handler[c].of = Nobody
      /\ thinker[c] = "none" /\ ~active[c].released
      /\ UNCHANGED <<sessions, active, fired, timer>>
  BY DEF Connect, IInv, HandlerOK
<1>1. CASE Admit(c) /\ lock # Nobody
  <2>1. /\ handler' = [handler EXCEPT ![c].pc = "gone"]
        /\ UNCHANGED <<lock, thinker>>
    BY <1>1 DEF Admit, Goto
  <2>2. TypeOK'
    BY <1>0, <2>1 DEF IInv, TypeOK
  <2>3. \A s \in Conns : Known(s) => Known(s)'
    BY <1>0, <2>1 DEF IInv, TypeOK, Known
  <2> QED BY <1>0, <2>1, <2>2, <2>3
          DEF IInv, TypeOK, HandlerOK, TimerOK, SlotOK, ListedOK
<1>2. CASE Admit(c) /\ lock = Nobody
  <2>1. /\ handler' = [handler EXCEPT ![c].pc = "opening"]
        /\ lock' = c /\ thinker' = [thinker EXCEPT ![c] = "opening"]
    BY <1>2 DEF Admit, Goto
  <2>2. TypeOK'
    BY <1>0, <2>1 DEF IInv, TypeOK
  <2>3. \A s \in Conns : Known(s) => Known(s)'
    BY <1>0, <1>2, <2>1 DEF IInv, TypeOK, Known
  <2>4. \A d \in Conns : HandlerOK(d)' /\ TimerOK(d)' /\ SlotOK(d)'
    BY <1>0, <1>2, <2>1, <2>3 DEF IInv, TypeOK, HandlerOK, TimerOK, SlotOK
  <2> QED BY <1>0, <2>2, <2>3, <2>4 DEF IInv, TypeOK, ListedOK
<1>3. CASE /\ sessions[SessionId[c]] # Nobody
           /\ ~active[sessions[SessionId[c]]].attached
           /\ handler' = [handler EXCEPT ![c] =
                    [pc |-> "resuming", of |-> sessions[SessionId[c]]]]
           /\ UNCHANGED <<lock, thinker>>
  <2> DEFINE s == sessions[SessionId[c]]
  <2>1. /\ s \in Conns /\ Known(s) /\ active[s].resumed # Nobody
    BY <1>3 DEF IInv, TypeOK, ListedOK, SlotOK
  <2>2. TypeOK'
    BY <1>0, <1>3, <2>1 DEF IInv, TypeOK
  <2>3. \A d \in Conns : Known(d) => Known(d)'
    BY <1>0, <1>3 DEF IInv, TypeOK, Known
  <2>4. \A d \in Conns : HandlerOK(d)' /\ TimerOK(d)' /\ SlotOK(d)'
    BY <1>0, <1>3, <2>1, <2>3 DEF IInv, TypeOK, HandlerOK, TimerOK, SlotOK
  <2> QED BY <1>0, <2>2, <2>3, <2>4 DEF IInv, TypeOK, ListedOK
<1> QED BY <1>1, <1>2, <1>3 DEF Connect, Resumable

\* The steps of a starting or resuming session.
LEMMA StartupSafe ==
    ASSUME IInv, NEW c \in Conns, Attach(c) \/ Opened(c) \/ Ready(c) \/ Abandon(c)
    PROVE  IInv'
<1> USE DEF Starting, MaybeConn, HandlerPc, TimerPc, Goto
<1>1. CASE Attach(c)
  <2> DEFINE s == handler[c].of
  <2>1. s \in Conns /\ active[s].resumed \in Conns
    BY <1>1 DEF Attach, IInv, TypeOK, HandlerOK
  <2>2. TypeOK'
    <3>1. active' = [active EXCEPT ![s] = [@ EXCEPT !.attached = TRUE]]
      BY <1>1 DEF Attach
    <3>2. active[s] \in Flags
      BY <2>1 DEF IInv, TypeOK, Flags
    <3>3. active' \in [Conns -> Flags]
      BY <2>1, <3>1, <3>2 DEF IInv, TypeOK, Flags
    <3> QED BY <1>1, <2>1, <3>3 DEF Attach, IInv, TypeOK, Flags
  <2>3. \A d \in Conns : Known(d) => Known(d)'
    BY <1>1, <2>1 DEF Attach, IInv, TypeOK, Known
  <2>4. \A d \in Conns : HandlerOK(d)'
    BY <1>1, <2>1, <2>3 DEF Attach, IInv, TypeOK, HandlerOK
  <2>5. \A d \in Conns : TimerOK(d)'
    BY <1>1, <2>3 DEF Attach, IInv, TypeOK, TimerOK
  <2>6. \A d \in Conns : SlotOK(d)'
    BY <1>1, <2>1 DEF Attach, IInv, TypeOK, SlotOK
  <2> QED BY <1>1, <2>2, <2>3, <2>4, <2>5, <2>6
          DEF Attach, IInv, TypeOK, ListedOK
<1>2. CASE Opened(c)
  <2>1. TypeOK'
    BY <1>2 DEF Opened, IInv, TypeOK
  <2>2. Known(c)'
    BY <1>2 DEF Opened, IInv, TypeOK, HandlerOK, Known
  <2>3. \A d \in Conns : Known(d) => Known(d)'
    BY <1>2 DEF Opened, IInv, TypeOK, Known
  <2>4. \A d \in Conns : HandlerOK(d)'
    BY <1>2, <2>2, <2>3 DEF Opened, IInv, TypeOK, HandlerOK
  <2>5. \A d \in Conns : TimerOK(d)'
    BY <1>2, <2>3 DEF Opened, IInv, TypeOK, TimerOK
  <2>6. \A d \in Conns : SlotOK(d)'
    BY <1>2 DEF Opened, IInv, TypeOK, HandlerOK, SlotOK
  <2> QED BY <1>2, <2>1, <2>2, <2>3, <2>4, <2>5, <2>6
          DEF Opened, IInv, TypeOK, ListedOK
<1>3. CASE Ready(c)
  <2>1. TypeOK'
    <3>1. active' = [active EXCEPT ![c] = [@ EXCEPT !.coordinator = "up",
                                                    !.announced = TRUE]]
      BY <1>3 DEF Ready
    <3>2. active[c] \in Flags
      BY DEF IInv, TypeOK, Flags
    <3>3. active' \in [Conns -> Flags]
      BY <3>1, <3>2 DEF IInv, TypeOK, Flags
    <3>4. handler' \in [Conns -> [pc : HandlerPc, of : MaybeConn]]
      BY <1>3, MovesTyped DEF Ready, IInv
    <3> QED BY <1>3, <3>3, <3>4, NextTyped DEF Ready, IInv, TypeOK
  <2>2. \A d \in Conns : Known(d) => Known(d)'
    BY <1>3 DEF Ready, IInv, TypeOK, Known
  <2>3. \A d \in Conns : HandlerOK(d)' /\ TimerOK(d)' /\ SlotOK(d)'
    BY <1>3, <2>2 DEF Ready, IInv, TypeOK, HandlerOK, TimerOK, SlotOK
  <2> QED BY <1>3, <2>1, <2>2, <2>3 DEF Ready, IInv, TypeOK, ListedOK
<1>4. CASE Abandon(c)
  <2>1. TypeOK'
    BY <1>4 DEF Abandon, IInv, TypeOK
  <2>2. \A d \in Conns : Known(d) => Known(d)'
    BY <1>4 DEF Abandon, IInv, TypeOK, Known
  <2>3. \A d \in Conns : HandlerOK(d)' /\ TimerOK(d)' /\ SlotOK(d)'
    BY <1>4, <2>2 DEF Abandon, IInv, TypeOK, HandlerOK, TimerOK, SlotOK
  <2> QED BY <1>4, <2>1, <2>2, <2>3 DEF Abandon, IInv, TypeOK, ListedOK
<1> QED BY <1>1, <1>2, <1>3, <1>4

-----------------------------------------------------------------------------
(* The end of a session *)

\* Freeing a session that holds the slot, or has released it, touches no other
\* session's slot.
LEMMA FreeFacts ==
    ASSUME IInv, NEW s \in Conns, lock = s \/ active[s].released, Free(s)
    PROVE  /\ lock' \in MaybeConn
           /\ thinker' \in [Conns -> {"none", "opening", "open", "closed"}]
           /\ active' \in [Conns -> Flags]
           /\ lock' = IF lock = s THEN Nobody ELSE lock
           /\ thinker'[s] = "closed" /\ active'[s].released
           /\ active'[s].resumed = active[s].resumed
           /\ \A d \in Conns \ {s} : /\ thinker'[d] = thinker[d]
                                     /\ active'[d] = active[d]
           /\ \A d \in Conns : SlotOK(d)'
<1>1. active' = [active EXCEPT ![s] = [@ EXCEPT !.released = TRUE]]
  BY DEF Free
<1>2. active \in [Conns -> Flags] /\ active[s] \in Flags
  BY DEF IInv, TypeOK, Flags
<1>3. active' \in [Conns -> Flags]
  BY <1>1, <1>2 DEF Flags
<1>4. active'[s].released /\ active'[s].resumed = active[s].resumed
      /\ active'[s].attached = active[s].attached
  BY <1>1, <1>2 DEF Flags
<1>5. lock' = IF lock = s THEN Nobody ELSE lock
  BY DEF Free, IInv, SlotOK
<1>6. /\ thinker' \in [Conns -> {"none", "opening", "open", "closed"}]
      /\ thinker'[s] = "closed"
      /\ \A d \in Conns \ {s} : thinker'[d] = thinker[d]
  BY DEF Free, IInv, TypeOK
<1>7. \A d \in Conns \ {s} : active'[d] = active[d]
  BY <1>1, <1>2
<1>8. \A d \in Conns : SlotOK(d)'
  BY <1>4, <1>5, <1>6, <1>7 DEF IInv, SlotOK
<1> QED BY <1>3, <1>4, <1>5, <1>6, <1>7, <1>8 DEF IInv, TypeOK, MaybeConn

\* The orphan of an abandoned open is closed with its own slot.
LEMMA AbandonedSafe ==
    ASSUME IInv, NEW c \in Conns, CloseAbandoned(c)
    PROVE  IInv'
<1> USE DEF Starting, MaybeConn, HandlerPc, TimerPc, Goto
<1>1. /\ handler[c].pc = "abandoned" /\ lock = c /\ Free(c)
      /\ handler[c].of = Nobody
      /\ handler' = [handler EXCEPT ![c].pc = "gone"]
      /\ UNCHANGED <<sessions, fired, timer>>
  BY DEF CloseAbandoned, IInv, HandlerOK
<1>2. TypeOK'
  BY <1>1, FreeFacts DEF IInv, TypeOK, Flags
<1>3. \A d \in Conns : Known(d) => Known(d)'
  BY <1>1, FreeFacts DEF IInv, TypeOK, Known
<1>4. \A d \in Conns : HandlerOK(d)'
  BY <1>1, <1>3, FreeFacts DEF IInv, TypeOK, HandlerOK
<1>5. \A d \in Conns : TimerOK(d)'
  BY <1>1, <1>3 DEF IInv, TypeOK, TimerOK
<1> QED BY <1>1, <1>2, <1>3, <1>4, <1>5, FreeFacts DEF IInv, TypeOK, ListedOK

\* Once the handler or a timer has come to the point, the session is freed.
LEMMA FreedSafe ==
    ASSUME IInv, NEW c \in Conns, Freed(c) \/ GraceFrees(c)
    PROVE  IInv'
<1> USE DEF Starting, MaybeConn, HandlerPc, TimerPc, Goto, Ticks
<1>1. CASE Freed(c)
  <2> DEFINE s == handler[c].of
  <2>1. s \in Conns /\ Known(s) /\ Free(s)
    BY <1>1 DEF Freed, IInv, TypeOK, HandlerOK
  <2>2. TypeOK'
    <3>1. /\ lock' \in MaybeConn /\ active' \in [Conns -> Flags]
          /\ thinker' \in [Conns -> {"none", "opening", "open", "closed"}]
      BY <2>1, FreeFacts DEF Known
    <3>2. handler' \in [Conns -> [pc : HandlerPc, of : MaybeConn]]
      BY <1>1, MovesTyped DEF Freed, IInv
    <3> QED BY <1>1, <3>1, <3>2, NextTyped DEF Freed, IInv, TypeOK
  <2>3. \A d \in Conns : Known(d) => Known(d)'
    BY <1>1, <2>1, FreeFacts DEF Freed, IInv, TypeOK, Known
  <2>4. \A d \in Conns : HandlerOK(d)'
    <3>1. /\ handler'[c].pc = "closing" /\ handler'[c].of = s
          /\ \A d \in Conns \ {c} : handler'[d] = handler[d]
      BY <1>1 DEF Freed, IInv, TypeOK
    <3>2. HandlerOK(c)'
      BY <1>1, <2>1, <2>3, <3>1 DEF HandlerOK
    <3>3. ASSUME NEW d \in Conns \ {c} PROVE HandlerOK(d)'
      <4>1. /\ active'[d].released = active[d].released \/ d = s
            /\ \A x \in Conns : active'[x].resumed = active[x].resumed
        BY <2>1, FreeFacts DEF Known
      <4> QED BY <2>1, <2>3, <3>1, <4>1, FreeFacts DEF IInv, TypeOK, HandlerOK, Known
    <3> QED BY <3>2, <3>3
  <2>5. \A d \in Conns : TimerOK(d)'
    BY <1>1, <2>3 DEF Freed, IInv, TypeOK, TimerOK
  <2> QED BY <1>1, <2>1, <2>2, <2>3, <2>4, <2>5, FreeFacts
          DEF Freed, Known, IInv, TypeOK, ListedOK
<1>2. CASE GraceFrees(c)
  <2> DEFINE s == timer[c].of
  <2>1. s \in Conns /\ Known(s) /\ Free(s)
    BY <1>2 DEF GraceFrees, IInv, TypeOK, TimerOK
  <2>2. TypeOK'
    <3>1. /\ lock' \in MaybeConn /\ active' \in [Conns -> Flags]
          /\ thinker' \in [Conns -> {"none", "opening", "open", "closed"}]
      BY <2>1, FreeFacts DEF Known
    <3>2. timer' \in [Conns -> [pc : TimerPc, of : MaybeConn, on : MaybeConn]]
      BY <1>2, MovesTyped DEF GraceFrees, IInv
    <3> QED BY <1>2, <3>1, <3>2, NextTyped DEF GraceFrees, IInv, TypeOK
  <2>3. \A d \in Conns : Known(d) => Known(d)'
    BY <1>2, <2>1, FreeFacts DEF GraceFrees, IInv, TypeOK, Known
  <2>4. \A d \in Conns : HandlerOK(d)'
    BY <1>2, <2>1, <2>3, FreeFacts DEF GraceFrees, IInv, TypeOK, HandlerOK, Known
  <2>5. \A d \in Conns : TimerOK(d)'
    BY <1>2, <2>3 DEF GraceFrees, IInv, TypeOK, TimerOK
  <2> QED BY <1>2, <2>1, <2>2, <2>3, <2>4, <2>5, FreeFacts
          DEF GraceFrees, Known, IInv, TypeOK, ListedOK
<1> QED BY <1>1, <1>2

\* A step that leaves the slot alone, opens no Thinker and names no session
\* that was not known.
Quiet ==
    /\ lock' = lock
    /\ \A s \in Conns :
        /\ active'[s].released = active[s].released
        /\ ~active'[s].attached => active'[s].resumed # Nobody
        /\ active[s].resumed # Nobody => active'[s].resumed # Nobody
        /\ \/ thinker'[s] = thinker[s]
           \/ thinker[s] \in {"open", "closed"} /\ thinker'[s] = "closed"
    /\ \A c \in Conns :
        \/ handler'[c] = handler[c]
        \/ /\ handler[c].pc \notin Starting \cup {"gone"}
           /\ handler'[c].pc \notin Starting \cup {"resuming"}
           /\ handler'[c].of = handler[c].of
    /\ \A c \in Conns :
        \/ timer'[c].of = timer[c].of /\ (timer'[c].pc # "none" => timer[c].pc # "none")
        \/ timer'[c].of # Nobody /\ Known(timer'[c].of)
    /\ \A i \in Ids : sessions'[i] \in {sessions[i], Nobody}

\* A quiet step keeps the invariant.
LEMMA QuietSafe ==
    ASSUME IInv, TypeOK', Quiet
    PROVE  IInv'
<1>1. \A s \in Conns : Known(s) => Known(s)'
  BY DEF Quiet, Known, IInv, HandlerOK
<1>2. \A c \in Conns : HandlerOK(c)'
  BY <1>1 DEF Quiet, IInv, TypeOK, MaybeConn, HandlerOK, Starting
<1>3. \A c \in Conns : TimerOK(c)'
  BY <1>1 DEF Quiet, IInv, TypeOK, MaybeConn, TimerOK
<1>4. \A s \in Conns : SlotOK(s)'
  BY DEF Quiet, IInv, TypeOK, SlotOK
<1>5. ListedOK'
  BY <1>1 DEF Quiet, IInv, TypeOK, MaybeConn, ListedOK
<1> QED BY <1>2, <1>3, <1>4, <1>5 DEF IInv

\* What Unlisted and Closed do to the flags.
LEMMA FlagsKept ==
    ASSUME IInv, NEW s \in Conns, Unlisted(s) \/ Closed(s)
    PROVE  /\ active' \in [Conns -> Flags]
           /\ \A d \in Conns : /\ active'[d].released = active[d].released
                               /\ active'[d].attached = active[d].attached
                               /\ active'[d].resumed = active[d].resumed
           /\ Unlisted(s) => /\ sessions' \in [Ids -> MaybeConn]
                             /\ \A i \in Ids : sessions'[i] \in {sessions[i], Nobody}
<1>1. active \in [Conns -> Flags] /\ active[s] \in Flags
  BY DEF IInv, TypeOK, Flags
<1>2. Unlisted(s) => /\ sessions' \in [Ids -> MaybeConn]
                     /\ \A i \in Ids : sessions'[i] \in {sessions[i], Nobody}
  BY DEF Unlisted, IInv, TypeOK, MaybeConn
<1>3. CASE active' = [active EXCEPT ![s] = [@ EXCEPT !.ended = TRUE]]
  BY <1>1, <1>2, <1>3 DEF Flags
<1>4. CASE active' = [active EXCEPT ![s] = [@ EXCEPT !.coordinator = "closed"]]
  BY <1>1, <1>2, <1>4 DEF Flags
<1>5. CASE active' = active
  BY <1>1, <1>2, <1>5
<1> QED BY <1>3, <1>4, <1>5 DEF Unlisted, Closed

\* A connection that ends, drops or is stopped.
LEMMA TeardownSafe ==
    ASSUME IInv, NEW c \in Conns,
           Drop(c) \/ Fail(c) \/ Stop(c) \/ Drained(c) \/ Detached(c) \/ Leave(c)
    PROVE  TypeOK' /\ Quiet
<1> USE DEF Starting, MaybeConn, HandlerPc, TimerPc, Goto
<1> DEFINE s == handler[c].of
<1>0. \A d \in Conns : ~active[d].attached => active[d].resumed # Nobody
  BY DEF IInv, SlotOK
<1>1. s \in Conns /\ Known(s) /\ active[s] \in Flags
  BY DEF Drop, Fail, Stop, Drained, Detached, Leave, IInv, TypeOK, HandlerOK, Flags
<1>2. CASE Drop(c) /\ Parkable(s)
  <2>1. active' = [active EXCEPT ![s] = [@ EXCEPT !.attached = FALSE,
                                                  !.resumed = c]]
    BY <1>2 DEF Drop, Park
  <2>2. active' \in [Conns -> Flags]
    BY <1>1, <2>1 DEF IInv, TypeOK, Flags
  <2>3. \A d \in Conns : /\ active'[d].released = active[d].released
                         /\ ~active'[d].attached => active'[d].resumed # Nobody
                         /\ active[d].resumed # Nobody => active'[d].resumed # Nobody
    BY <1>1, <2>1 DEF IInv, TypeOK, SlotOK, Flags
  <2>4. TypeOK'
    BY <1>1, <1>2, <2>2 DEF Drop, Park, IInv, TypeOK, Flags
  <2>5. Quiet
    BY <1>1, <1>2, <2>3 DEF Drop, Park, IInv, TypeOK, Quiet
  <2> QED BY <2>4, <2>5
<1>3. CASE (Drop(c) /\ ~Parkable(s)) \/ Fail(c)
  <2>1. TypeOK'
    BY <1>1, <1>3 DEF Drop, Fail, IInv, TypeOK
  <2>2. Quiet
    BY <1>0, <1>1, <1>3 DEF Drop, Fail, IInv, TypeOK, Quiet
  <2> QED BY <2>1, <2>2
<1>4. CASE Stop(c)
  <2>1. active' = [active EXCEPT ![s] = [@ EXCEPT !.stopped = TRUE]]
    BY <1>4 DEF Stop
  <2>2. active' \in [Conns -> Flags]
    BY <1>1, <2>1 DEF IInv, TypeOK, Flags
  <2>3. \A d \in Conns : /\ active'[d].released = active[d].released
                         /\ active'[d].attached = active[d].attached
                         /\ active'[d].resumed = active[d].resumed
    BY <1>1, <2>1 DEF IInv, TypeOK, Flags
  <2>4. TypeOK'
    BY <1>1, <1>4, <2>2 DEF Stop, IInv, TypeOK, Flags
  <2>5. Quiet
    BY <1>0, <1>1, <1>4, <2>3 DEF Stop, IInv, TypeOK, Quiet
  <2> QED BY <2>4, <2>5
<1>5. CASE Drained(c)
  <2>1. TypeOK'
    BY <1>1, <1>5 DEF Drained, IInv, TypeOK
  <2>2. Quiet
    BY <1>0, <1>1, <1>5 DEF Drained, Known, IInv, TypeOK, Quiet
  <2> QED BY <2>1, <2>2
<1>6. CASE Detached(c)
  <2>1. TypeOK'
    <3>1. active' \in [Conns -> Flags] /\ sessions' \in [Ids -> MaybeConn]
      BY <1>1, <1>6, FlagsKept DEF Detached
    <3>2. handler' \in [Conns -> [pc : HandlerPc, of : MaybeConn]]
      BY <1>6, MovesTyped DEF Detached, IInv
    <3> QED BY <1>6, <3>1, <3>2, NextTyped DEF Detached, IInv, TypeOK
  <2>2. Quiet
    BY <1>0, <1>1, <1>6, FlagsKept DEF Detached, IInv, TypeOK, Quiet
  <2> QED BY <2>1, <2>2
<1>7. CASE Leave(c)
  <2>1. TypeOK'
    <3>1. active' \in [Conns -> Flags]
      BY <1>1, <1>7, FlagsKept DEF Leave
    <3>2. handler' \in [Conns -> [pc : HandlerPc, of : MaybeConn]]
      BY <1>7, MovesTyped DEF Leave, IInv
    <3> QED BY <1>7, <3>1, <3>2, NextTyped DEF Leave, IInv, TypeOK
  <2>2. Quiet
    BY <1>0, <1>1, <1>7, FlagsKept DEF Leave, IInv, TypeOK, Quiet
  <2> QED BY <2>1, <2>2
<1> QED BY <1>2, <1>3, <1>4, <1>5, <1>6, <1>7

\* A grace timer, up to the point where it frees.
LEMMA GraceSafe ==
    ASSUME IInv, NEW c \in Conns,
           \/ GraceDetached(c) \/ GraceResumed(c) \/ GraceTimeout(c)
           \/ GraceChecks(c) \/ GraceLeaves(c)
    PROVE  TypeOK' /\ Quiet
<1> USE DEF Starting, MaybeConn, HandlerPc, TimerPc, Ticks
<1> DEFINE s == timer[c].of
<1>0. \A d \in Conns : ~active[d].attached => active[d].resumed # Nobody
  BY DEF IInv, SlotOK
<1>1. s \in Conns /\ Known(s) /\ active[s].resumed \in MaybeConn
  BY DEF GraceDetached, GraceResumed, GraceTimeout, GraceChecks, GraceLeaves,
         IInv, TypeOK, TimerOK
<1>2. CASE GraceDetached(c)
  <2>1. TypeOK'
    <3>1. timer' = [timer EXCEPT ![c] = [@ EXCEPT !.pc = "waiting",
                                                  !.on = active[s].resumed]]
      BY <1>2 DEF GraceDetached
    <3>2. timer' \in [Conns -> [pc : TimerPc, of : MaybeConn, on : MaybeConn]]
      <4>1. timer \in [Conns -> [pc : TimerPc, of : MaybeConn, on : MaybeConn]]
        BY DEF IInv, TypeOK
      <4> HIDE DEF MaybeConn, s
      <4> QED BY <1>1, <3>1, <4>1
    <3> QED BY <1>2, <3>2 DEF GraceDetached, IInv, TypeOK
  <2>2. Quiet
    BY <1>0, <1>1, <1>2 DEF GraceDetached, IInv, TypeOK, Quiet
  <2> QED BY <2>1, <2>2
<1>3. CASE GraceResumed(c) \/ GraceTimeout(c)
  <2>1. TypeOK'
    BY <1>1, <1>3 DEF GraceResumed, GraceTimeout, IInv, TypeOK
  <2>2. Quiet
    BY <1>0, <1>1, <1>3 DEF GraceResumed, GraceTimeout, IInv, TypeOK, Quiet
  <2> QED BY <2>1, <2>2
<1>4. CASE GraceChecks(c) /\ active[s].attached
  <2>1. TypeOK'
    <3>1. timer' \in [Conns -> [pc : TimerPc, of : MaybeConn, on : MaybeConn]]
      BY <1>4, MovesTyped DEF GraceChecks, IInv
    <3> QED BY <1>4, <3>1 DEF GraceChecks, IInv, TypeOK
  <2>2. Quiet
    BY <1>0, <1>1, <1>4 DEF GraceChecks, IInv, TypeOK, Quiet
  <2> QED BY <2>1, <2>2
<1>5. CASE GraceChecks(c) /\ ~active[s].attached
  <2>1. TypeOK'
    <3>1. timer' \in [Conns -> [pc : TimerPc, of : MaybeConn, on : MaybeConn]]
      BY <1>5, MovesTyped DEF GraceChecks, IInv
    <3>2. active' \in [Conns -> Flags]
      BY <1>1, <1>5, FlagsKept DEF GraceChecks
    <3>3. sessions' \in [Ids -> MaybeConn]
      BY <1>1, <1>5, FlagsKept DEF GraceChecks, IInv, TypeOK
    <3>4. UNCHANGED <<lock, thinker, fired, handler>>
      BY <1>5 DEF GraceChecks
    <3> QED BY <3>1, <3>2, <3>3, <3>4 DEF IInv, TypeOK, Flags
  <2>2. Quiet
    <3>1. /\ \A d \in Conns : /\ active'[d].released = active[d].released
                              /\ active'[d].attached = active[d].attached
                              /\ active'[d].resumed = active[d].resumed
          /\ \A i \in Ids : sessions'[i] \in {sessions[i], Nobody}
      BY <1>1, <1>5, FlagsKept DEF GraceChecks
    <3>2. \A d \in Conns : /\ timer'[d].of = timer[d].of
                           /\ timer'[d].pc # "none" => timer[d].pc # "none"
      BY <1>5 DEF GraceChecks, IInv, TypeOK
    <3>3. UNCHANGED <<lock, thinker, handler>>
      BY <1>5 DEF GraceChecks
    <3> QED BY <1>0, <3>1, <3>2, <3>3 DEF Quiet
  <2> QED BY <2>1, <2>2
<1>6. CASE GraceLeaves(c)
  <2>1. TypeOK'
    <3>1. timer' \in [Conns -> [pc : TimerPc, of : MaybeConn, on : MaybeConn]]
      BY <1>6, MovesTyped DEF GraceLeaves, IInv
    <3>2. active' \in [Conns -> Flags]
      BY <1>1, <1>6, FlagsKept DEF GraceLeaves
    <3>3. sessions' \in [Ids -> MaybeConn]
      BY <1>1, <1>6, FlagsKept DEF GraceLeaves, IInv, TypeOK
    <3>4. UNCHANGED <<lock, thinker, fired, handler>>
      BY <1>6 DEF GraceLeaves
    <3> QED BY <3>1, <3>2, <3>3, <3>4 DEF IInv, TypeOK, Flags
  <2>2. Quiet
    BY <1>0, <1>1, <1>6, FlagsKept DEF GraceLeaves, IInv, TypeOK, Quiet
  <2> QED BY <2>1, <2>2
<1> QED BY <1>2, <1>3, <1>4, <1>5, <1>6

-----------------------------------------------------------------------------
(* The theorems *)

\* Every step keeps the invariant.
LEMMA NextIInv == IInv /\ [Next]_vars => IInv'
<1> SUFFICES ASSUME IInv, [Next]_vars PROVE IInv'
  OBVIOUS
<1>1. CASE UNCHANGED vars
  BY <1>1 DEF vars, IInv, TypeOK, HandlerOK, TimerOK, SlotOK, ListedOK, Known
<1>2. ASSUME NEW c \in Conns, Connect(c)  PROVE IInv'
  BY <1>2, ConnectSafe
<1>3. ASSUME NEW c \in Conns, Abandon(c) \/ StartupStep(c)  PROVE IInv'
  BY <1>3, StartupSafe, AbandonedSafe DEF StartupStep
<1>4. ASSUME NEW c \in Conns, Drop(c) \/ Fail(c) \/ Stop(c) \/ TeardownStep(c)
      PROVE  IInv'
  BY <1>4, TeardownSafe, FreedSafe, QuietSafe DEF TeardownStep
<1>5. ASSUME NEW c \in Conns, GraceStep(c)  PROVE IInv'
  BY <1>5, GraceSafe, FreedSafe, QuietSafe DEF GraceStep
<1> QED BY <1>1, <1>2, <1>3, <1>4, <1>5 DEF Next

\* IInv is an invariant of the handlers and the timers.
THEOREM SessionInvariance == Spec => []IInv
BY InitIInv, NextIInv, PTL DEF Spec

\* The session table, the handlers and the timers keep their types.
THEOREM SessionTypes == Spec => []TypeOK
<1>1. IInv => TypeOK
  BY DEF IInv
<1> QED BY <1>1, SessionInvariance, PTL

\* Whatever order connections, drops, stops, failures and timers come in, a
\* Thinker that is being built or is open holds the slot.
THEOREM ThinkerSafe == Spec => []ThinkerHasSlot
<1>1. IInv => ThinkerHasSlot
  BY DEF IInv, SlotOK, ThinkerHasSlot
<1> QED BY <1>1, SessionInvariance, PTL

\* Freeing a session is the slot's release, or nothing when it was released.
LEMMA FreeIsRelease ==
    ASSUME IInv, NEW s \in Conns, lock = s \/ active[s].released, Free(s)
    PROVE  Slot!Release(s) \/ UNCHANGED <<lock, thinker>>
<1>1. CASE active[s].released
  BY <1>1 DEF Free, IInv, TypeOK, SlotOK
<1>2. CASE ~active[s].released
  BY <1>2 DEF Free, Slot!Release
<1> QED BY <1>1, <1>2

\* A step of a connection is a step of the slot, or leaves it alone.
LEMMA StepKeepsSlot ==
    ASSUME IInv, NEW c \in Conns,
           \/ Connect(c) \/ Abandon(c) \/ Drop(c) \/ Fail(c) \/ Stop(c)
           \/ StartupStep(c) \/ TeardownStep(c) \/ GraceStep(c)
    PROVE  Slot!Next \/ UNCHANGED <<lock, thinker>>
<1>1. CASE Connect(c)
  BY <1>1 DEF Connect, Admit, IInv, HandlerOK, Slot!Next, Slot!Acquire
<1>2. CASE Opened(c)
  BY <1>2 DEF Opened, IInv, HandlerOK, Slot!Next, Slot!Becomes
<1>3. CASE Drained(c)
  <2>1. handler[c].of \in Conns /\ Known(handler[c].of)
    BY <1>3 DEF Drained, IInv, TypeOK, HandlerOK, MaybeConn, Starting
  <2>2. CASE thinker[handler[c].of] = "open"
    BY <1>3, <2>1, <2>2 DEF Drained, IInv, SlotOK, Slot!Next, Slot!Becomes
  <2>3. CASE thinker[handler[c].of] = "closed"
    BY <1>3, <2>1, <2>3 DEF Drained, IInv, TypeOK
  <2> QED BY <2>1, <2>2, <2>3 DEF Known
<1>4. CASE CloseAbandoned(c)
  BY <1>4, FreeIsRelease DEF CloseAbandoned, IInv, HandlerOK, Slot!Next
<1>5. CASE Freed(c)
  <2>1. handler[c].of \in Conns /\ Known(handler[c].of)
    BY <1>5 DEF Freed, IInv, TypeOK, HandlerOK, MaybeConn, Starting
  <2> QED BY <1>5, <2>1, FreeIsRelease DEF Freed, Known, Slot!Next
<1>6. CASE GraceFrees(c)
  <2>1. timer[c].of \in Conns /\ Known(timer[c].of)
    BY <1>6 DEF GraceFrees, IInv, TypeOK, TimerOK, MaybeConn
  <2> QED BY <1>6, <2>1, FreeIsRelease DEF GraceFrees, Known, Slot!Next
<1>7. CASE \/ Abandon(c) \/ Drop(c) \/ Fail(c) \/ Stop(c)
           \/ Attach(c) \/ Ready(c) \/ Detached(c) \/ Leave(c)
  BY <1>7 DEF Abandon, Drop, Fail, Stop, Attach, Ready, Detached, Leave
<1>8. CASE \/ GraceDetached(c) \/ GraceResumed(c) \/ GraceTimeout(c)
           \/ GraceChecks(c) \/ GraceLeaves(c)
  BY <1>8 DEF GraceDetached, GraceResumed, GraceTimeout, GraceChecks, GraceLeaves
<1> QED BY <1>1, <1>2, <1>3, <1>4, <1>5, <1>6, <1>7, <1>8
        DEF StartupStep, TeardownStep, GraceStep

\* The handlers and the timers implement the slot: it is taken before a Thinker
\* is built, and released once, by its holder, with the Thinker closed.
THEOREM SlotKept == Spec => KeepsSlot
<1>1. Init => Slot!Init
  BY DEF Init, Slot!Init
<1>2. IInv /\ [Next]_vars => [Slot!Next]_(Slot!vars)
  BY StepKeepsSlot DEF Next, vars, Slot!vars
<1> QED BY <1>1, <1>2, SessionInvariance, PTL DEF Spec, KeepsSlot, Slot!Spec

-----------------------------------------------------------------------------
(* Sessions held for their client *)

Listed(s) == sessions[SessionId[s]] = s

\* The last connection that parked s left the timer that watches it, and no
\* client that came back has set its event since.
ParkOK(s) ==
    /\ active[s].resumed # Nobody
         => /\ timer[active[s].resumed].pc # "none"
            /\ timer[active[s].resumed].of = s
    /\ Listed(s) /\ ~active[s].attached
         => /\ active[s].resumed \notin fired
            /\ timer[active[s].resumed].pc \in {"detaching", "waiting", "expired"}
            /\ timer[active[s].resumed].pc = "waiting"
                 => timer[active[s].resumed].on = active[s].resumed

\* A session whose Thinker was drained still has the handler that drained it.
DrainOK(s) ==
    Listed(s) /\ thinker[s] = "closed" /\ ~active[s].released
        => \E c \in Conns : handler[c] = [pc |-> "detaching", of |-> s]

\* A connection parks once, at its end.
EndOK(c) == /\ c \in fired => timer[c].pc # "none"
            /\ timer[c].pc # "none" => handler[c].pc = "gone"

WatchInv == \A c \in Conns : ParkOK(c) /\ DrainOK(c) /\ EndOK(c)

\* The watch of a timer over the session it was started for.
OnWatch(c) == /\ timer[c].pc \in {"detaching", "waiting", "expired"}
              /\ timer[c].pc = "waiting" => timer[c].on = c

\* A step that parks and attaches nobody: it may unlist or release a session,
\* and moves no timer off its watch while its session waits.
Steady ==
    /\ fired' = fired
    /\ \A s \in Conns : /\ active'[s].attached = active[s].attached
                        /\ active'[s].resumed = active[s].resumed
                        /\ active[s].released => active'[s].released
                        /\ Listed(s)' => Listed(s)
                        /\ \/ thinker'[s] # "closed"
                           \/ thinker[s] = "closed"
                           \/ active'[s].released
                           \/ \E c \in Conns :
                                handler'[c] = [pc |-> "detaching", of |-> s]
    /\ \A c \in Conns :
        /\ handler[c].pc = "gone" => handler'[c].pc = "gone"
        /\ timer'[c].of = timer[c].of
        /\ (timer'[c].pc = "none") <=> (timer[c].pc = "none")
    /\ \A c, s \in Conns :
        /\ handler[c].pc = "detaching" /\ handler[c].of = s
             => \/ handler'[c] = handler[c]
                \/ ~Listed(s)'
                \/ active'[s].released
        /\ timer[c].of = s /\ active[s].resumed = c
             => \/ timer'[c] = timer[c]
                \/ ~Listed(s)'
                \/ active[s].attached
                \/ OnWatch(c)'

\* A steady step keeps every parked session watched.
LEMMA SteadyKept ==
    ASSUME IInv, WatchInv, Steady
    PROVE  WatchInv'
<1> SUFFICES ASSUME NEW s \in Conns
             PROVE  ParkOK(s)' /\ DrainOK(s)' /\ EndOK(s)'
  BY DEF WatchInv
<1>1. ParkOK(s) /\ DrainOK(s) /\ EndOK(s) /\ SlotOK(s)
  BY DEF WatchInv, IInv
<1>2. active[s].resumed # Nobody => active[s].resumed \in Conns
  BY DEF IInv, TypeOK, MaybeConn
<1>3. ParkOK(s)'
  <2>1. CASE active[s].resumed = Nobody
    BY <1>1, <2>1 DEF Steady, ParkOK, SlotOK
  <2>2. CASE active[s].resumed # Nobody
    <3>a. PICK p \in Conns : p = active[s].resumed
      BY <1>2, <2>2
    <3>1. timer[p].of = s /\ timer[p].pc # "none"
      BY <1>1, <2>2, <3>a DEF ParkOK
    <3>2. /\ active'[s].resumed = active[s].resumed
          /\ active'[s].attached = active[s].attached
          /\ fired' = fired /\ (Listed(s)' => Listed(s))
      BY DEF Steady
    <3>3. /\ timer'[p].of = s /\ timer'[p].pc # "none"
          /\ \/ timer'[p] = timer[p]
             \/ ~Listed(s)' \/ active[s].attached
             \/ OnWatch(p)'
      BY <3>1, <3>a DEF Steady
    <3> QED BY <1>1, <3>a, <3>1, <3>2, <3>3 DEF ParkOK, OnWatch
  <2> QED BY <2>1, <2>2
<1>4. DrainOK(s)'
  <2> SUFFICES ASSUME Listed(s)', thinker'[s] = "closed", ~active'[s].released
               PROVE  \E c \in Conns : handler'[c] = [pc |-> "detaching", of |-> s]
    BY DEF DrainOK
  <2>1. CASE thinker[s] = "closed"
    <3>1. PICK c \in Conns : handler[c] = [pc |-> "detaching", of |-> s]
      BY <1>1, <2>1 DEF DrainOK, Steady
    <3>2. handler[c].pc = "detaching" /\ handler[c].of = s
      BY <3>1
    <3>3. /\ handler'[c] = handler[c]
      BY <3>2 DEF Steady
    <3> QED BY <3>1, <3>3
  <2>2. CASE thinker[s] # "closed"
    BY <2>2 DEF Steady
  <2> QED BY <2>1, <2>2
<1>5. EndOK(s)'
  BY <1>1 DEF EndOK, Steady
<1> QED BY <1>3, <1>4, <1>5

\* A connection that resumes sets the event of the timer that waits for it.
LEMMA AttachWatched ==
    ASSUME IInv, WatchInv, NEW c \in Conns, Attach(c)
    PROVE  WatchInv'
<1> DEFINE s == handler[c].of
           p == active[s].resumed
<1>1. s \in Conns /\ p \in Conns /\ handler[c].pc = "resuming"
  BY DEF Attach, IInv, TypeOK, HandlerOK, Starting, MaybeConn
<1>2. timer[p].of = s /\ timer[p].pc # "none"
  BY <1>1, NobodyAssumption DEF WatchInv, ParkOK
<1>3. /\ active' = [active EXCEPT ![s] = [@ EXCEPT !.attached = TRUE]]
      /\ fired' = fired \cup {p}
      /\ handler' = [handler EXCEPT ![c].pc = "serving"]
      /\ UNCHANGED <<lock, sessions, thinker, timer>>
  BY DEF Attach, Goto
<1>4. active[s] \in Flags
  BY <1>1 DEF IInv, TypeOK, Flags
<1>5. /\ active'[s].attached /\ active'[s].resumed = p
      /\ active'[s].released = active[s].released
      /\ \A d \in Conns \ {s} : active'[d] = active[d]
  BY <1>1, <1>3, <1>4 DEF Flags, IInv, TypeOK
<1> SUFFICES ASSUME NEW d \in Conns
             PROVE  ParkOK(d)' /\ DrainOK(d)' /\ EndOK(d)'
  BY DEF WatchInv
<1>6. ParkOK(d) /\ DrainOK(d) /\ EndOK(d)
  BY DEF WatchInv
<1>7. ParkOK(d)'
  <2>1. CASE d = s
    BY <1>2, <1>3, <1>5, <2>1 DEF ParkOK
  <2>2. CASE d # s
    <3>1. active'[d] = active[d] /\ (Listed(d)' <=> Listed(d))
      BY <1>3, <1>5, <2>2 DEF Listed
    <3>2. active[d].resumed = Nobody \/ active[d].resumed # p
      BY <1>2, <1>6, <2>2 DEF ParkOK
    <3>3. ~active[d].attached => active[d].resumed # Nobody
      BY DEF IInv, SlotOK
    <3> HIDE DEF p, s
    <3> QED BY <1>3, <1>6, <3>1, <3>2, <3>3 DEF ParkOK
  <2> QED BY <2>1, <2>2
<1>8. DrainOK(d)'
  <2>1. \A x \in Conns : handler[x].pc = "detaching" => handler'[x] = handler[x]
    BY <1>1, <1>3 DEF IInv, TypeOK
  <2>2. active'[d].released = active[d].released
    BY <1>5
  <2>3. Listed(d)' <=> Listed(d)
    BY <1>3 DEF Listed
  <2> HIDE DEF s, p
  <2> QED BY <1>3, <1>6, <2>1, <2>2, <2>3 DEF DrainOK
<1>9. EndOK(d)'
  <2>1. handler[d].pc = "gone" => handler'[d].pc = "gone"
    BY <1>1, <1>3 DEF IInv, TypeOK
  <2> HIDE DEF s, p
  <2> QED BY <1>2, <1>3, <1>6, <2>1 DEF EndOK
<1> QED BY <1>7, <1>8, <1>9

\* A new session is attached and nobody ever parked it.
LEMMA OpenedWatched ==
    ASSUME IInv, WatchInv, NEW c \in Conns, Opened(c)
    PROVE  WatchInv'
<1>1. /\ handler[c].pc = "opening" /\ active[c].resumed = Nobody
      /\ active[c].attached /\ timer[c].pc = "none"
  <2>1. ~Known(c) /\ handler[c].pc = "opening"
    BY DEF Opened, Known, Starting
  <2>2. active[c].resumed # Nobody => Known(c)
    BY DEF WatchInv, ParkOK, IInv, TimerOK, TypeOK, MaybeConn
  <2>3. active[c].resumed = Nobody /\ active[c].attached
    BY <2>1, <2>2 DEF IInv, SlotOK
  <2> QED BY <2>1, <2>3 DEF WatchInv, EndOK
<1>2. /\ active' = [active EXCEPT ![c] = [@ EXCEPT !.coordinator = "building"]]
      /\ sessions' = [sessions EXCEPT ![SessionId[c]] = c]
      /\ thinker' = [thinker EXCEPT ![c] = "open"]
      /\ handler' = [handler EXCEPT ![c] = [pc |-> "building", of |-> c]]
      /\ UNCHANGED <<lock, fired, timer>>
  BY DEF Opened
<1>3. active[c] \in Flags
  BY DEF IInv, TypeOK, Flags
<1>4. /\ \A d \in Conns : /\ active'[d].attached = active[d].attached
                          /\ active'[d].resumed = active[d].resumed
                          /\ active'[d].released = active[d].released
      /\ \A d \in Conns \ {c} : Listed(d)' => Listed(d)
  BY <1>2, <1>3 DEF Flags, IInv, TypeOK, Listed
<1> SUFFICES ASSUME NEW d \in Conns
             PROVE  ParkOK(d)' /\ DrainOK(d)' /\ EndOK(d)'
  BY DEF WatchInv
<1>5. ParkOK(d) /\ DrainOK(d) /\ EndOK(d)
  BY DEF WatchInv
<1>6. ParkOK(d)'
  BY <1>1, <1>2, <1>4, <1>5 DEF ParkOK
<1>7. DrainOK(d)'
  <2>1. CASE d = c
    BY <1>2, <2>1 DEF DrainOK, IInv, TypeOK
  <2>2. CASE d # c
    <3>1. thinker'[d] = thinker[d]
      BY <1>2, <2>2 DEF IInv, TypeOK
    <3>2. \A x \in Conns : handler[x].pc = "detaching" => handler'[x] = handler[x]
      BY <1>1, <1>2 DEF IInv, TypeOK
    <3> QED BY <1>4, <1>5, <2>2, <3>1, <3>2 DEF DrainOK
  <2> QED BY <2>1, <2>2
<1>8. EndOK(d)'
  BY <1>1, <1>2, <1>5 DEF EndOK, IInv, TypeOK
<1> QED BY <1>6, <1>7, <1>8

\* A dropped connection leaves a timer of its own.
LEMMA ParkWatched ==
    ASSUME IInv, WatchInv, NEW c \in Conns, Drop(c), Parkable(handler[c].of)
    PROVE  WatchInv'
<1> DEFINE s == handler[c].of
<1>1. /\ s \in Conns /\ handler[c].pc \in {"building", "serving", "draining"}
      /\ timer[c].pc = "none" /\ c \notin fired
  BY DEF Drop, WatchInv, EndOK, IInv, TypeOK, HandlerOK, Starting, MaybeConn
<1>2. /\ active' = [active EXCEPT ![s] = [@ EXCEPT !.attached = FALSE,
                                                  !.resumed = c]]
      /\ timer' = [timer EXCEPT ![c] = [pc |-> "detaching", of |-> s,
                                        on |-> Nobody]]
      /\ handler' = [handler EXCEPT ![c].pc = "gone"]
      /\ UNCHANGED <<lock, sessions, thinker, fired>>
  BY DEF Drop, Park, Goto
<1>3. active[s] \in Flags
  BY <1>1 DEF IInv, TypeOK, Flags
<1>4. /\ ~active'[s].attached /\ active'[s].resumed = c
      /\ \A d \in Conns : active'[d].released = active[d].released
      /\ \A d \in Conns \ {s} : active'[d] = active[d]
      /\ timer'[c].pc = "detaching" /\ timer'[c].of = s
      /\ \A d \in Conns \ {c} : timer'[d] = timer[d] /\ handler'[d] = handler[d]
      /\ handler'[c].pc = "gone"
  BY <1>1, <1>2, <1>3 DEF Flags, IInv, TypeOK
<1> SUFFICES ASSUME NEW d \in Conns
             PROVE  ParkOK(d)' /\ DrainOK(d)' /\ EndOK(d)'
  BY DEF WatchInv
<1> HIDE DEF s
<1>5. /\ ParkOK(d) /\ DrainOK(d) /\ EndOK(d)
      /\ (Listed(d)' <=> Listed(d)) /\ fired' = fired /\ thinker' = thinker
  BY <1>2 DEF WatchInv, Listed
<1>6. ParkOK(d)'
  <2>1. CASE d = s
    BY <1>1, <1>4, <1>5, <2>1 DEF ParkOK
  <2>2. CASE d # s
    <3>1. active'[d] = active[d]
      BY <1>4, <2>2
    <3>2. active[d].resumed # Nobody => /\ active[d].resumed \in Conns
                                        /\ timer'[active[d].resumed] = timer[active[d].resumed]
      BY <1>1, <1>4, <1>5 DEF ParkOK, IInv, TypeOK, MaybeConn
    <3>3. ~active[d].attached => active[d].resumed # Nobody
      BY DEF IInv, SlotOK
    <3> QED BY <1>5, <3>1, <3>2, <3>3 DEF ParkOK
  <2> QED BY <2>1, <2>2
<1>7. DrainOK(d)'
  <2>1. \A x \in Conns : handler[x].pc = "detaching" => handler'[x] = handler[x]
    BY <1>1, <1>4
  <2> QED BY <1>4, <1>5, <2>1 DEF DrainOK
<1>8. EndOK(d)'
  BY <1>4, <1>5 DEF EndOK
<1> QED BY <1>6, <1>7, <1>8

\* Steps of a handler that park and attach nobody.
LEMMA HandlerSteady ==
    ASSUME IInv, WatchInv, NEW c \in Conns,
           \/ Connect(c) \/ Abandon(c) \/ Ready(c) \/ Fail(c) \/ Stop(c)
           \/ Drop(c) /\ ~Parkable(handler[c].of)
    PROVE  Steady
<1>1. UNCHANGED <<sessions, fired, timer>>
  BY DEF Connect, Abandon, Ready, Fail, Stop, Drop
<1>2. \A d \in Conns : /\ active'[d].attached = active[d].attached
                       /\ active'[d].resumed = active[d].resumed
                       /\ active'[d].released = active[d].released
  <2>1. CASE active' = active
    BY <2>1
  <2>2. CASE Ready(c)
    <3>1. active' = [active EXCEPT ![c] = [@ EXCEPT !.coordinator = "up",
                                                    !.announced = TRUE]]
      BY <2>2 DEF Ready
    <3> QED BY <3>1 DEF IInv, TypeOK
  <2>3. CASE Stop(c)
    <3>1. active' = [active EXCEPT ![handler[c].of] = [@ EXCEPT !.stopped = TRUE]]
      BY <2>3 DEF Stop
    <3> QED BY <3>1 DEF IInv, TypeOK
  <2> QED BY <2>1, <2>2, <2>3 DEF Connect, Abandon, Fail, Drop
<1>3. \A d \in Conns : thinker'[d] = thinker[d] \/ thinker'[d] = "opening"
  BY DEF Connect, Admit, Abandon, Ready, Fail, Stop, Drop, IInv, TypeOK
<1>4. /\ handler[c].pc \notin {"gone", "detaching"}
      /\ \A d \in Conns \ {c} : handler'[d] = handler[d]
  BY DEF Connect, Admit, Abandon, Ready, Fail, Stop, Drop, Goto, IInv, TypeOK
<1>5. \A d \in Conns : Listed(d)' <=> Listed(d)
  BY <1>1 DEF Listed
<1> QED BY <1>1, <1>2, <1>3, <1>4, <1>5 DEF Steady

\* What Unlisted leaves in the table.
LEMMA UnlistedGone ==
    ASSUME IInv, NEW s \in Conns, Unlisted(s)
    PROVE  ~Listed(s)' /\ \A d \in Conns : Listed(d)' => Listed(d)
BY DEF Unlisted, Listed, IInv, TypeOK, MaybeConn

\* Steps of a handler that frees, unlists or leaves its session.
LEMMA TeardownSteady ==
    ASSUME IInv, WatchInv, NEW c \in Conns,
           \/ CloseAbandoned(c) \/ Drained(c) \/ Detached(c) \/ Freed(c) \/ Leave(c)
    PROVE  Steady
<1>1. /\ fired' = fired /\ timer' = timer
      /\ \A d \in Conns \ {c} : handler'[d] = handler[d]
      /\ handler[c].pc # "gone"
  BY DEF CloseAbandoned, Drained, Detached, Freed, Leave, Goto, IInv, TypeOK
<1>2. CASE CloseAbandoned(c)
  <2>1. /\ handler[c].pc = "abandoned" /\ lock = c /\ Free(c)
        /\ sessions' = sessions
    BY <1>2 DEF CloseAbandoned, IInv, HandlerOK
  <2>2. /\ \A d \in Conns : /\ active'[d].attached = active[d].attached
                            /\ active'[d].resumed = active[d].resumed
                            /\ active[d].released => active'[d].released
        /\ active'[c].released
        /\ \A d \in Conns \ {c} : thinker'[d] = thinker[d]
    BY <2>1 DEF Free, IInv, TypeOK
  <2>3. \A d \in Conns : Listed(d)' <=> Listed(d)
    BY <2>1 DEF Listed
  <2> QED BY <1>1, <2>1, <2>2, <2>3 DEF Steady
<1> DEFINE s == handler[c].of
<1>3. CASE Drained(c)
  <2>1. /\ s \in Conns /\ handler[c].pc = "draining"
        /\ UNCHANGED <<sessions, active>>
        /\ thinker' = [thinker EXCEPT ![s] = "closed"]
        /\ handler' = [handler EXCEPT ![c].pc = "detaching"]
    BY <1>3 DEF Drained, Goto, IInv, TypeOK, HandlerOK, Starting, MaybeConn
  <2>2. handler'[c] = [pc |-> "detaching", of |-> s]
    BY <2>1 DEF IInv, TypeOK
  <2>3. \A d \in Conns \ {s} : thinker'[d] = thinker[d]
    BY <2>1 DEF IInv, TypeOK
  <2>4. \A d \in Conns : Listed(d)' <=> Listed(d)
    BY <2>1 DEF Listed
  <2> HIDE DEF s
  <2> QED BY <1>1, <2>1, <2>2, <2>3, <2>4 DEF Steady
<1>4. CASE Detached(c)
  <2>1. s \in Conns /\ thinker' = thinker /\ Unlisted(s)
    BY <1>4 DEF Detached, IInv, TypeOK, HandlerOK, Starting, MaybeConn
  <2>2. \A d \in Conns : /\ active'[d].attached = active[d].attached
                         /\ active'[d].resumed = active[d].resumed
                         /\ active'[d].released = active[d].released
    BY <2>1, FlagsKept
  <2>3. PICK x \in Conns : x = s
    BY <2>1
  <2>4. ~Listed(x)' /\ \A d \in Conns : Listed(d)' => Listed(d)
    <3> HIDE DEF s
    <3>1. Unlisted(x)
      BY <2>1, <2>3
    <3> QED BY <3>1, UnlistedGone
  <2> QED BY <1>1, <2>1, <2>2, <2>3, <2>4 DEF Steady
<1>5. CASE Freed(c)
  <2>1. /\ s \in Conns /\ Known(s) /\ Free(s) /\ sessions' = sessions
    BY <1>5 DEF Freed, IInv, TypeOK, HandlerOK, Starting, MaybeConn
  <2>2. /\ \A d \in Conns : /\ active'[d].attached = active[d].attached
                            /\ active'[d].resumed = active[d].resumed
                            /\ active[d].released => active'[d].released
        /\ active'[s].released
        /\ \A d \in Conns \ {s} : thinker'[d] = thinker[d]
    BY <2>1 DEF Free, IInv, TypeOK
  <2>3. \A d \in Conns : Listed(d)' <=> Listed(d)
    BY <2>1 DEF Listed
  <2> QED BY <1>1, <2>1, <2>2, <2>3 DEF Steady
<1>6. CASE Leave(c)
  <2>1. /\ s \in Conns /\ UNCHANGED <<sessions, thinker>>
        /\ handler[c].pc = "closing" /\ Closed(s)
    BY <1>6 DEF Leave, IInv, TypeOK, HandlerOK, Starting, MaybeConn
  <2>2. \A d \in Conns : /\ active'[d].attached = active[d].attached
                         /\ active'[d].resumed = active[d].resumed
                         /\ active'[d].released = active[d].released
    BY <2>1, FlagsKept
  <2>3. \A d \in Conns : Listed(d)' <=> Listed(d)
    BY <2>1 DEF Listed
  <2> QED BY <1>1, <2>1, <2>2, <2>3 DEF Steady
<1> QED BY <1>2, <1>3, <1>4, <1>5, <1>6

\* A grace timer stays on its watch until it unlists or finds the session
\* attached: the event it waits for is not set before.
LEMMA GraceSteady ==
    ASSUME IInv, WatchInv, NEW c \in Conns, GraceStep(c)
    PROVE  Steady
<1> DEFINE s == timer[c].of
<1>1. PICK x \in Conns : x = s
  BY DEF GraceStep, GraceDetached, GraceResumed, GraceTimeout, GraceChecks,
         GraceFrees, GraceLeaves, IInv, TypeOK, TimerOK, MaybeConn
<1>2. /\ fired' = fired /\ handler' = handler
      /\ \A d \in Conns \ {c} : timer'[d] = timer[d]
      /\ timer'[c].of = timer[c].of /\ timer[c].pc # "none" /\ timer'[c].pc # "none"
  BY DEF GraceStep, GraceDetached, GraceResumed, GraceTimeout, GraceChecks,
         GraceFrees, GraceLeaves, Ticks, IInv, TypeOK
<1>3. ASSUME Listed(x), ~active[x].attached, active[x].resumed = c
      PROVE  OnWatch(c) /\ c \notin fired
  BY <1>3 DEF WatchInv, ParkOK, OnWatch
<1>4. CASE GraceDetached(c) \/ GraceResumed(c) \/ GraceTimeout(c)
  <2>1. UNCHANGED <<sessions, thinker, active>>
    BY <1>4 DEF GraceDetached, GraceResumed, GraceTimeout
  <2>2. \A d \in Conns : Listed(d)' <=> Listed(d)
    BY <2>1 DEF Listed
  <2>3. ASSUME Listed(x), ~active[x].attached, active[x].resumed = c
        PROVE  OnWatch(c)'
    <3>1. OnWatch(c) /\ c \notin fired
      BY <1>3, <2>3
    <3>2. CASE GraceDetached(c)
      BY <1>1, <2>3, <3>2 DEF GraceDetached, OnWatch, IInv, TypeOK
    <3>3. CASE GraceResumed(c)
      BY <3>1, <3>3 DEF GraceResumed, OnWatch
    <3>4. CASE GraceTimeout(c)
      BY <3>4 DEF GraceTimeout, Ticks, OnWatch, IInv, TypeOK
    <3> QED BY <1>4, <3>2, <3>3, <3>4
  <2> QED BY <1>1, <1>2, <2>1, <2>2, <2>3 DEF Steady
<1>5. CASE GraceChecks(c) /\ active[s].attached
  <2>1. UNCHANGED <<sessions, thinker, active>>
    BY <1>5 DEF GraceChecks
  <2>2. \A d \in Conns : Listed(d)' <=> Listed(d)
    BY <2>1 DEF Listed
  <2> QED BY <1>1, <1>2, <1>5, <2>1, <2>2 DEF Steady
<1>6. CASE GraceChecks(c) /\ ~active[s].attached
  <2>1. thinker' = thinker /\ Unlisted(x)
    BY <1>1, <1>6 DEF GraceChecks
  <2>2. \A d \in Conns : /\ active'[d].attached = active[d].attached
                         /\ active'[d].resumed = active[d].resumed
                         /\ active'[d].released = active[d].released
    BY <2>1, FlagsKept
  <2>3. ~Listed(x)' /\ \A d \in Conns : Listed(d)' => Listed(d)
    BY <2>1, UnlistedGone
  <2> QED BY <1>1, <1>2, <2>1, <2>2, <2>3 DEF Steady
<1>7. CASE GraceFrees(c) \/ GraceLeaves(c)
  <2>1. /\ Free(x) \/ (Closed(x) /\ thinker' = thinker)
        /\ timer[c].pc \in {"stopping", "closing"}
    BY <1>1, <1>7 DEF GraceFrees, GraceLeaves
  <2>2. \A d \in Conns : Listed(d)' <=> Listed(d)
    BY <1>7 DEF Listed, GraceFrees, GraceLeaves
  <2>3. ~Listed(x) \/ active[x].attached \/ active[x].resumed # c
    BY <1>3, <2>1 DEF OnWatch
  <2>4. \A d \in Conns : /\ active'[d].attached = active[d].attached
                         /\ active'[d].resumed = active[d].resumed
                         /\ active[d].released => active'[d].released
                         /\ thinker'[d] = thinker[d] \/ active'[d].released
    <3>1. CASE Free(x)
      BY <3>1 DEF Free, IInv, TypeOK
    <3>2. CASE Closed(x) /\ thinker' = thinker
      BY <3>2, FlagsKept
    <3> QED BY <1>1, <1>7, <3>1, <3>2 DEF GraceFrees, GraceLeaves
  <2> QED BY <1>1, <1>2, <2>2, <2>3, <2>4 DEF Steady
<1> QED BY <1>4, <1>5, <1>6, <1>7 DEF GraceStep

\* While a session is held for a client that left, some timer is going to end
\* it: no order of drops, resumes and timeouts strands it, and until it is
\* released it keeps its Thinker and the slot.
THEOREM HeldIsWatched == Spec => []ParkedIsWatched
<1>1. Init => WatchInv
  <2> SUFFICES ASSUME Init, NEW c \in Conns
               PROVE  ParkOK(c) /\ DrainOK(c) /\ EndOK(c)
    BY DEF WatchInv
  <2>1. /\ active[c].attached /\ active[c].resumed = Nobody
        /\ thinker[c] = "none" /\ timer[c].pc = "none" /\ c \notin fired
    BY DEF Init
  <2> QED BY <2>1 DEF ParkOK, DrainOK, EndOK
<1>2. IInv /\ WatchInv /\ [Next]_vars => WatchInv'
  <2> SUFFICES ASSUME IInv, WatchInv, [Next]_vars PROVE WatchInv'
    OBVIOUS
  <2>1. CASE UNCHANGED vars
    BY <2>1 DEF vars, WatchInv, ParkOK, DrainOK, EndOK, Listed
  <2>2. ASSUME NEW c \in Conns,
               \/ Connect(c) \/ Abandon(c) \/ Drop(c) \/ Fail(c) \/ Stop(c)
               \/ StartupStep(c) \/ TeardownStep(c) \/ GraceStep(c)
        PROVE  WatchInv'
    <3>1. CASE Attach(c) \/ Opened(c)
      BY <3>1, AttachWatched, OpenedWatched
    <3>2. CASE Drop(c) /\ Parkable(handler[c].of)
      BY <3>2, ParkWatched
    <3>3. CASE \/ Connect(c) \/ Abandon(c) \/ Ready(c) \/ Fail(c) \/ Stop(c)
               \/ Drop(c) /\ ~Parkable(handler[c].of)
      BY <3>3, HandlerSteady, SteadyKept
    <3>4. CASE CloseAbandoned(c) \/ TeardownStep(c)
      BY <3>4, TeardownSteady, SteadyKept DEF TeardownStep
    <3>5. CASE GraceStep(c)
      BY <3>5, GraceSteady, SteadyKept
    <3> QED BY <2>2, <3>1, <3>2, <3>3, <3>4, <3>5 DEF StartupStep
  <2> QED BY <2>1, <2>2 DEF Next
<1>3. IInv /\ WatchInv => ParkedIsWatched
  <2> SUFFICES ASSUME IInv, WatchInv, NEW s \in Conns, Parked(s),
                      \A c \in Conns : handler[c].of = s => handler[c].pc = "gone"
               PROVE  /\ \E c \in Conns : Watches(c, s)
                      /\ active[s].released \/ (lock = s /\ thinker[s] = "open")
    BY DEF ParkedIsWatched
  <2>1. PICK p \in Conns : p = active[s].resumed
    BY DEF Parked, IInv, SlotOK, TypeOK, MaybeConn
  <2>2. Watches(p, s)
    BY <2>1 DEF WatchInv, ParkOK, Parked, Listed, Watches
  <2>3. Known(s)
    BY DEF Parked, IInv, ListedOK
  <2>4. thinker[s] = "closed" => active[s].released
    <3> SUFFICES ASSUME thinker[s] = "closed", ~active[s].released
                 PROVE  FALSE
      OBVIOUS
    <3>1. PICK c \in Conns : handler[c] = [pc |-> "detaching", of |-> s]
      BY DEF WatchInv, DrainOK, Parked, Listed
    <3>2. handler[c].of = s /\ handler[c].pc = "detaching"
      BY <3>1
    <3> QED BY <3>2
  <2> QED BY <2>2, <2>3, <2>4 DEF Known
<1> QED BY <1>1, <1>2, <1>3, SessionInvariance, PTL DEF Spec

-----------------------------------------------------------------------------
(***************************************************************************)
(* The spoken output: Speech keeps what SpeechPromise says, for every      *)
(* number of units, events and chunks.                                     *)
(***************************************************************************)
CONSTANTS MaxUnits, MaxEvents, MaxChunks
VARIABLES conn, turn, shut, reqs, rgen, outs, pump, stop, held, detach, units, events

Spoken == INSTANCE Speech

-----------------------------------------------------------------------------
\* What the queues hold.
Message(kinds) == [kind : kinds, sess : Nat, gen : Nat, unit : Nat, part : Nat]
OutKinds == {"chunk", "done", "error", "cancel"}
Outputs == Message(OutKinds)
Requests == [gen : Nat \ {0}, unit : Nat, final : BOOLEAN]
Running == [kind : {"check", "put", "end"}, r : Requests, part : Nat]
Boxes == [alive : BOOLEAN, floor : Nat,
          model : Seq(Message({"cancel", "error", "reset.done"})),
          audio : Seq(Message({"chunk", "done"}))]
Phases == {"live", "draining", "resetting", "closing", "parked", "stopping", "done"}

\* The types of the session and its worker ...
WorkerTypes ==
    /\ phase \in Phases /\ sess \in Nat \ {0} /\ gen \in Nat \ {0}
    /\ turn \in [open : BOOLEAN, renew : BOOLEAN] /\ shut \in BOOLEAN
    /\ reqs \in Seq(Requests) /\ job \in Running \cup {Spoken!Nothing}
    /\ rgen \in Nat /\ outs \in Seq(Outputs)
    /\ units \in Nat /\ made \subseteq Message({"chunk"})

\* ... and of its connections.
LinkTypes ==
    /\ conn \in Spoken!Links /\ events \in 0..MaxEvents
    /\ pump \in [Spoken!Links -> {"off", "poll", "hold", "drain"}]
    /\ stop \in [Spoken!Links -> BOOLEAN]
    /\ held \in [Spoken!Links -> Seq(Outputs)]
    /\ detach \in [Spoken!Links -> {"none", "begun", "over"}]
    /\ box \in [Spoken!Links -> Boxes]
    /\ told \in [Spoken!Links -> Nat]

\* The caches continue the generation the worker speaks, and no other.
VoiceOK ==
    /\ rgen # 0 => cache \in {NoCache, << sess, rgen >>}
    /\ job # Spoken!Nothing => rgen = job.r.gen

\* Connections that are still to come, and how many may come.
ComingOK ==
    /\ conn <= events + 1 /\ (phase = "parked" => conn <= events)
    /\ \A c \in Spoken!Links :
          c > conn => /\ pump[c] = "off" /\ ~stop[c] /\ detach[c] = "none"
                      /\ told[c] = 0

\* A connection that is not the current one, or dropped.
GoneOK ==
    \A c \in Spoken!Links :
        /\ box[c].alive <=> c = conn /\ phase # "parked"
        /\ ~box[c].alive => /\ box[c].model = << >> /\ box[c].audio = << >>
                            /\ Spoken!Chunks(held[c]) \subseteq lost
        /\ detach[c] = "begun" => ~box[c].alive

\* What a pump has in hand, by where it stands.
PumpOK ==
    \A c \in Spoken!Links :
        /\ pump[c] \in {"off", "poll"} => held[c] = << >>
        /\ pump[c] = "hold" => Len(held[c]) = 1
        /\ pump[c] = "drain" => held[c] # << >>

\* The floor of an outbox covers its cancels, and what the client was told.
FloorOK ==
    \A c \in Spoken!Links :
        /\ \A m \in ToSet(box[c].model) : m.kind = "cancel" => m.gen <= box[c].floor
        /\ box[c].alive => told[c] <= box[c].floor

\* What the handler knows of its pump and worker, by where it stands.
PhaseOK ==
    /\ phase \in {"live", "draining"} => ~stop[conn] /\ pump[conn] \in {"poll", "hold"}
    /\ phase = "closing" => pump[conn] = "off"
    /\ phase \in {"stopping", "done"} =>
          /\ shut /\ job = Spoken!Nothing /\ reqs = << >>
          /\ stop[conn]
          /\ pump[conn] \in {"drain", "off"} => outs = << >>
    /\ phase = "done" => /\ pump[conn] = "off"
                         /\ box[conn].model = << >> /\ box[conn].audio = << >>

\* The first session: nothing is of a generation to come.
YoungOK ==
    sess = 1 =>
        /\ \A m \in made \cup ToSet(outs) \cup ToSet(reqs) : m.gen <= gen
        /\ job # Spoken!Nothing => job.r.gen <= gen
        /\ \A c \in Spoken!Links :
              /\ box[c].floor <= gen
              /\ \A m \in ToSet(held[c]) : m.gen <= gen

\* ... and what it made and did not cancel is on its way, heard or lost.
Conserved ==
    sess = 1 /\ phase \notin {"resetting", "closing"} =>
        \A m \in made : m.gen = gen =>
            \/ m \in ToSet(outs) \cup ToSet(held[conn]) \cup ToSet(box[conn].audio)
            \/ m \in heard \cup lost

\* The invariant of the spoken output.
SpeechInv == /\ WorkerTypes /\ LinkTypes /\ VoiceOK /\ ComingOK /\ GoneOK /\ PumpOK
             /\ FloorOK /\ PhaseOK /\ YoungOK /\ Conserved

-----------------------------------------------------------------------------
(* Sequences and what is in them                                           *)

\* Nothing is in the empty sequence, one thing in a sequence of one.
LEMMA FewItems == ToSet(<< >>) = {} /\ \A e : ToSet(<< e >>) = {e}
BY DEF ToSet

\* What is in a sequence is of its type.
LEMMA ItemsIn == ASSUME NEW S, NEW s \in Seq(S) PROVE ToSet(s) \subseteq S
BY ElementOfSeq, LenProperties DEF ToSet

\* One more at the end.
LEMMA LastItem ==
    ASSUME NEW S, NEW s \in Seq(S), NEW e \in S
    PROVE  /\ Append(s, e) \in Seq(S) /\ Append(s, e) # << >>
           /\ ToSet(Append(s, e)) = ToSet(s) \cup {e}
<1>1. /\ Append(s, e) \in Seq(S) /\ Len(Append(s, e)) = Len(s) + 1
      /\ \A i \in 1..Len(s) : Append(s, e)[i] = s[i]
      /\ Append(s, e)[Len(s) + 1] = e /\ Len(s) \in Nat
  BY AppendProperties, LenProperties
<1>2. ToSet(s) = {s[i] : i \in 1..Len(s)}
  BY LenProperties DEF ToSet
<1>3. ToSet(Append(s, e)) = {Append(s, e)[i] : i \in 1..Len(s) + 1}
  <2>1. DOMAIN Append(s, e) = 1..Len(s) + 1 BY <1>1, LenProperties
  <2> QED BY <2>1 DEF ToSet
<1>4. ASSUME NEW f \in ToSet(Append(s, e)) PROVE f \in ToSet(s) \cup {e}
  <2>1. PICK i \in 1..Len(s) + 1 : f = Append(s, e)[i] BY <1>3, <1>4
  <2>2. CASE i \in 1..Len(s) BY <1>1, <1>2, <2>1, <2>2
  <2>3. CASE i = Len(s) + 1 BY <1>1, <2>1, <2>3
  <2> QED BY <1>1, <2>1, <2>2, <2>3
<1>5. ASSUME NEW f \in ToSet(s) PROVE f \in ToSet(Append(s, e))
  <2>1. PICK i \in 1..Len(s) : f = s[i] BY <1>2, <1>5
  <2>2. i \in 1..Len(s) + 1 /\ Append(s, e)[i] = f BY <1>1, <2>1
  <2> QED BY <1>3, <2>2
<1>6. e \in ToSet(Append(s, e))
  <2>1. Len(s) + 1 \in 1..Len(s) + 1 BY <1>1
  <2> QED BY <1>1, <1>3, <2>1
<1>7. Append(s, e) # << >> BY <1>1, EmptySeq
<1> QED BY <1>1, <1>4, <1>5, <1>6, <1>7

\* One taken from the front.
LEMMA FirstItem ==
    ASSUME NEW S, NEW s \in Seq(S), s # << >>
    PROVE  /\ Head(s) \in S /\ Tail(s) \in Seq(S)
           /\ ToSet(s) = {Head(s)} \cup ToSet(Tail(s))
<1>1. /\ Head(s) = s[1] /\ Head(s) \in S /\ Tail(s) \in Seq(S)
      /\ Len(Tail(s)) = Len(s) - 1 /\ Len(s) \in Nat \ {0}
      /\ \A i \in 1..Len(s) - 1 : Tail(s)[i] = s[i + 1]
  OBVIOUS
<1>2. ToSet(s) = {s[i] : i \in 1..Len(s)}
  BY LenProperties DEF ToSet
<1>3. ToSet(Tail(s)) = {Tail(s)[i] : i \in 1..Len(s) - 1}
  <2>1. DOMAIN Tail(s) = 1..Len(s) - 1 BY <1>1, LenProperties
  <2> QED BY <2>1 DEF ToSet
<1>4. ASSUME NEW f \in ToSet(s) PROVE f \in {Head(s)} \cup ToSet(Tail(s))
  <2>1. PICK i \in 1..Len(s) : f = s[i] BY <1>2, <1>4
  <2>2. CASE i = 1 BY <1>1, <2>1, <2>2
  <2>3. CASE i # 1
    <3>1. i - 1 \in 1..Len(s) - 1 /\ (i - 1) + 1 = i BY <1>1, <2>3
    <3>2. Tail(s)[i - 1] = f BY <1>1, <2>1, <3>1
    <3> QED BY <1>3, <3>1, <3>2
  <2> QED BY <2>2, <2>3
<1>5. ASSUME NEW f \in ToSet(Tail(s)) PROVE f \in ToSet(s)
  <2>1. PICK i \in 1..Len(s) - 1 : f = Tail(s)[i] BY <1>3, <1>5
  <2>2. i + 1 \in 1..Len(s) /\ s[i + 1] = f BY <1>1, <2>1
  <2> QED BY <1>2, <2>2
<1>6. Head(s) \in ToSet(s)
  <2>1. 1 \in 1..Len(s) BY <1>1
  <2> QED BY <1>1, <1>2, <2>1
<1> QED BY <1>1, <1>4, <1>5, <1>6

\* Two sequences joined.
LEMMA JoinedItems ==
    ASSUME NEW S, NEW s \in Seq(S), NEW t \in Seq(S)
    PROVE  ToSet(s \o t) = ToSet(s) \cup ToSet(t)
<1>1. /\ Len(s \o t) = Len(s) + Len(t) /\ Len(s) \in Nat /\ Len(t) \in Nat
      /\ \A i \in 1..Len(s) : (s \o t)[i] = s[i]
      /\ \A i \in 1..Len(t) : (s \o t)[Len(s) + i] = t[i]
      /\ s \o t \in Seq(S)
  OBVIOUS
<1>2. /\ ToSet(s) = {s[i] : i \in 1..Len(s)}
      /\ ToSet(t) = {t[i] : i \in 1..Len(t)}
  BY LenProperties DEF ToSet
<1>3. ToSet(s \o t) = {(s \o t)[i] : i \in 1..Len(s) + Len(t)}
  <2>1. DOMAIN (s \o t) = 1..Len(s) + Len(t) BY <1>1, LenProperties
  <2> QED BY <2>1 DEF ToSet
<1>4. ASSUME NEW f \in ToSet(s \o t) PROVE f \in ToSet(s) \cup ToSet(t)
  <2>1. PICK i \in 1..Len(s) + Len(t) : f = (s \o t)[i] BY <1>3, <1>4
  <2>2. CASE i \in 1..Len(s) BY <1>1, <1>2, <2>1, <2>2
  <2>3. CASE i \notin 1..Len(s)
    <3>1. i - Len(s) \in 1..Len(t) /\ Len(s) + (i - Len(s)) = i BY <1>1, <2>3
    <3>2. t[i - Len(s)] = f BY <1>1, <2>1, <3>1
    <3> QED BY <1>2, <3>1, <3>2
  <2> QED BY <2>2, <2>3
<1>5. ASSUME NEW f \in ToSet(s) PROVE f \in ToSet(s \o t)
  <2>1. PICK i \in 1..Len(s) : f = s[i] BY <1>2, <1>5
  <2>2. i \in 1..Len(s) + Len(t) /\ (s \o t)[i] = f BY <1>1, <2>1
  <2> QED BY <1>3, <2>2
<1>6. ASSUME NEW f \in ToSet(t) PROVE f \in ToSet(s \o t)
  <2>1. PICK i \in 1..Len(t) : f = t[i] BY <1>2, <1>6
  <2>2. Len(s) + i \in 1..Len(s) + Len(t) /\ (s \o t)[Len(s) + i] = f BY <1>1, <2>1
  <2> QED BY <1>3, <2>2
<1> QED BY <1>4, <1>5, <1>6

\* The chunks of a sequence.
LEMMA ChunksIn ==
    \A s : Spoken!Chunks(s) = {m \in ToSet(s) : m.kind = "chunk"}
BY DEF Spoken!Chunks, Spoken!ToSet, ToSet

-----------------------------------------------------------------------------
(* The initial state, and the steps of the session and its worker          *)

USE DEF Spoken!Links, Spoken!Nothing, NoCache, Spoken!NoCache

\* The links are numbered from the first.
LEMMA LinkFacts ==
    ASSUME Spoken!SpeechAssumption
    PROVE  /\ MaxEvents \in Nat /\ MaxUnits \in Nat /\ MaxChunks \in Nat
           /\ 1 \in Spoken!Links /\ Spoken!Links \subseteq Nat \ {0}
BY DEF Spoken!SpeechAssumption

\* At the start nothing is said and one connection is live.
LEMMA InitOK == ASSUME Spoken!SpeechAssumption, Spoken!Init PROVE SpeechInv
<1>0. /\ MaxEvents \in Nat /\ MaxUnits \in Nat /\ MaxChunks \in Nat
      /\ 1 \in Spoken!Links /\ Spoken!Links \subseteq Nat \ {0}
  BY LinkFacts
<1>1. WorkerTypes
  <2>1. << >> \in Seq(Requests) /\ << >> \in Seq(Outputs)
    BY EmptySeq
  <2>2. /\ phase = "live" /\ sess = 1 /\ gen = 1 /\ units = 0 /\ made = {} /\ rgen = 0
        /\ turn = [open |-> FALSE, renew |-> FALSE] /\ shut = FALSE
        /\ reqs = << >> /\ outs = << >> /\ job = Spoken!Nothing
    BY DEF Spoken!Init
  <2>3. turn \in [open : BOOLEAN, renew : BOOLEAN]
    BY <2>2
  <2>4. /\ phase \in Phases /\ sess \in Nat \ {0} /\ gen \in Nat \ {0} /\ rgen \in Nat
        /\ units \in Nat
    BY <2>2 DEF Phases
  <2>6. made \subseteq Message({"chunk"}) /\ shut \in BOOLEAN
    BY <2>2
  <2>5. job \in Running \cup {Spoken!Nothing}
    BY <2>2
  <2> QED BY <2>1, <2>2, <2>3, <2>4, <2>5, <2>6 DEF WorkerTypes
<1>2. \A b \in BOOLEAN :
          /\ Spoken!Box(b) \in Boxes
          /\ Spoken!Box(b).alive = b /\ Spoken!Box(b).floor = 0
          /\ Spoken!Box(b).model = << >> /\ Spoken!Box(b).audio = << >>
  BY EmptySeq DEF Spoken!Box, Boxes
<1>3. LinkTypes
  <2>1. \A c \in Spoken!Links : Spoken!Box(c = 1) \in Boxes /\ << >> \in Seq(Outputs)
    BY <1>2, EmptySeq
  <2>2. /\ conn = 1 /\ events = 0
        /\ pump = [c \in Spoken!Links |-> IF c = 1 THEN "poll" ELSE "off"]
        /\ stop = [c \in Spoken!Links |-> FALSE]
        /\ held = [c \in Spoken!Links |-> << >>]
        /\ detach = [c \in Spoken!Links |-> "none"]
        /\ box = [c \in Spoken!Links |-> Spoken!Box(c = 1)]
        /\ told = [c \in Spoken!Links |-> 0]
    BY DEF Spoken!Init
  <2> HIDE DEF Spoken!Links
  <2>3. box \in [Spoken!Links -> Boxes]
    BY <2>1, <2>2
  <2>4. held \in [Spoken!Links -> Seq(Outputs)]
    BY <2>1, <2>2
  <2>5. /\ pump \in [Spoken!Links -> {"off", "poll", "hold", "drain"}]
        /\ stop \in [Spoken!Links -> BOOLEAN] /\ told \in [Spoken!Links -> Nat]
        /\ detach \in [Spoken!Links -> {"none", "begun", "over"}]
    BY <2>2
  <2>6. conn \in Spoken!Links /\ events \in 0..MaxEvents
    BY <1>0, <2>2
  <2> QED BY <2>3, <2>4, <2>5, <2>6 DEF LinkTypes
<1>4. VoiceOK /\ ComingOK
  BY <1>0 DEF Spoken!Init, VoiceOK, ComingOK
<1>5. \A c \in Spoken!Links : /\ box[c].alive <=> c = 1
                              /\ box[c].floor = 0
                              /\ box[c].model = << >> /\ box[c].audio = << >>
                              /\ held[c] = << >>
                              /\ pump[c] = IF c = 1 THEN "poll" ELSE "off"
                              /\ detach[c] = "none" /\ told[c] = 0 /\ ~stop[c]
  <2>1. \A c \in Spoken!Links : box[c] = Spoken!Box(c = 1) /\ (c = 1) \in BOOLEAN
    BY DEF Spoken!Init
  <2> QED BY <1>2, <2>1 DEF Spoken!Init
<1>6. conn = 1 /\ phase = "live" /\ sess = 1 /\ made = {} /\ outs = << >> /\ reqs = << >>
      /\ gen = 1 /\ job = Spoken!Nothing
  BY DEF Spoken!Init
<1>7. ToSet(<< >>) = {}
  BY FewItems
<1>8. GoneOK
  BY <1>5, <1>6, <1>7, ChunksIn DEF GoneOK
<1>9. PumpOK
  BY <1>5 DEF PumpOK
<1>10. FloorOK
  BY <1>5, <1>7 DEF FloorOK
<1>11. PhaseOK
  BY <1>0, <1>5, <1>6 DEF PhaseOK
<1>12. YoungOK
  BY <1>5, <1>6, <1>7 DEF YoungOK
<1>13. Conserved
  BY <1>6 DEF Conserved
<1> QED BY <1>1, <1>3, <1>4, <1>8, <1>9, <1>10, <1>11, <1>12, <1>13 DEF SpeechInv

LinkPart == LinkTypes /\ ComingOK /\ GoneOK /\ PumpOK /\ FloorOK

\* A step of the worker, and of the session that hands it text, leaves the
\* connections as they are.
WorkStep ==
    /\ UNCHANGED << phase, conn, sess, detach, shut >>
    /\ UNCHANGED << pump, stop, held, box, told, heard, lost >>
    /\ events' \in {events, events + 1} /\ events' <= MaxEvents

LEMMA WorkKeepsLinks ==
    ASSUME SpeechInv, WorkStep, Spoken!SpeechAssumption
    PROVE  LinkPart'
<1>0. /\ MaxEvents \in Nat /\ MaxUnits \in Nat /\ MaxChunks \in Nat
      /\ 1 \in Spoken!Links /\ Spoken!Links \subseteq Nat \ {0}
  BY LinkFacts
<1>1. LinkTypes'
  BY <1>0 DEF SpeechInv, WorkStep, LinkTypes
<1>2. ComingOK'
  <2>1. conn \in Nat /\ events \in Nat /\ (events' = events \/ events' = events + 1)
    BY <1>0 DEF SpeechInv, WorkStep, LinkTypes
  <2>2. conn <= events + 1 /\ (phase = "parked" => conn <= events)
    BY DEF SpeechInv, ComingOK
  <2>3. conn <= events' + 1 /\ (phase = "parked" => conn <= events')
    BY <2>1, <2>2
  <2> QED BY <2>3 DEF SpeechInv, WorkStep, ComingOK
<1>3. GoneOK'
  BY DEF SpeechInv, WorkStep, GoneOK, Spoken!Chunks, Spoken!ToSet
<1>4. PumpOK' /\ FloorOK'
  BY DEF SpeechInv, WorkStep, PumpOK, FloorOK, ToSet
<1> QED BY <1>1, <1>2, <1>3, <1>4 DEF LinkPart

\* What the messages of the first session say of a step that keeps the links.
LEMMA WorkKeepsSpeech ==
    ASSUME SpeechInv, WorkStep, Spoken!SpeechAssumption,
           phase \notin {"stopping", "done"},
           WorkerTypes', VoiceOK', gen' >= gen,
           \A r \in ToSet(reqs') : r \in ToSet(reqs) \/ r.gen <= gen',
           job' # Spoken!Nothing => \/ job # Spoken!Nothing /\ job'.r.gen = job.r.gen
                                    \/ \E r \in ToSet(reqs) : job'.r.gen = r.gen,
           \A m \in ToSet(outs) : m \in ToSet(outs'),
           \A m \in ToSet(outs') : \/ m \in ToSet(outs)
                                   \/ m.kind = "cancel" /\ m.gen = gen'
                                   \/ job # Spoken!Nothing /\ m.gen = job.r.gen,
           \A m \in made' : \/ m \in made
                            \/ /\ m \in ToSet(outs')
                               /\ job # Spoken!Nothing /\ m.gen = job.r.gen
    PROVE  SpeechInv'
<1>0. LinkPart'
  BY WorkKeepsLinks
<1>1. gen \in Nat /\ gen' \in Nat
  BY DEF SpeechInv, WorkerTypes
<1>2. PhaseOK'
  BY DEF SpeechInv, WorkStep, PhaseOK
<1>3. ASSUME sess = 1
      PROVE  /\ \A m \in made' \cup ToSet(outs') \cup ToSet(reqs') : m.gen <= gen'
             /\ job' # Spoken!Nothing => job'.r.gen <= gen'
             /\ \A c \in Spoken!Links : /\ box[c].floor <= gen'
                                        /\ \A m \in ToSet(held[c]) : m.gen <= gen'
  <2>0. /\ \A m \in made : m \in Message({"chunk"})
        /\ \A m \in ToSet(outs) : m \in Outputs
        /\ \A m \in ToSet(reqs) : m \in Requests
        /\ job # Spoken!Nothing => job.r \in Requests
        /\ \A c \in Spoken!Links : /\ box[c] \in Boxes
                                   /\ \A m \in ToSet(held[c]) : m \in Outputs
    BY ItemsIn DEF SpeechInv, WorkerTypes, LinkTypes, Running
  <2>1. /\ \A m \in made \cup ToSet(outs) \cup ToSet(reqs) : m.gen \in Nat /\ m.gen <= gen
        /\ job # Spoken!Nothing => job.r.gen \in Nat /\ job.r.gen <= gen
        /\ \A c \in Spoken!Links :
              /\ box[c].floor \in Nat /\ box[c].floor <= gen
              /\ \A m \in ToSet(held[c]) : m.gen \in Nat /\ m.gen <= gen
    BY <1>3, <2>0 DEF SpeechInv, YoungOK, Message, Outputs, Requests, Boxes
  <2> QED BY <1>1, <2>1
<1>4. YoungOK'
  BY <1>3 DEF YoungOK, WorkStep
<1>5. Conserved'
  <2> SUFFICES ASSUME sess = 1, phase \notin {"resetting", "closing"},
                      NEW m \in made', m.gen = gen'
               PROVE  \/ m \in ToSet(outs') \cup ToSet(held[conn]) \cup ToSet(box[conn].audio)
                      \/ m \in heard \cup lost
    BY DEF Conserved, WorkStep
  <2>1. CASE m \in made
    <3>1. m.gen \in Nat /\ m.gen <= gen
      BY <2>1 DEF SpeechInv, WorkerTypes, YoungOK, Message
    <3>2. m.gen = gen
      BY <1>1, <3>1
    <3> QED BY <2>1, <3>2 DEF SpeechInv, Conserved
  <2>2. CASE m \notin made
    BY <2>2
  <2> QED BY <2>1, <2>2
<1> QED BY <1>0, <1>2, <1>4, <1>5 DEF LinkPart, SpeechInv

\* What the invariant says of the worker, with the queues as sets.
LEMMA WorkerFacts ==
    ASSUME SpeechInv
    PROVE  /\ gen \in Nat /\ gen # 0 /\ sess \in Nat /\ sess # 0 /\ rgen \in Nat /\ units \in Nat
           /\ reqs \in Seq(Requests) /\ outs \in Seq(Outputs)
           /\ ToSet(reqs) \subseteq Requests /\ ToSet(outs) \subseteq Outputs
           /\ made \subseteq Message({"chunk"})
           /\ job # Spoken!Nothing => job \in Running /\ job.r \in Requests
           /\ job = Spoken!Nothing \/ job \in Running
<1>1. /\ gen \in Nat \ {0} /\ sess \in Nat \ {0} /\ rgen \in Nat /\ units \in Nat
      /\ reqs \in Seq(Requests) /\ outs \in Seq(Outputs) /\ made \subseteq Message({"chunk"})
      /\ job \in Running \cup {Spoken!Nothing}
  BY DEF SpeechInv, WorkerTypes
<1>2. ToSet(reqs) \subseteq Requests /\ ToSet(outs) \subseteq Outputs
  BY <1>1, ItemsIn
<1> QED BY <1>1, <1>2 DEF Running

\* A cancel tells of a generation.
LEMMA CancelFacts ==
    ASSUME SpeechInv, NEW g \in Nat
    PROVE  /\ Spoken!CancelEvent(g) \in Outputs
           /\ Spoken!CancelEvent(g).kind = "cancel" /\ Spoken!CancelEvent(g).gen = g
BY WorkerFacts DEF Spoken!CancelEvent, Outputs, Message, OutKinds

\* A unit is spoken: its request is queued, under a new generation if the
\* turn is a new one.
LEMMA SpeakOK ==
    ASSUME SpeechInv, Spoken!SpeechAssumption, NEW final \in BOOLEAN, Spoken!Speak(final)
    PROVE  SpeechInv'
<1> DEFINE r == [gen |-> gen', unit |-> units', final |-> final]
<1>1. WorkStep /\ phase \notin {"stopping", "done"}
  BY LinkFacts DEF Spoken!Speak, WorkStep, Spoken!outputVars, SpeechInv, LinkTypes
<1>2. /\ gen' \in Nat \ {0} /\ gen' >= gen /\ units' \in Nat
      /\ UNCHANGED << phase, sess, shut, job, rgen, cache, made >>
      /\ turn' = [open |-> ~final, renew |-> final]
      /\ reqs' = Append(reqs, r)
      /\ outs' = outs \/ outs' = Append(outs, Spoken!CancelEvent(gen'))
  <2>1. /\ UNCHANGED << phase, sess, shut, job, rgen, cache, made >>
        /\ units' = units + 1 /\ (gen' = gen \/ gen' = gen + 1)
    BY DEF Spoken!Speak
  <2>2. /\ turn' = [open |-> ~final, renew |-> final]
        /\ reqs' = Append(reqs, r)
        /\ outs' = outs \/ outs' = Append(outs, Spoken!CancelEvent(gen'))
    BY DEF Spoken!Speak
  <2>3. gen' \in Nat \ {0} /\ gen' >= gen /\ units' \in Nat
    <3> HIDE DEF r
    <3> QED BY <2>1, WorkerFacts
  <2> QED BY <2>1, <2>2, <2>3
<1>3. r \in Requests /\ r.gen = gen'
  BY <1>2 DEF Requests
<1> HIDE DEF r
<1>4. reqs' \in Seq(Requests) /\ ToSet(reqs') = ToSet(reqs) \cup {r}
  BY <1>2, <1>3, WorkerFacts, LastItem
<1>5. /\ outs' \in Seq(Outputs) /\ ToSet(outs) \subseteq ToSet(outs')
      /\ \A m \in ToSet(outs') : m \in ToSet(outs) \/ (m.kind = "cancel" /\ m.gen = gen')
  <2>1. CASE outs' = outs
    BY <2>1, WorkerFacts
  <2>2. CASE outs' = Append(outs, Spoken!CancelEvent(gen'))
    <3>1. /\ Spoken!CancelEvent(gen') \in Outputs
          /\ Spoken!CancelEvent(gen').kind = "cancel" /\ Spoken!CancelEvent(gen').gen = gen'
      BY <1>2, CancelFacts
    <3>2. /\ outs' \in Seq(Outputs)
          /\ ToSet(outs') = ToSet(outs) \cup {Spoken!CancelEvent(gen')}
      BY <2>2, <3>1, WorkerFacts, LastItem
    <3> QED BY <3>1, <3>2
  <2> QED BY <1>2, <2>1, <2>2
<1>6. WorkerTypes'
  <2>1. turn' \in [open : BOOLEAN, renew : BOOLEAN]
    BY <1>2
  <2> QED BY <1>2, <1>4, <1>5, <2>1 DEF SpeechInv, WorkerTypes
<1>7. VoiceOK'
  BY <1>2 DEF SpeechInv, VoiceOK
<1>8. \A q \in ToSet(reqs') : q \in ToSet(reqs) \/ q.gen <= gen'
  BY <1>2, <1>3, <1>4
<1>9. job' # Spoken!Nothing => job # Spoken!Nothing /\ job'.r.gen = job.r.gen
  BY <1>2
<1> QED BY <1>1, <1>2, <1>5, <1>6, <1>7, <1>8, <1>9, WorkKeepsSpeech

\* The output is interrupted.
LEMMA InterruptOK ==
    ASSUME SpeechInv, Spoken!SpeechAssumption, Spoken!Interrupt
    PROVE  SpeechInv'
<1>1. WorkStep /\ phase \notin {"stopping", "done"}
  BY LinkFacts DEF Spoken!Interrupt, WorkStep, Spoken!outputVars, SpeechInv, LinkTypes
<1>2. /\ gen' = gen + 1 /\ outs' = Append(outs, Spoken!CancelEvent(gen + 1))
      /\ UNCHANGED << phase, sess, shut, reqs, job, rgen, cache, units, made >>
      /\ turn' = [open |-> FALSE, renew |-> FALSE] \/ turn' = turn
  BY DEF Spoken!Interrupt, Spoken!InterruptOutput, Spoken!Cancel
<1>3. gen' \in Nat \ {0} /\ gen' >= gen
  BY <1>2, WorkerFacts
<1>4. /\ outs' \in Seq(Outputs) /\ ToSet(outs) \subseteq ToSet(outs')
      /\ \A m \in ToSet(outs') : m \in ToSet(outs) \/ (m.kind = "cancel" /\ m.gen = gen')
  <2>1. /\ Spoken!CancelEvent(gen + 1) \in Outputs
        /\ Spoken!CancelEvent(gen + 1).kind = "cancel"
        /\ Spoken!CancelEvent(gen + 1).gen = gen + 1
    BY <1>2, <1>3, CancelFacts
  <2>2. /\ outs' \in Seq(Outputs)
        /\ ToSet(outs') = ToSet(outs) \cup {Spoken!CancelEvent(gen + 1)}
    BY <1>2, <2>1, WorkerFacts, LastItem
  <2> QED BY <1>2, <2>1, <2>2
<1>5. WorkerTypes'
  <2>1. turn' \in [open : BOOLEAN, renew : BOOLEAN]
    <3>1. turn \in [open : BOOLEAN, renew : BOOLEAN]
      BY DEF SpeechInv, WorkerTypes
    <3>2. [open |-> FALSE, renew |-> FALSE] \in [open : BOOLEAN, renew : BOOLEAN]
      OBVIOUS
    <3>3. turn' = [open |-> FALSE, renew |-> FALSE] \/ turn' = turn
      BY <1>2
    <3> HIDE DEF Spoken!Nothing
    <3> QED BY <3>1, <3>2, <3>3
  <2> QED BY <1>2, <1>3, <1>4, <2>1 DEF SpeechInv, WorkerTypes
<1>6. VoiceOK'
  BY <1>2 DEF SpeechInv, VoiceOK
<1> QED BY <1>1, <1>2, <1>3, <1>4, <1>5, <1>6, WorkKeepsSpeech

\* The worker takes a request: caches of another generation are reset.
LEMMA TakeOK ==
    ASSUME SpeechInv, Spoken!SpeechAssumption, Spoken!Take
    PROVE  SpeechInv'
<1> DEFINE r == Head(reqs)
<1>0. job = Spoken!Nothing /\ reqs # << >> /\ reqs' = Tail(reqs)
  BY DEF Spoken!Take
<1>1. WorkStep /\ phase \notin {"stopping", "done"}
  BY <1>0, LinkFacts DEF Spoken!Take, WorkStep, Spoken!outputVars, Spoken!sessionVars,
       SpeechInv, LinkTypes, PhaseOK
<1>2. /\ UNCHANGED << phase, sess, turn, gen, shut, outs, units, made >>
      /\ \/ UNCHANGED << job, rgen, cache >>
         \/ /\ job' = [kind |-> "check", r |-> r, part |-> 0]
            /\ rgen' = r.gen
            /\ cache' = IF rgen # r.gen THEN NoCache ELSE cache
  BY DEF Spoken!Take, Spoken!sessionVars
<1>3. /\ r \in Requests /\ reqs' \in Seq(Requests)
      /\ ToSet(reqs) = {r} \cup ToSet(reqs')
  BY <1>0, WorkerFacts, FirstItem
<1> HIDE DEF r
<1>4. r.gen \in Nat /\ r.gen # 0
  BY <1>3 DEF Requests
<1>5. CASE UNCHANGED << job, rgen, cache >>
  <2>1. WorkerTypes'
    BY <1>2, <1>3, <1>5 DEF SpeechInv, WorkerTypes
  <2>2. VoiceOK'
    BY <1>2, <1>5 DEF SpeechInv, VoiceOK
  <2> QED BY <1>0, <1>1, <1>2, <1>3, <1>5, <2>1, <2>2, WorkerFacts, WorkKeepsSpeech
<1>6. CASE /\ job' = [kind |-> "check", r |-> r, part |-> 0]
           /\ rgen' = r.gen
           /\ cache' = IF rgen # r.gen THEN NoCache ELSE cache
  <2>1. job' \in Running /\ job'.r = r
    BY <1>3, <1>6 DEF Running
  <2>2. WorkerTypes'
    BY <1>2, <1>3, <1>4, <1>6, <2>1 DEF SpeechInv, WorkerTypes
  <2>3. VoiceOK'
    <3>1. cache' \in {NoCache, << sess, r.gen >>}
      BY <1>4, <1>6 DEF SpeechInv, VoiceOK
    <3> QED BY <1>2, <1>6, <2>1, <3>1 DEF VoiceOK
  <2> QED BY <1>1, <1>2, <1>3, <2>1, <2>2, <2>3, WorkerFacts, WorkKeepsSpeech
<1> QED BY <1>2, <1>5, <1>6

\* The worker stops with a request, or puts out what it ends with.
LEMMA EndedOK ==
    ASSUME SpeechInv, Spoken!SpeechAssumption,
           Spoken!GiveUp \/ Spoken!Finish \/ Spoken!Fail
    PROVE  SpeechInv'
<1>1. job # Spoken!Nothing /\ job' = Spoken!Nothing
  BY DEF Spoken!GiveUp, Spoken!Finish, Spoken!Fail
<1>2. WorkStep /\ phase \notin {"stopping", "done"}
  BY <1>1, LinkFacts DEF Spoken!GiveUp, Spoken!Finish, Spoken!Fail, WorkStep,
       Spoken!outputVars, Spoken!sessionVars, SpeechInv, LinkTypes, PhaseOK
<1>3. /\ UNCHANGED << phase, sess, turn, gen, shut, reqs, units, made >>
      /\ \/ UNCHANGED << rgen, cache >>
         \/ rgen' = 0 /\ cache' = NoCache
      /\ \/ outs' = outs
         \/ \E k \in {"done", "error"} : outs' = Append(outs, Spoken!Output(k))
  BY DEF Spoken!GiveUp, Spoken!Finish, Spoken!Fail, Spoken!sessionVars
<1>4. \A k \in OutKinds : /\ Spoken!Output(k) \in Outputs
                          /\ Spoken!Output(k).gen = job.r.gen
  BY <1>1, WorkerFacts DEF Spoken!Output, Outputs, Message, Running, Requests
<1>5. /\ outs' \in Seq(Outputs) /\ ToSet(outs) \subseteq ToSet(outs')
      /\ \A m \in ToSet(outs') : m \in ToSet(outs) \/ m.gen = job.r.gen
  <2>1. CASE outs' = outs
    BY <2>1, WorkerFacts
  <2>2. ASSUME NEW k \in {"done", "error"}, outs' = Append(outs, Spoken!Output(k))
        PROVE  /\ outs' \in Seq(Outputs) /\ ToSet(outs) \subseteq ToSet(outs')
               /\ \A m \in ToSet(outs') : m \in ToSet(outs) \/ m.gen = job.r.gen
    <3>1. Spoken!Output(k) \in Outputs /\ Spoken!Output(k).gen = job.r.gen
      BY <1>4 DEF OutKinds
    <3>2. outs' \in Seq(Outputs) /\ ToSet(outs') = ToSet(outs) \cup {Spoken!Output(k)}
      BY <2>2, <3>1, WorkerFacts, LastItem
    <3> QED BY <3>1, <3>2
  <2> QED BY <1>3, <2>1, <2>2
<1>6. WorkerTypes'
  <2>1. rgen' \in Nat
    BY <1>3, WorkerFacts
  <2> QED BY <1>1, <1>3, <1>5, <2>1 DEF SpeechInv, WorkerTypes
<1>7. VoiceOK'
  BY <1>1, <1>3 DEF SpeechInv, VoiceOK
<1> QED BY <1>1, <1>2, <1>3, <1>5, <1>6, <1>7, WorkerFacts, WorkKeepsSpeech

\* The last check before a chunk is put out, or before the caches are kept.
LEMMA CheckOK ==
    ASSUME SpeechInv, Spoken!SpeechAssumption, Spoken!Check
    PROVE  SpeechInv'
<1>1. job # Spoken!Nothing
  BY DEF Spoken!Check
<1>2. WorkStep /\ phase \notin {"stopping", "done"}
  BY <1>1, LinkFacts DEF Spoken!Check, WorkStep,
       Spoken!outputVars, Spoken!sessionVars, SpeechInv, LinkTypes, PhaseOK
<1>3. /\ UNCHANGED << phase, sess, turn, gen, shut, reqs, rgen, outs, units, made >>
      /\ cache' = cache \/ cache' = Spoken!Kept(job.r)
      /\ \/ job' = [job EXCEPT !.kind = "put", !.part = @ + 1]
         \/ job' = [job EXCEPT !.kind = "end"]
  BY DEF Spoken!Check, Spoken!sessionVars
<1>4. job \in Running
  BY <1>1, WorkerFacts
<1>5. job' \in Running /\ job'.r = job.r
  <2>0. job.part + 1 \in Nat
    BY <1>4 DEF Running
  <2>1. /\ [job EXCEPT !.kind = "put", !.part = @ + 1] \in Running
        /\ [job EXCEPT !.kind = "put", !.part = @ + 1].r = job.r
    BY <1>4, <2>0 DEF Running
  <2>2. /\ [job EXCEPT !.kind = "end"] \in Running
        /\ [job EXCEPT !.kind = "end"].r = job.r
    BY <1>4 DEF Running
  <2> QED BY <1>3, <2>1, <2>2
<1>6. job' # Spoken!Nothing
  BY <1>5 DEF Running
<1>7. rgen = job.r.gen /\ job.r.gen # 0
  BY <1>1, WorkerFacts DEF SpeechInv, VoiceOK, Requests
<1>8. WorkerTypes'
  BY <1>3, <1>5 DEF SpeechInv, WorkerTypes
<1>9. VoiceOK'
  <2>1. cache \in {NoCache, << sess, rgen >>}
    BY <1>7 DEF SpeechInv, VoiceOK
  <2>2. cache' \in {NoCache, << sess, rgen >>}
    BY <1>3, <1>7, <2>1 DEF Spoken!Kept
  <2> QED BY <1>3, <1>5, <1>7, <2>2 DEF VoiceOK
<1> QED BY <1>1, <1>2, <1>3, <1>5, <1>8, <1>9, WorkerFacts, WorkKeepsSpeech

\* A chunk is put out.
LEMMA PutChunkOK ==
    ASSUME SpeechInv, Spoken!SpeechAssumption, Spoken!PutChunk
    PROVE  SpeechInv'
<1> DEFINE m == Spoken!Output("chunk")
<1>1. job # Spoken!Nothing
  BY DEF Spoken!PutChunk
<1>2. WorkStep /\ phase \notin {"stopping", "done"}
  BY <1>1, LinkFacts DEF Spoken!PutChunk, WorkStep,
       Spoken!outputVars, Spoken!sessionVars, SpeechInv, LinkTypes, PhaseOK
<1>3. /\ UNCHANGED << phase, sess, turn, gen, shut, reqs, rgen, cache, units >>
      /\ outs' = Append(outs, m) /\ made' = made \cup {m}
      /\ \/ job' = [job EXCEPT !.kind = "check"]
         \/ job' = [job EXCEPT !.part = job.part + 1]
  BY DEF Spoken!PutChunk, Spoken!sessionVars
<1>4. job \in Running
  BY <1>1, WorkerFacts
<1>5. job' \in Running /\ job'.r = job.r
  <2>1. /\ [job EXCEPT !.kind = "check"] \in Running
        /\ [job EXCEPT !.kind = "check"].r = job.r
    BY <1>4 DEF Running
  <2>2. /\ [job EXCEPT !.part = job.part + 1] \in Running
        /\ [job EXCEPT !.part = job.part + 1].r = job.r
    BY <1>4 DEF Running
  <2> QED BY <1>3, <2>1, <2>2
<1>6. m \in Message({"chunk"}) /\ m \in Outputs /\ m.gen = job.r.gen
  BY <1>4, WorkerFacts DEF Spoken!Output, Outputs, OutKinds, Message, Running, Requests
<1> HIDE DEF m
<1>7. outs' \in Seq(Outputs) /\ ToSet(outs') = ToSet(outs) \cup {m}
  BY <1>3, <1>6, WorkerFacts, LastItem
<1>8. WorkerTypes'
  BY <1>3, <1>5, <1>6, <1>7 DEF SpeechInv, WorkerTypes
<1>9. VoiceOK'
  BY <1>1, <1>3, <1>5 DEF SpeechInv, VoiceOK
<1> QED BY <1>1, <1>2, <1>3, <1>5, <1>6, <1>7, <1>8, <1>9, WorkerFacts, WorkKeepsSpeech

-----------------------------------------------------------------------------
(* The pump and the outbox of a connection                                 *)

\* What the invariant says of a connection, with its queues as sets.
LEMMA BoxFacts ==
    ASSUME SpeechInv, NEW c \in Spoken!Links
    PROVE  /\ box[c] \in Boxes /\ box[c].alive \in BOOLEAN
           /\ box[c].floor \in Nat /\ told[c] \in Nat
           /\ box[c].model \in Seq(Message({"cancel", "error", "reset.done"}))
           /\ box[c].audio \in Seq(Message({"chunk", "done"}))
           /\ ToSet(box[c].model) \subseteq Message({"cancel", "error", "reset.done"})
           /\ ToSet(box[c].audio) \subseteq Message({"chunk", "done"})
           /\ held[c] \in Seq(Outputs) /\ ToSet(held[c]) \subseteq Outputs
           /\ conn \in Spoken!Links
<1>1. box[c] \in Boxes /\ told[c] \in Nat /\ held[c] \in Seq(Outputs) /\ conn \in Spoken!Links
  BY DEF SpeechInv, LinkTypes
<1>2. /\ box[c].alive \in BOOLEAN /\ box[c].floor \in Nat
      /\ box[c].model \in Seq(Message({"cancel", "error", "reset.done"}))
      /\ box[c].audio \in Seq(Message({"chunk", "done"}))
  BY <1>1 DEF Boxes
<1> QED BY <1>1, <1>2, ItemsIn

\* What a pump or an outbox does leaves the worker and the handlers alone.
PumpStep(c) ==
    /\ UNCHANGED << phase, conn, sess, turn, gen, shut, reqs, job, rgen, cache,
                    stop, detach, units, events, made >>
    /\ \A d \in Spoken!Links \ {c} : /\ pump'[d] = pump[d] /\ held'[d] = held[d]
                                     /\ box'[d] = box[d] /\ told'[d] = told[d]
    /\ box'[c].alive = box[c].alive
    /\ lost \subseteq lost' /\ heard \subseteq heard'

LEMMA PumpKeeps ==
    ASSUME SpeechInv, Spoken!SpeechAssumption, NEW c \in Spoken!Links, PumpStep(c),
           outs' \in Seq(Outputs), ToSet(outs') \subseteq ToSet(outs),
           outs = << >> => outs' = << >>,
           LinkTypes',
           c > conn => pump'[c] = "off" /\ told'[c] = 0,
           ~box[c].alive => /\ box'[c].model = << >> /\ box'[c].audio = << >>
                            /\ Spoken!Chunks(held'[c]) \subseteq lost',
           /\ pump'[c] \in {"off", "poll"} => held'[c] = << >>
           /\ pump'[c] = "hold" => Len(held'[c]) = 1
           /\ pump'[c] = "drain" => held'[c] # << >>,
           \A m \in ToSet(box'[c].model) : m.kind = "cancel" => m.gen <= box'[c].floor,
           box[c].alive => told'[c] <= box'[c].floor,
           box[c].alive /\ ~stop[c] /\ pump[c] \in {"poll", "hold"}
               => pump'[c] \in {"poll", "hold"},
           c = conn /\ pump[c] = "off" => pump'[c] = "off",
           box[c].alive /\ pump'[c] \in {"drain", "off"} /\ stop[c]
               => outs' = << >> \/ pump[c] \in {"drain", "off"},
           box[c].model = << >> /\ box[c].audio = << >> /\ pump[c] = "off"
               => box'[c].model = << >> /\ box'[c].audio = << >>,
           sess = 1 => /\ box'[c].floor <= gen
                       /\ \A m \in ToSet(held'[c]) : m \in ToSet(held[c]) \cup ToSet(outs),
           \A m \in ToSet(outs) \cup ToSet(held[conn]) \cup ToSet(box[conn].audio) :
               m \in made /\ m.gen = gen /\ sess = 1 =>
                   \/ m \in ToSet(outs') \cup ToSet(held'[conn]) \cup ToSet(box'[conn].audio)
                   \/ m \in heard' \cup lost'
    PROVE  SpeechInv'
<1>1. WorkerTypes' /\ VoiceOK'
  BY DEF SpeechInv, PumpStep, WorkerTypes, VoiceOK
<1>2. ComingOK'
  BY DEF SpeechInv, PumpStep, ComingOK
<1>3. GoneOK'
  <2>1. ASSUME NEW d \in Spoken!Links
        PROVE  /\ box'[d].alive <=> d = conn /\ phase # "parked"
               /\ ~box'[d].alive => /\ box'[d].model = << >> /\ box'[d].audio = << >>
                                    /\ Spoken!Chunks(held'[d]) \subseteq lost'
               /\ detach[d] = "begun" => ~box'[d].alive
    <3>1. CASE d = c
      BY <3>1 DEF SpeechInv, GoneOK, PumpStep
    <3>2. CASE d # c
      BY <3>2 DEF SpeechInv, GoneOK, PumpStep
    <3> QED BY <3>1, <3>2
  <2> QED BY <2>1 DEF GoneOK, PumpStep, Spoken!Chunks, Spoken!ToSet
<1>4. PumpOK'
  BY DEF SpeechInv, PumpOK, PumpStep
<1>5. FloorOK'
  <2>1. ASSUME NEW d \in Spoken!Links
        PROVE  /\ \A m \in ToSet(box'[d].model) : m.kind = "cancel" => m.gen <= box'[d].floor
               /\ box'[d].alive => told'[d] <= box'[d].floor
    <3>1. CASE d = c
      BY <3>1 DEF PumpStep
    <3>2. CASE d # c
      BY <3>2 DEF SpeechInv, FloorOK, PumpStep
    <3> QED BY <3>1, <3>2
  <2> QED BY <2>1 DEF FloorOK, ToSet
<1>6. PhaseOK'
  <2>1. conn \in Spoken!Links
    BY DEF SpeechInv, LinkTypes
  <2>2. phase # "parked" => box[conn].alive
    BY <2>1 DEF SpeechInv, GoneOK
  <2> QED BY <2>1, <2>2 DEF SpeechInv, PhaseOK, PumpStep
<1>7. YoungOK'
  <2> SUFFICES ASSUME sess = 1
               PROVE  /\ \A m \in made \cup ToSet(outs') \cup ToSet(reqs) : m.gen <= gen
                      /\ job # Spoken!Nothing => job.r.gen <= gen
                      /\ \A d \in Spoken!Links :
                            /\ box'[d].floor <= gen
                            /\ \A m \in ToSet(held'[d]) : m.gen <= gen
    BY DEF YoungOK, PumpStep, ToSet
  <2>1. /\ \A m \in made \cup ToSet(outs') \cup ToSet(reqs) : m.gen <= gen
        /\ job # Spoken!Nothing => job.r.gen <= gen
    BY DEF SpeechInv, YoungOK
  <2>2. ASSUME NEW d \in Spoken!Links
        PROVE  box'[d].floor <= gen /\ \A m \in ToSet(held'[d]) : m.gen <= gen
    <3>1. CASE d = c
      BY <3>1 DEF SpeechInv, YoungOK
    <3>2. CASE d # c
      BY <3>2 DEF SpeechInv, YoungOK, PumpStep
    <3> QED BY <3>1, <3>2
  <2> QED BY <2>1, <2>2
<1>8. Conserved'
  BY DEF SpeechInv, Conserved, PumpStep
<1> QED BY <1>1, <1>2, <1>3, <1>4, <1>5, <1>6, <1>7, <1>8 DEF SpeechInv

\* Only the current connection can be alive, and the pumps of those to come
\* are off.
LEMMA AliveFacts ==
    ASSUME SpeechInv, Spoken!SpeechAssumption, NEW c \in Spoken!Links
    PROVE  /\ box[c].alive => c = conn
           /\ ~box[c].alive => /\ box[c].model = << >> /\ box[c].audio = << >>
                               /\ \A m \in ToSet(held[c]) : m.kind = "chunk" => m \in lost
           /\ c > conn => pump[c] = "off" /\ told[c] = 0 /\ c # conn
           /\ \A m \in ToSet(box[c].model) : m.kind = "cancel" => m.gen <= box[c].floor
           /\ box[c].alive => told[c] <= box[c].floor
           /\ sess = 1 => box[c].floor <= gen
<1>1. conn \in Nat /\ c \in Nat
  BY LinkFacts DEF SpeechInv, LinkTypes
<1>2. /\ box[c].alive => c = conn
      /\ ~box[c].alive => /\ box[c].model = << >> /\ box[c].audio = << >>
                          /\ \A m \in ToSet(held[c]) : m.kind = "chunk" => m \in lost
  BY ChunksIn DEF SpeechInv, GoneOK
<1>3. c > conn => pump[c] = "off" /\ told[c] = 0 /\ c # conn
  BY <1>1 DEF SpeechInv, ComingOK
<1>4. /\ \A m \in ToSet(box[c].model) : m.kind = "cancel" => m.gen <= box[c].floor
      /\ box[c].alive => told[c] <= box[c].floor
  BY DEF SpeechInv, FloorOK
<1>5. sess = 1 => box[c].floor <= gen
  BY DEF SpeechInv, YoungOK
<1> QED BY <1>2, <1>3, <1>4, <1>5

\* The pump takes one output.
LEMMA PollOK ==
    ASSUME SpeechInv, Spoken!SpeechAssumption, NEW c \in Spoken!Links, Spoken!Poll(c)
    PROVE  SpeechInv'
<1> DEFINE h == Head(outs)
<1>0. /\ pump[c] = "poll" /\ outs # << >> /\ outs' = Tail(outs)
      /\ pump' = [pump EXCEPT ![c] = "hold"]
      /\ held' = [held EXCEPT ![c] = << h >>]
      /\ lost' = IF box[c].alive THEN lost ELSE lost \cup Spoken!Chunks(<< h >>)
      /\ UNCHANGED << turn, gen, shut, reqs, job, rgen, cache, stop, box, told, made, heard >>
      /\ UNCHANGED << phase, conn, sess, detach, units, events >>
  BY DEF Spoken!Poll, Spoken!Taken, Spoken!sessionVars
<1>1. h \in Outputs /\ outs' \in Seq(Outputs) /\ ToSet(outs) = {h} \cup ToSet(outs')
  BY <1>0, WorkerFacts, FirstItem
<1> HIDE DEF h
<1>2. << h >> \in Seq(Outputs) /\ ToSet(<< h >>) = {h} /\ Len(<< h >>) = 1 /\ << h >> # << >>
  BY <1>1, FewItems
<1>3. held[c] = << >> /\ ToSet(held[c]) = {}
  BY <1>0, FewItems DEF SpeechInv, PumpOK
<1>4. /\ pump'[c] = "hold" /\ held'[c] = << h >> /\ ToSet(held'[c]) = {h}
      /\ \A d \in Spoken!Links \ {c} : pump'[d] = pump[d] /\ held'[d] = held[d]
  <2>1. c \in DOMAIN pump /\ c \in DOMAIN held
    BY DEF SpeechInv, LinkTypes
  <2> QED BY <1>0, <1>2, <2>1 DEF SpeechInv, LinkTypes
<1>5. LinkTypes'
  <2>1. held' \in [Spoken!Links -> Seq(Outputs)]
    BY <1>0, <1>2 DEF SpeechInv, LinkTypes
  <2>2. pump' \in [Spoken!Links -> {"off", "poll", "hold", "drain"}]
    BY <1>0 DEF SpeechInv, LinkTypes
  <2> QED BY <1>0, <2>1, <2>2 DEF SpeechInv, LinkTypes
<1>6. PumpStep(c)
  BY <1>0, <1>4 DEF PumpStep
<1>7. ~box[c].alive => Spoken!Chunks(<< h >>) \subseteq lost' /\ (h.kind = "chunk" => h \in lost')
  BY <1>0, <1>2, ChunksIn
<1>8. \A m \in ToSet(outs) \cup ToSet(held[conn]) \cup ToSet(box[conn].audio) :
          m \in made /\ m.gen = gen /\ sess = 1 =>
              \/ m \in ToSet(outs') \cup ToSet(held'[conn]) \cup ToSet(box'[conn].audio)
              \/ m \in heard' \cup lost'
  <2> SUFFICES ASSUME NEW m \in ToSet(outs) \cup ToSet(held[conn]) \cup ToSet(box[conn].audio),
                      m \in made
               PROVE  \/ m \in ToSet(outs') \cup ToSet(held'[conn]) \cup ToSet(box'[conn].audio)
                      \/ m \in heard' \cup lost'
    OBVIOUS
  <2>0. m.kind = "chunk" /\ conn \in Spoken!Links
    BY WorkerFacts, BoxFacts DEF Message
  <2>1. CASE m = h
    <3>1. CASE box[c].alive
      BY <1>4, <2>1, <3>1, AliveFacts
    <3>2. CASE ~box[c].alive
      BY <1>7, <2>0, <2>1, <3>2
    <3> QED BY <3>1, <3>2
  <2>2. CASE m \in ToSet(outs) /\ m # h
    BY <1>1, <2>2
  <2>3. CASE m \in ToSet(held[conn])
    BY <1>3, <1>4, <2>0, <2>3
  <2>4. CASE m \in ToSet(box[conn].audio)
    BY <1>0, <2>4
  <2> QED BY <2>1, <2>2, <2>3, <2>4
<1>9. /\ c > conn => FALSE
      /\ ~box[c].alive => box[c].model = << >> /\ box[c].audio = << >>
      /\ \A m \in ToSet(box[c].model) : m.kind = "cancel" => m.gen <= box[c].floor
      /\ box[c].alive => told[c] <= box[c].floor
      /\ sess = 1 => box[c].floor <= gen
  BY <1>0, AliveFacts
<1>10. /\ \A m \in ToSet(box'[c].model) : m.kind = "cancel" => m.gen <= box'[c].floor
       /\ box[c].alive => told'[c] <= box'[c].floor
       /\ sess = 1 => /\ box'[c].floor <= gen
                      /\ \A m \in ToSet(held'[c]) : m \in ToSet(held[c]) \cup ToSet(outs)
       /\ ~box[c].alive => /\ box'[c].model = << >> /\ box'[c].audio = << >>
                           /\ Spoken!Chunks(held'[c]) \subseteq lost'
       /\ c > conn => pump'[c] = "off" /\ told'[c] = 0
       /\ box[c].model = << >> /\ box[c].audio = << >> /\ pump[c] = "off"
              => box'[c].model = << >> /\ box'[c].audio = << >>
  BY <1>0, <1>1, <1>4, <1>7, <1>9
<1>11. ToSet(outs') \subseteq ToSet(outs)
  BY <1>1
<1>12. /\ pump'[c] \in {"off", "poll"} => held'[c] = << >>
       /\ pump'[c] = "hold" => Len(held'[c]) = 1
       /\ pump'[c] = "drain" => held'[c] # << >>
       /\ box[c].alive /\ ~stop[c] /\ pump[c] \in {"poll", "hold"} => pump'[c] \in {"poll", "hold"}
       /\ box[c].alive /\ pump'[c] \in {"drain", "off"} /\ stop[c]
               => outs' = << >> \/ pump[c] \in {"drain", "off"}
       /\ c = conn /\ pump[c] = "off" => pump'[c] = "off"
  BY <1>0, <1>2, <1>4
<1>13. outs = << >> => outs' = << >>
  BY <1>0
<1> QED BY <1>1, <1>5, <1>6, <1>8, <1>10, <1>11, <1>12, <1>13, PumpKeeps

\* The pump takes all that is buffered, and ends when that is nothing.
LEMMA RestFacts ==
    ASSUME SpeechInv, Spoken!SpeechAssumption, NEW c \in Spoken!Links, Spoken!TakeRest(c)
    PROVE  /\ held'[c] = outs /\ outs' = << >> /\ outs' \in Seq(Outputs) /\ ToSet(outs') = {}
           /\ pump'[c] = IF outs = << >> THEN "off" ELSE "drain"
           /\ \A d \in Spoken!Links \ {c} : pump'[d] = pump[d] /\ held'[d] = held[d]
           /\ held' \in [Spoken!Links -> Seq(Outputs)]
           /\ pump' \in [Spoken!Links -> {"off", "poll", "hold", "drain"}]
           /\ lost \subseteq lost'
           /\ ~box[c].alive => /\ Spoken!Chunks(held'[c]) \subseteq lost'
                               /\ \A m \in ToSet(outs) : m.kind = "chunk" => m \in lost'
<1>1. /\ held' = [held EXCEPT ![c] = outs] /\ outs' = << >>
      /\ pump' = [pump EXCEPT ![c] = IF outs = << >> THEN "off" ELSE "drain"]
      /\ lost' = IF box[c].alive THEN lost ELSE lost \cup Spoken!Chunks(outs)
  BY DEF Spoken!TakeRest, Spoken!Taken
<1>2. outs \in Seq(Outputs) /\ << >> \in Seq(Outputs) /\ ToSet(<< >>) = {}
  BY WorkerFacts, FewItems, EmptySeq
<1>3. /\ held'[c] = outs /\ held' \in [Spoken!Links -> Seq(Outputs)]
      /\ \A d \in Spoken!Links \ {c} : held'[d] = held[d]
  BY <1>1, <1>2 DEF SpeechInv, LinkTypes
<1>4. /\ pump'[c] = IF outs = << >> THEN "off" ELSE "drain"
      /\ pump' \in [Spoken!Links -> {"off", "poll", "hold", "drain"}]
      /\ \A d \in Spoken!Links \ {c} : pump'[d] = pump[d]
  BY <1>1 DEF SpeechInv, LinkTypes
<1>5. ~box[c].alive => /\ Spoken!Chunks(outs) \subseteq lost'
                       /\ \A m \in ToSet(outs) : m.kind = "chunk" => m \in lost'
  BY <1>1, ChunksIn
<1> QED BY <1>1, <1>2, <1>3, <1>4, <1>5

\* The pump is told to stop while nothing is polled.
LEMMA DrainedOK ==
    ASSUME SpeechInv, Spoken!SpeechAssumption, NEW c \in Spoken!Links, Spoken!Drain(c)
    PROVE  SpeechInv'
<1>0. /\ pump[c] = "poll" /\ stop[c] /\ Spoken!TakeRest(c)
      /\ UNCHANGED << turn, gen, shut, reqs, job, rgen, cache, stop, box, told, made, heard >>
      /\ UNCHANGED << phase, conn, sess, detach, units, events >>
  BY DEF Spoken!Drain, Spoken!sessionVars
<1>1. /\ held'[c] = outs /\ outs' = << >> /\ outs' \in Seq(Outputs) /\ ToSet(outs') = {}
      /\ pump'[c] = IF outs = << >> THEN "off" ELSE "drain"
      /\ \A d \in Spoken!Links \ {c} : pump'[d] = pump[d] /\ held'[d] = held[d]
      /\ held' \in [Spoken!Links -> Seq(Outputs)]
      /\ pump' \in [Spoken!Links -> {"off", "poll", "hold", "drain"}]
      /\ lost \subseteq lost'
      /\ ~box[c].alive => /\ Spoken!Chunks(held'[c]) \subseteq lost'
                          /\ \A m \in ToSet(outs) : m.kind = "chunk" => m \in lost'
  BY <1>0, RestFacts
<1>2. held[c] = << >> /\ ToSet(held[c]) = {}
  BY <1>0, FewItems DEF SpeechInv, PumpOK
<1>3. LinkTypes'
  BY <1>0, <1>1 DEF SpeechInv, LinkTypes
<1>4. PumpStep(c)
  BY <1>0, <1>1 DEF PumpStep
<1>5. \A m \in ToSet(outs) \cup ToSet(held[conn]) \cup ToSet(box[conn].audio) :
          m \in made /\ m.gen = gen /\ sess = 1 =>
              \/ m \in ToSet(outs') \cup ToSet(held'[conn]) \cup ToSet(box'[conn].audio)
              \/ m \in heard' \cup lost'
  <2> SUFFICES ASSUME NEW m \in ToSet(outs) \cup ToSet(held[conn]) \cup ToSet(box[conn].audio),
                      m \in made
               PROVE  \/ m \in ToSet(outs') \cup ToSet(held'[conn]) \cup ToSet(box'[conn].audio)
                      \/ m \in heard' \cup lost'
    OBVIOUS
  <2>0. m.kind = "chunk" /\ conn \in Spoken!Links
    BY WorkerFacts, BoxFacts DEF Message
  <2>1. CASE m \in ToSet(outs)
    <3>1. CASE box[c].alive
      BY <1>1, <2>1, <3>1, AliveFacts
    <3>2. CASE ~box[c].alive
      BY <1>1, <2>0, <2>1, <3>2
    <3> QED BY <3>1, <3>2
  <2>2. CASE m \in ToSet(held[conn])
    BY <1>1, <1>2, <2>0, <2>2
  <2>3. CASE m \in ToSet(box[conn].audio)
    BY <1>0, <2>3
  <2> QED BY <2>1, <2>2, <2>3
<1>6. /\ c > conn => FALSE
      /\ ~box[c].alive => box[c].model = << >> /\ box[c].audio = << >>
      /\ \A m \in ToSet(box[c].model) : m.kind = "cancel" => m.gen <= box[c].floor
      /\ box[c].alive => told[c] <= box[c].floor
      /\ sess = 1 => box[c].floor <= gen
  BY <1>0, AliveFacts
<1>7. /\ \A m \in ToSet(box'[c].model) : m.kind = "cancel" => m.gen <= box'[c].floor
      /\ box[c].alive => told'[c] <= box'[c].floor
      /\ sess = 1 => /\ box'[c].floor <= gen
                     /\ \A m \in ToSet(held'[c]) : m \in ToSet(held[c]) \cup ToSet(outs)
      /\ ~box[c].alive => /\ box'[c].model = << >> /\ box'[c].audio = << >>
                          /\ Spoken!Chunks(held'[c]) \subseteq lost'
      /\ c > conn => pump'[c] = "off" /\ told'[c] = 0
      /\ box[c].model = << >> /\ box[c].audio = << >> /\ pump[c] = "off"
             => box'[c].model = << >> /\ box'[c].audio = << >>
  BY <1>0, <1>1, <1>6
<1>8. ToSet(outs') \subseteq ToSet(outs) /\ (outs = << >> => outs' = << >>)
  BY <1>1
<1>9. /\ pump'[c] \in {"off", "poll"} => held'[c] = << >>
      /\ pump'[c] = "hold" => Len(held'[c]) = 1
      /\ pump'[c] = "drain" => held'[c] # << >>
      /\ box[c].alive /\ ~stop[c] /\ pump[c] \in {"poll", "hold"} => pump'[c] \in {"poll", "hold"}
      /\ box[c].alive /\ pump'[c] \in {"drain", "off"} /\ stop[c]
              => outs' = << >> \/ pump[c] \in {"drain", "off"}
      /\ c = conn /\ pump[c] = "off" => pump'[c] = "off"
  BY <1>0, <1>1
<1> QED BY <1>1, <1>3, <1>4, <1>5, <1>7, <1>8, <1>9, PumpKeeps

\* An output is queued: a cancel raises the floor.
LEMMA PushedFacts ==
    ASSUME NEW b \in Boxes, NEW m \in Outputs
    PROVE  /\ Spoken!Pushed(b, m) \in Boxes
           /\ Spoken!Pushed(b, m).alive = b.alive
           /\ b.floor <= Spoken!Pushed(b, m).floor
           /\ Spoken!Pushed(b, m).floor \in {b.floor, m.gen}
           /\ m.kind = "cancel" => m.gen <= Spoken!Pushed(b, m).floor
           /\ ToSet(Spoken!Pushed(b, m).model) \subseteq ToSet(b.model) \cup {m}
           /\ ToSet(b.audio) \subseteq ToSet(Spoken!Pushed(b, m).audio)
           /\ m.kind = "chunk" => m \in ToSet(Spoken!Pushed(b, m).audio)
<1> DEFINE p == Spoken!Pushed(b, m)
           U == Message({"cancel", "error", "reset.done"})
           A == Message({"chunk", "done"})
<1>1. b.model \in Seq(U) /\ b.audio \in Seq(A) /\ b.floor \in Nat /\ m.gen \in Nat
  BY DEF Boxes, Outputs, Message
<1>2. CASE m.kind = "cancel"
  <2>1. /\ p = [b EXCEPT !.floor = IF m.gen > b.floor THEN m.gen ELSE b.floor,
                         !.model = Append(b.model, m)]
    BY <1>2 DEF Spoken!Pushed
  <2>2. m \in U
    BY <1>2 DEF Outputs, OutKinds, Message
  <2> HIDE DEF U, A, p
  <2>3. Append(b.model, m) \in Seq(U) /\ ToSet(Append(b.model, m)) = ToSet(b.model) \cup {m}
    BY <1>1, <2>2, LastItem
  <2>4. /\ p.alive = b.alive /\ p.model = Append(b.model, m) /\ p.audio = b.audio
        /\ p.floor = IF m.gen > b.floor THEN m.gen ELSE b.floor
    BY <2>1 DEF Boxes
  <2>5. b.floor <= p.floor /\ p.floor \in {b.floor, m.gen} /\ m.gen <= p.floor /\ p.floor \in Nat
    BY <1>1, <2>4
  <2>6. p = [alive |-> b.alive, floor |-> p.floor, model |-> p.model, audio |-> b.audio]
    BY <2>1, <2>4 DEF Boxes
  <2>7. p \in Boxes
    <3>1. b.alive \in BOOLEAN
      BY DEF Boxes
    <3> QED BY <1>1, <2>3, <2>4, <2>5, <2>6, <3>1 DEF Boxes, U, A
  <2> QED BY <1>2, <2>3, <2>4, <2>5, <2>7 DEF p
<1>3. CASE m.kind = "error"
  <2>1. p = [b EXCEPT !.model = Append(b.model, m)]
    BY <1>3 DEF Spoken!Pushed
  <2>2. m \in U
    BY <1>3 DEF Outputs, OutKinds, Message
  <2> HIDE DEF U, A, p
  <2>3. Append(b.model, m) \in Seq(U) /\ ToSet(Append(b.model, m)) = ToSet(b.model) \cup {m}
    BY <1>1, <2>2, LastItem
  <2>4. /\ p.alive = b.alive /\ p.model = Append(b.model, m) /\ p.audio = b.audio
        /\ p.floor = b.floor
    BY <2>1 DEF Boxes
  <2>6. p = [alive |-> b.alive, floor |-> b.floor, model |-> p.model, audio |-> b.audio]
    BY <2>1, <2>4 DEF Boxes
  <2>7. p \in Boxes
    <3>1. b.alive \in BOOLEAN
      BY DEF Boxes
    <3> QED BY <1>1, <2>3, <2>4, <2>6, <3>1 DEF Boxes, U, A
  <2> QED BY <1>1, <1>3, <2>3, <2>4, <2>7 DEF p
<1>4. CASE m.kind \in {"chunk", "done"}
  <2>1. p = [b EXCEPT !.audio = Append(b.audio, m)]
    BY <1>4 DEF Spoken!Pushed
  <2>2. m \in A
    BY <1>4 DEF Outputs, OutKinds, Message
  <2> HIDE DEF U, A, p
  <2>3. Append(b.audio, m) \in Seq(A) /\ ToSet(Append(b.audio, m)) = ToSet(b.audio) \cup {m}
    BY <1>1, <2>2, LastItem
  <2>4. /\ p.alive = b.alive /\ p.audio = Append(b.audio, m) /\ p.model = b.model
        /\ p.floor = b.floor
    BY <2>1 DEF Boxes
  <2>6. p = [alive |-> b.alive, floor |-> b.floor, model |-> b.model, audio |-> p.audio]
    BY <2>1, <2>4 DEF Boxes
  <2>7. p \in Boxes
    <3>1. b.alive \in BOOLEAN
      BY DEF Boxes
    <3> QED BY <1>1, <2>3, <2>4, <2>6, <3>1 DEF Boxes, U, A
  <2> QED BY <1>1, <1>4, <2>3, <2>4, <2>7 DEF p
<1>5. m.kind \in {"cancel", "error", "chunk", "done"}
  BY DEF Outputs, OutKinds, Message
<1> QED BY <1>2, <1>3, <1>4, <1>5

\* The box of one connection is replaced.
LEMMA BoxReplaced ==
    ASSUME SpeechInv, NEW c \in Spoken!Links, NEW b \in Boxes, box' = [box EXCEPT ![c] = b]
    PROVE  /\ box' \in [Spoken!Links -> Boxes] /\ box'[c] = b
           /\ \A d \in Spoken!Links \ {c} : box'[d] = box[d]
BY DEF SpeechInv, LinkTypes

\* The pump of a dropped connection fails.
LEMMA PushDeadOK ==
    ASSUME SpeechInv, Spoken!SpeechAssumption, NEW c \in Spoken!Links, Spoken!Push(c), ~box[c].alive
    PROVE  SpeechInv'
<1>0. /\ pump' = [pump EXCEPT ![c] = "off"] /\ held' = [held EXCEPT ![c] = << >>]
      /\ UNCHANGED << outs, lost, box >>
      /\ UNCHANGED << turn, gen, shut, reqs, job, rgen, cache, stop, told, made, heard >>
      /\ UNCHANGED << phase, conn, sess, detach, units, events >>
  BY DEF Spoken!Push, Spoken!sessionVars
<1>1. /\ << >> \in Seq(Outputs) /\ ToSet(<< >>) = {}
      /\ outs \in Seq(Outputs)
  BY FewItems, WorkerFacts, EmptySeq
<1>2. /\ held'[c] = << >> /\ held' \in [Spoken!Links -> Seq(Outputs)]
      /\ \A d \in Spoken!Links \ {c} : held'[d] = held[d]
  BY <1>0, <1>1 DEF SpeechInv, LinkTypes
<1>3. /\ pump'[c] = "off" /\ pump' \in [Spoken!Links -> {"off", "poll", "hold", "drain"}]
      /\ \A d \in Spoken!Links \ {c} : pump'[d] = pump[d]
  BY <1>0 DEF SpeechInv, LinkTypes
<1>4. LinkTypes'
  BY <1>0, <1>2, <1>3 DEF SpeechInv, LinkTypes
<1>5. PumpStep(c)
  BY <1>0, <1>2, <1>3 DEF PumpStep
<1>6. /\ box[c].model = << >> /\ box[c].audio = << >>
      /\ \A m \in ToSet(held[c]) : m.kind = "chunk" => m \in lost
      /\ c > conn => told[c] = 0
      /\ \A m \in ToSet(box[c].model) : m.kind = "cancel" => m.gen <= box[c].floor
      /\ sess = 1 => box[c].floor <= gen
  BY AliveFacts
<1>7. \A m \in ToSet(outs) \cup ToSet(held[conn]) \cup ToSet(box[conn].audio) :
          m \in made /\ m.gen = gen /\ sess = 1 =>
              \/ m \in ToSet(outs') \cup ToSet(held'[conn]) \cup ToSet(box'[conn].audio)
              \/ m \in heard' \cup lost'
  <2> SUFFICES ASSUME NEW m \in ToSet(outs) \cup ToSet(held[conn]) \cup ToSet(box[conn].audio),
                      m \in made
               PROVE  \/ m \in ToSet(outs') \cup ToSet(held'[conn]) \cup ToSet(box'[conn].audio)
                      \/ m \in heard' \cup lost'
    OBVIOUS
  <2>0. m.kind = "chunk" /\ conn \in Spoken!Links
    BY WorkerFacts, BoxFacts DEF Message
  <2>1. CASE m \in ToSet(outs) \/ m \in ToSet(box[conn].audio)
    BY <1>0, <2>1
  <2>2. CASE m \in ToSet(held[conn])
    BY <1>0, <1>2, <1>6, <2>0, <2>2
  <2> QED BY <2>1, <2>2
<1>8. Spoken!Chunks(held'[c]) \subseteq lost'
  BY <1>1, <1>2, ChunksIn
<1>9. /\ outs' \in Seq(Outputs) /\ ToSet(outs') \subseteq ToSet(outs)
      /\ (outs = << >> => outs' = << >>)
  BY <1>0, <1>1
<1>10. /\ \A m \in ToSet(box'[c].model) : m.kind = "cancel" => m.gen <= box'[c].floor
       /\ sess = 1 => /\ box'[c].floor <= gen
                      /\ \A m \in ToSet(held'[c]) : m \in ToSet(held[c]) \cup ToSet(outs)
       /\ box'[c].model = << >> /\ box'[c].audio = << >>
       /\ c > conn => pump'[c] = "off" /\ told'[c] = 0
  BY <1>0, <1>1, <1>2, <1>3, <1>6
<1>11. /\ pump'[c] \in {"off", "poll"} => held'[c] = << >>
       /\ pump'[c] = "hold" => Len(held'[c]) = 1
       /\ pump'[c] = "drain" => held'[c] # << >>
       /\ c = conn /\ pump[c] = "off" => pump'[c] = "off"
  BY <1>2, <1>3
<1> QED BY <1>4, <1>5, <1>7, <1>8, <1>9, <1>10, <1>11, PumpKeeps

\* The next output is queued.
LEMMA PushOK ==
    ASSUME SpeechInv, Spoken!SpeechAssumption, NEW c \in Spoken!Links, Spoken!Push(c), box[c].alive
    PROVE  SpeechInv'
<1> DEFINE h == Head(held[c])
           b == Spoken!Pushed(box[c], h)
<1>0. /\ pump[c] \in {"hold", "drain"}
      /\ box' = [box EXCEPT ![c] = b]
      /\ UNCHANGED << turn, gen, shut, reqs, job, rgen, cache, stop, told, made, heard >>
      /\ UNCHANGED << phase, conn, sess, detach, units, events >>
  BY DEF Spoken!Push, Spoken!sessionVars
<1>1. \/ pump[c] = "hold" /\ stop[c] /\ Spoken!TakeRest(c)
      \/ /\ ~(pump[c] = "hold" /\ stop[c])
         /\ held' = [held EXCEPT ![c] = Tail(held[c])]
         /\ pump' = [pump EXCEPT ![c] = IF pump[c] = "hold" THEN "poll"
                                        ELSE IF Len(held[c]) = 1 THEN "off" ELSE "drain"]
         /\ UNCHANGED << outs, lost >>
  BY DEF Spoken!Push
<1>2. held[c] \in Seq(Outputs) /\ held[c] # << >> /\ (pump[c] = "hold" => Len(held[c]) = 1)
  <2>1. held[c] \in Seq(Outputs)
    BY BoxFacts
  <2>2. /\ pump[c] = "hold" => Len(held[c]) = 1
        /\ pump[c] = "drain" => held[c] # << >>
    BY DEF SpeechInv, PumpOK
  <2>3. pump[c] = "hold" \/ pump[c] = "drain"
    BY <1>0
  <2>4. Len(held[c]) = 1 => held[c] # << >>
    <3>1. Len(held[c]) = 0 <=> held[c] = << >>
      BY <2>1, EmptySeq
    <3> HIDE DEF h, b
    <3> QED BY <3>1
  <2> QED BY <2>1, <2>2, <2>3, <2>4
<1>3. /\ h \in Outputs /\ Tail(held[c]) \in Seq(Outputs)
      /\ ToSet(held[c]) = {h} \cup ToSet(Tail(held[c]))
  BY <1>2, FirstItem
<1>4. /\ Len(held[c]) = 1 => Tail(held[c]) = << >>
      /\ Len(held[c]) # 1 => Tail(held[c]) # << >>
  <2>1. /\ Tail(held[c]) \in Seq(Outputs) /\ Len(held[c]) \in Nat
        /\ Len(Tail(held[c])) = Len(held[c]) - 1
    BY <1>2, HeadTailProperties, LenProperties
  <2>2. Len(Tail(held[c])) = 0 <=> Tail(held[c]) = << >>
    BY <2>1, EmptySeq
  <2> QED BY <2>1, <2>2
<1> HIDE DEF h
<1>5. /\ b \in Boxes /\ b.alive = box[c].alive /\ b.floor \in {box[c].floor, h.gen}
      /\ box[c].floor <= b.floor
      /\ h.kind = "cancel" => h.gen <= b.floor
      /\ ToSet(b.model) \subseteq ToSet(box[c].model) \cup {h}
      /\ ToSet(box[c].audio) \subseteq ToSet(b.audio)
      /\ h.kind = "chunk" => h \in ToSet(b.audio)
  BY <1>3, BoxFacts, PushedFacts
<1> HIDE DEF b
<1>6. /\ box' \in [Spoken!Links -> Boxes] /\ box'[c] = b
      /\ \A d \in Spoken!Links \ {c} : box'[d] = box[d]
  BY <1>0, <1>5, BoxReplaced
<1>7. /\ outs' \in Seq(Outputs) /\ ToSet(outs') \subseteq ToSet(outs)
      /\ outs = << >> => outs' = << >>
      /\ held' \in [Spoken!Links -> Seq(Outputs)]
      /\ pump' \in [Spoken!Links -> {"off", "poll", "hold", "drain"}]
      /\ \A d \in Spoken!Links \ {c} : pump'[d] = pump[d] /\ held'[d] = held[d]
      /\ lost \subseteq lost'
      /\ \/ held'[c] = outs /\ outs' = << >> /\ stop[c] /\ Tail(held[c]) = << >>
            /\ pump'[c] = (IF outs = << >> THEN "off" ELSE "drain")
         \/ held'[c] = Tail(held[c]) /\ outs' = outs
            /\ pump'[c] = (IF pump[c] = "hold" THEN "poll"
                           ELSE IF Len(held[c]) = 1 THEN "off" ELSE "drain")
            /\ ~(pump[c] = "hold" /\ stop[c])
  <2>1. CASE pump[c] = "hold" /\ stop[c] /\ Spoken!TakeRest(c)
    <3>1. Tail(held[c]) = << >>
      BY <1>2, <1>4, <2>1
    <3>2. /\ held'[c] = outs /\ outs' = << >> /\ outs' \in Seq(Outputs) /\ ToSet(outs') = {}
          /\ pump'[c] = IF outs = << >> THEN "off" ELSE "drain"
          /\ \A d \in Spoken!Links \ {c} : pump'[d] = pump[d] /\ held'[d] = held[d]
          /\ held' \in [Spoken!Links -> Seq(Outputs)]
          /\ pump' \in [Spoken!Links -> {"off", "poll", "hold", "drain"}]
          /\ lost \subseteq lost'
      BY <2>1, RestFacts
    <3> QED BY <2>1, <3>1, <3>2
  <2>2. CASE /\ ~(pump[c] = "hold" /\ stop[c])
             /\ held' = [held EXCEPT ![c] = Tail(held[c])]
             /\ pump' = [pump EXCEPT ![c] = IF pump[c] = "hold" THEN "poll"
                                        ELSE IF Len(held[c]) = 1 THEN "off" ELSE "drain"]
             /\ UNCHANGED << outs, lost >>
    <3>1. /\ held' \in [Spoken!Links -> Seq(Outputs)] /\ held'[c] = Tail(held[c])
          /\ \A d \in Spoken!Links \ {c} : held'[d] = held[d]
      BY <1>3, <2>2 DEF SpeechInv, LinkTypes
    <3>2. /\ pump' \in [Spoken!Links -> {"off", "poll", "hold", "drain"}]
          /\ pump'[c] = IF pump[c] = "hold" THEN "poll"
                        ELSE IF Len(held[c]) = 1 THEN "off" ELSE "drain"
          /\ \A d \in Spoken!Links \ {c} : pump'[d] = pump[d]
      BY <2>2 DEF SpeechInv, LinkTypes
    <3> QED BY <2>2, <3>1, <3>2, WorkerFacts
  <2> QED BY <1>1, <2>1, <2>2
<1>8. LinkTypes'
  BY <1>0, <1>6, <1>7 DEF SpeechInv, LinkTypes
<1>9. PumpStep(c)
  BY <1>0, <1>5, <1>6, <1>7 DEF PumpStep
<1>10. /\ c = conn /\ ~(c > conn)
       /\ \A m \in ToSet(box[c].model) : m.kind = "cancel" => m.gen <= box[c].floor
       /\ told[c] <= box[c].floor /\ (sess = 1 => box[c].floor <= gen)
       /\ box[c].floor \in Nat /\ told[c] \in Nat /\ b.floor \in Nat
       /\ \A m \in ToSet(box[c].model) : m.gen \in Nat
  <2>1. c = conn /\ ~(c > conn)
    BY <1>0, AliveFacts
  <2>2. \A m \in ToSet(box[c].model) : m.gen \in Nat
    BY BoxFacts DEF Message
  <2> QED BY <1>5, <2>1, <2>2, AliveFacts, BoxFacts DEF Boxes
<1>11. ToSet(<< >>) = {} /\ ToSet(Tail(held[c])) \subseteq ToSet(held[c])
  BY <1>3, FewItems
<1>12. \A m \in ToSet(outs) \cup ToSet(held[conn]) \cup ToSet(box[conn].audio) :
          m \in made /\ m.gen = gen /\ sess = 1 =>
              \/ m \in ToSet(outs') \cup ToSet(held'[conn]) \cup ToSet(box'[conn].audio)
              \/ m \in heard' \cup lost'
  <2> SUFFICES ASSUME NEW m \in ToSet(outs) \cup ToSet(held[c]) \cup ToSet(box[c].audio),
                      m \in made
               PROVE  m \in ToSet(outs') \cup ToSet(held'[c]) \cup ToSet(b.audio)
    BY <1>6, <1>10
  <2>0. m.kind = "chunk"
    BY WorkerFacts DEF Message
  <2>1. CASE m \in ToSet(outs)
    BY <1>7, <2>1
  <2>2. CASE m = h
    BY <1>5, <2>0, <2>2
  <2>3. CASE m \in ToSet(held[c]) /\ m # h
    <3>1. m \in ToSet(Tail(held[c]))
      BY <1>3, <2>3
    <3> QED BY <1>7, <1>11, <3>1
  <2>4. CASE m \in ToSet(box[c].audio)
    BY <1>5, <2>4
  <2> QED BY <2>1, <2>2, <2>3, <2>4
<1>13. \A m \in ToSet(b.model) : m.kind = "cancel" => m.gen <= b.floor
  BY <1>5, <1>10
<1>14. told[c] <= b.floor
  BY <1>5, <1>10
<1>15. sess = 1 => /\ b.floor <= gen
                   /\ \A m \in ToSet(held'[c]) : m \in ToSet(held[c]) \cup ToSet(outs)
  <2> SUFFICES ASSUME sess = 1 PROVE /\ b.floor <= gen
                   /\ \A m \in ToSet(held'[c]) : m \in ToSet(held[c]) \cup ToSet(outs)
    OBVIOUS
  <2>1. h.gen <= gen
    BY <1>3 DEF SpeechInv, YoungOK
  <2> QED BY <1>5, <1>7, <1>10, <1>11, <2>1
<1>16. /\ pump'[c] \in {"off", "poll"} => held'[c] = << >>
       /\ pump'[c] = "hold" => Len(held'[c]) = 1
       /\ pump'[c] = "drain" => held'[c] # << >>
       /\ box[c].alive /\ ~stop[c] /\ pump[c] \in {"poll", "hold"} => pump'[c] \in {"poll", "hold"}
       /\ box[c].alive /\ pump'[c] \in {"drain", "off"} /\ stop[c]
               => outs' = << >> \/ pump[c] \in {"drain", "off"}
       /\ c = conn /\ pump[c] = "off" => pump'[c] = "off"
  BY <1>0, <1>2, <1>4, <1>7
<1> QED BY <1>0, <1>6, <1>7, <1>8, <1>9, <1>10, <1>12, <1>13, <1>14, <1>15, <1>16, PumpKeeps

\* The writer sends the next entry, or discards it when it is stale; what
\* it sends of the audio is of no cancelled generation.
LEMMA WriteFacts ==
    ASSUME SpeechInv, Spoken!SpeechAssumption, NEW c \in Spoken!Links, Spoken!Write(c)
    PROVE  /\ box[c].alive /\ c = conn
           /\ UNCHANGED << turn, gen, shut, reqs, job, rgen, cache, outs, pump, stop,
                           held, made, lost >>
           /\ UNCHANGED << phase, conn, sess, detach, units, events >>
           /\ box' \in [Spoken!Links -> Boxes]
           /\ \A d \in Spoken!Links \ {c} : box'[d] = box[d]
           /\ box'[c].alive = box[c].alive /\ box'[c].floor = box[c].floor
           /\ ToSet(box'[c].model) \subseteq ToSet(box[c].model)
           /\ box[c].model = << >> /\ box[c].audio = << >> => FALSE
           /\ \E m : /\ \/ m \in ToSet(box[c].model) /\ box'[c].audio = box[c].audio
                        \/ /\ m \in ToSet(box[c].audio)
                           /\ ToSet(box[c].audio) = {m} \cup ToSet(box'[c].audio)
                     /\ Spoken!Sent(c, IF Spoken!Stale(c, m) THEN Spoken!Nothing ELSE m)
<1> DEFINE M == Message({"cancel", "error", "reset.done"})
           A == Message({"chunk", "done"})
<1>1. /\ box[c].alive
      /\ UNCHANGED << turn, gen, shut, reqs, job, rgen, cache, outs, pump, stop,
                           held, made, lost >>
      /\ UNCHANGED << phase, conn, sess, detach, units, events >>
  BY DEF Spoken!Write, Spoken!sessionVars
<1>2. c = conn
  BY <1>1, AliveFacts
<1>3. /\ box[c] \in Boxes /\ box[c].model \in Seq(M) /\ box[c].audio \in Seq(A)
      /\ box[c].alive \in BOOLEAN /\ box[c].floor \in Nat
  BY BoxFacts
<1>4. CASE box[c].model # << >>
  <2> DEFINE b == [box[c] EXCEPT !.model = Tail(box[c].model)]
             m == Head(box[c].model)
  <2>1. /\ box' = [box EXCEPT ![c].model = Tail(box[c].model), ![c].audio = box[c].audio]
        /\ Spoken!Sent(c, IF Spoken!Stale(c, m) THEN Spoken!Nothing ELSE m)
    BY <1>4 DEF Spoken!Write
  <2>2. Tail(box[c].model) \in Seq(M) /\ ToSet(box[c].model) = {m} \cup ToSet(Tail(box[c].model))
    BY <1>3, <1>4, FirstItem
  <2>3. /\ box' \in [Spoken!Links -> Boxes]
        /\ \A d \in Spoken!Links \ {c} : box'[d] = box[d]
        /\ box'[c].alive = box[c].alive /\ box'[c].floor = box[c].floor
        /\ box'[c].model = Tail(box[c].model) /\ box'[c].audio = box[c].audio
    <3> DEFINE t == Tail(box[c].model)
               e == [box[c] EXCEPT !.model = t, !.audio = box[c].audio]
    <3>1. e \in Boxes /\ e.alive = box[c].alive /\ e.floor = box[c].floor /\ e.model = t
          /\ e.audio = box[c].audio
      BY <1>3, <2>2 DEF Boxes
    <3>2. box' = [box EXCEPT ![c] = e]
      <4>1. box \in [Spoken!Links -> Boxes]
        BY DEF SpeechInv, LinkTypes
      <4>2. box' = [box EXCEPT ![c].model = t, ![c].audio = box[c].audio]
        BY <2>1
      <4> HIDE DEF t, e
      <4>3. [box EXCEPT ![c].model = t, ![c].audio = box[c].audio]
              = [box EXCEPT ![c] = [box[c] EXCEPT !.model = t, !.audio = box[c].audio]]
        BY <4>1
      <4> QED BY <4>2, <4>3 DEF e
    <3> HIDE DEF e
    <3> QED BY <3>1, <3>2, BoxReplaced
  <2> QED BY <1>1, <1>2, <1>4, <2>1, <2>2, <2>3
<1>5. CASE box[c].model = << >>
  <2> DEFINE m == Head(box[c].audio)
  <2>1. /\ box' = [box EXCEPT ![c].model = box[c].model, ![c].audio = Tail(box[c].audio)]
        /\ box[c].audio # << >>
        /\ Spoken!Sent(c, IF Spoken!Stale(c, m) THEN Spoken!Nothing ELSE m)
    BY <1>5 DEF Spoken!Write
  <2>2. Tail(box[c].audio) \in Seq(A) /\ ToSet(box[c].audio) = {m} \cup ToSet(Tail(box[c].audio))
    BY <1>3, <2>1, FirstItem
  <2>3. /\ box' \in [Spoken!Links -> Boxes]
        /\ \A d \in Spoken!Links \ {c} : box'[d] = box[d]
        /\ box'[c].alive = box[c].alive /\ box'[c].floor = box[c].floor
        /\ box'[c].audio = Tail(box[c].audio) /\ box'[c].model = box[c].model
    <3> DEFINE t == Tail(box[c].audio)
               e == [box[c] EXCEPT !.model = box[c].model, !.audio = t]
    <3>1. e \in Boxes /\ e.alive = box[c].alive /\ e.floor = box[c].floor /\ e.audio = t
          /\ e.model = box[c].model
      BY <1>3, <2>2 DEF Boxes
    <3>2. box' = [box EXCEPT ![c] = e]
      <4>1. box \in [Spoken!Links -> Boxes]
        BY DEF SpeechInv, LinkTypes
      <4>2. box' = [box EXCEPT ![c].model = box[c].model, ![c].audio = t]
        BY <2>1
      <4> HIDE DEF t, e
      <4>3. [box EXCEPT ![c].model = box[c].model, ![c].audio = t]
              = [box EXCEPT ![c] = [box[c] EXCEPT !.model = box[c].model, !.audio = t]]
        BY <4>1
      <4> QED BY <4>2, <4>3 DEF e
    <3> HIDE DEF e
    <3> QED BY <3>1, <3>2, BoxReplaced
  <2> QED BY <1>1, <1>2, <1>5, <2>1, <2>2, <2>3
<1> QED BY <1>4, <1>5

\* What reaches the client, of an entry that is stale or not.
LEMMA SentFacts ==
    ASSUME SpeechInv, Spoken!SpeechAssumption, NEW c \in Spoken!Links, NEW m,
           m \in ToSet(box[c].model) \/ m \in ToSet(box[c].audio),
           Spoken!Sent(c, IF Spoken!Stale(c, m) THEN Spoken!Nothing ELSE m)
    PROVE  /\ told' \in [Spoken!Links -> Nat]
           /\ \A d \in Spoken!Links \ {c} : told'[d] = told[d]
           /\ \/ told'[c] \in {told[c], 0}
              \/ m \in ToSet(box[c].model) /\ m.kind = "cancel" /\ told'[c] = m.gen
           /\ \/ heard' = heard
              \/ m.kind = "chunk" /\ m.gen >= box[c].floor /\ heard' = heard \cup {m}
           /\ m.kind = "chunk" /\ m.gen >= box[c].floor => m \in heard'
<1>1. /\ \A e \in ToSet(box[c].model) : e \in Message({"cancel", "error", "reset.done"})
      /\ \A e \in ToSet(box[c].audio) : e \in Message({"chunk", "done"})
      /\ box[c].floor \in Nat /\ told \in [Spoken!Links -> Nat]
  BY BoxFacts DEF SpeechInv, LinkTypes
<1>2. /\ m.kind \in {"cancel", "error", "reset.done", "chunk", "done"} /\ m.gen \in Nat
      /\ m.kind = "cancel" => m \in ToSet(box[c].model)
  BY <1>1 DEF Message
<1>3. CASE Spoken!Stale(c, m)
  <2>1. m.gen < box[c].floor
    BY <1>3 DEF Spoken!Stale
  <2>2. told' = told /\ heard' = heard
    BY <1>3 DEF Spoken!Sent
  <2> QED BY <1>1, <1>2, <2>1, <2>2
<1>4. CASE ~Spoken!Stale(c, m)
  <2>1. Spoken!Sent(c, m)
    BY <1>4
  <2>2. m.kind = "chunk" => m.gen >= box[c].floor
    BY <1>1, <1>2, <1>4 DEF Spoken!Stale, Spoken!Audio
  <2>3. CASE m.kind = "cancel"
    <3>1. told' = [told EXCEPT ![c] = m.gen] /\ heard' = heard
      BY <2>1, <2>3 DEF Spoken!Sent
    <3> QED BY <1>1, <1>2, <2>3, <3>1
  <2>4. CASE m.kind = "reset.done"
    <3>1. told' = [told EXCEPT ![c] = 0] /\ heard' = heard
      BY <2>1, <2>4 DEF Spoken!Sent
    <3> QED BY <1>1, <1>2, <2>4, <3>1
  <2>5. CASE m.kind \notin {"cancel", "reset.done"}
    <3>1. told' = told /\ heard' = IF m.kind = "chunk" THEN heard \cup {m} ELSE heard
      BY <2>1, <2>5 DEF Spoken!Sent
    <3> QED BY <1>1, <1>2, <2>2, <2>5, <3>1
  <2> QED BY <2>3, <2>4, <2>5
<1> QED BY <1>3, <1>4

\* The writer keeps the invariant.
LEMMA WriteOK ==
    ASSUME SpeechInv, Spoken!SpeechAssumption, NEW c \in Spoken!Links, Spoken!Write(c)
    PROVE  SpeechInv'
<1>1. /\ box[c].alive /\ c = conn
      /\ UNCHANGED << turn, gen, shut, reqs, job, rgen, cache, outs, pump, stop,
                           held, made, lost >>
      /\ UNCHANGED << phase, conn, sess, detach, units, events >>
      /\ box' \in [Spoken!Links -> Boxes]
      /\ \A d \in Spoken!Links \ {c} : box'[d] = box[d]
      /\ box'[c].alive = box[c].alive /\ box'[c].floor = box[c].floor
      /\ ToSet(box'[c].model) \subseteq ToSet(box[c].model)
      /\ box[c].model = << >> /\ box[c].audio = << >> => FALSE
  BY WriteFacts
<1>2. PICK m : /\ \/ m \in ToSet(box[c].model) /\ box'[c].audio = box[c].audio
                  \/ /\ m \in ToSet(box[c].audio)
                     /\ ToSet(box[c].audio) = {m} \cup ToSet(box'[c].audio)
               /\ Spoken!Sent(c, IF Spoken!Stale(c, m) THEN Spoken!Nothing ELSE m)
  BY WriteFacts
<1>3. /\ told' \in [Spoken!Links -> Nat]
      /\ \A d \in Spoken!Links \ {c} : told'[d] = told[d]
      /\ \/ told'[c] \in {told[c], 0}
         \/ m \in ToSet(box[c].model) /\ m.kind = "cancel" /\ told'[c] = m.gen
      /\ \/ heard' = heard
         \/ m.kind = "chunk" /\ m.gen >= box[c].floor /\ heard' = heard \cup {m}
      /\ m.kind = "chunk" /\ m.gen >= box[c].floor => m \in heard'
  BY <1>2, SentFacts
<1>4. LinkTypes'
  BY <1>1, <1>3 DEF SpeechInv, LinkTypes
<1>5. PumpStep(c)
  BY <1>1, <1>3 DEF PumpStep
<1>6. /\ \A e \in ToSet(box[c].model) : e.kind = "cancel" => e.gen <= box[c].floor
      /\ told[c] <= box[c].floor /\ (sess = 1 => box[c].floor <= gen)
      /\ box[c].floor \in Nat /\ told[c] \in Nat
      /\ c \in Nat /\ gen \in Nat
  BY <1>1, AliveFacts, BoxFacts, LinkFacts, WorkerFacts
<1>7. told'[c] <= box[c].floor
  BY <1>3, <1>6
<1>8. \A e \in ToSet(outs) \cup ToSet(held[conn]) \cup ToSet(box[conn].audio) :
          e \in made /\ e.gen = gen /\ sess = 1 =>
              \/ e \in ToSet(outs') \cup ToSet(held'[conn]) \cup ToSet(box'[conn].audio)
              \/ e \in heard' \cup lost'
  <2> SUFFICES ASSUME NEW e \in ToSet(outs) \cup ToSet(held[c]) \cup ToSet(box[c].audio),
                      e \in made, e.gen = gen, sess = 1
               PROVE  \/ e \in ToSet(outs') \cup ToSet(held'[c]) \cup ToSet(box'[c].audio)
                      \/ e \in heard' \cup lost'
    BY <1>1
  <2>0. e.kind = "chunk" /\ e.gen >= box[c].floor
    BY <1>6, WorkerFacts DEF Message
  <2>1. CASE e \in ToSet(outs) \cup ToSet(held[c])
    BY <1>1, <2>1
  <2>2. CASE e \in ToSet(box[c].audio)
    BY <1>2, <1>3, <2>0, <2>2
  <2> QED BY <2>1, <2>2
<1>9. /\ ~(c > conn)
      /\ pump'[c] \in {"off", "poll"} => held'[c] = << >>
      /\ pump'[c] = "hold" => Len(held'[c]) = 1
      /\ pump'[c] = "drain" => held'[c] # << >>
      /\ pump'[c] = pump[c] /\ held'[c] = held[c] /\ outs' = outs
  BY <1>1, <1>6 DEF SpeechInv, PumpOK
<1>10. /\ \A e \in ToSet(box'[c].model) : e.kind = "cancel" => e.gen <= box'[c].floor
       /\ box[c].alive => told'[c] <= box'[c].floor
       /\ sess = 1 => box'[c].floor <= gen
  BY <1>1, <1>6, <1>7
<1> QED BY <1>1, <1>4, <1>5, <1>8, <1>9, <1>10, WorkerFacts, PumpKeeps

-----------------------------------------------------------------------------
(* The handlers of the connections                                         *)

\* The socket drops: what the outbox and the pump have is lost.
LEMMA DropOK ==
    ASSUME SpeechInv, Spoken!SpeechAssumption, Spoken!Drop
    PROVE  SpeechInv'
<1>0. /\ phase = "live" /\ phase' = "parked" /\ events < MaxEvents /\ events' = events + 1
      /\ box' = [box EXCEPT ![conn] = Spoken!Box(FALSE)]
      /\ lost' = lost \cup Spoken!Chunks(box[conn].audio \o held[conn])
      /\ detach' = [detach EXCEPT ![conn] = "begun"]
      /\ UNCHANGED << conn, sess, turn, gen, shut, reqs, job, rgen, cache, outs,
                      pump, stop, held, units, told, made, heard >>
  BY DEF Spoken!Drop
<1>1. conn \in Spoken!Links /\ conn \in Nat /\ events \in Nat /\ MaxEvents \in Nat
  BY LinkFacts DEF SpeechInv, LinkTypes
<1>2. /\ Spoken!Box(FALSE) \in Boxes /\ ~Spoken!Box(FALSE).alive /\ Spoken!Box(FALSE).floor = 0
      /\ Spoken!Box(FALSE).model = << >> /\ Spoken!Box(FALSE).audio = << >>
  BY EmptySeq DEF Spoken!Box, Boxes
<1>3. /\ box' \in [Spoken!Links -> Boxes] /\ box'[conn] = Spoken!Box(FALSE)
      /\ \A d \in Spoken!Links \ {conn} : box'[d] = box[d]
  BY <1>0, <1>1, <1>2, BoxReplaced
<1>4. /\ detach' \in [Spoken!Links -> {"none", "begun", "over"}]
      /\ \A d \in Spoken!Links \ {conn} : detach'[d] = detach[d]
  BY <1>0, <1>1 DEF SpeechInv, LinkTypes
<1>5. \A m \in ToSet(box[conn].audio) \cup ToSet(held[conn]) : m.kind = "chunk" => m \in lost'
  <2>1. Message({"chunk", "done"}) \subseteq Outputs
    BY DEF Message, Outputs, OutKinds
  <2>2. box[conn].audio \in Seq(Outputs) /\ held[conn] \in Seq(Outputs)
    <3>1. /\ box[conn].audio \in Seq(Message({"chunk", "done"})) /\ held[conn] \in Seq(Outputs)
      BY <1>1, BoxFacts
    <3> QED BY <2>1, <3>1
  <2>3. ToSet(box[conn].audio \o held[conn]) = ToSet(box[conn].audio) \cup ToSet(held[conn])
    BY <2>2, JoinedItems
  <2> QED BY <1>0, <2>3, ChunksIn
<1>6. WorkerTypes' /\ VoiceOK' /\ PumpOK'
  BY <1>0 DEF SpeechInv, WorkerTypes, VoiceOK, PumpOK, Phases
<1>7. LinkTypes'
  <2>1. events' \in 0..MaxEvents
    BY <1>0, <1>1
  <2> QED BY <1>0, <1>3, <1>4, <2>1 DEF SpeechInv, LinkTypes
<1>8. ComingOK'
  <2>1. conn <= events + 1
    BY DEF SpeechInv, ComingOK
  <2>2. conn <= events' + 1 /\ conn <= events'
    BY <1>0, <1>1, <2>1
  <2>3. ASSUME NEW c \in Spoken!Links, c > conn
        PROVE  pump[c] = "off" /\ ~stop[c] /\ detach'[c] = "none" /\ told[c] = 0
    BY <1>1, <1>4, <2>3 DEF SpeechInv, ComingOK
  <2> QED BY <1>0, <2>2, <2>3 DEF ComingOK
<1>9. GoneOK'
  <2>1. \A c \in Spoken!Links :
          /\ ~box'[c].alive
          /\ box'[c].model = << >> /\ box'[c].audio = << >>
          /\ Spoken!Chunks(held[c]) \subseteq lost'
    <3>1. /\ ~box'[conn].alive
          /\ box'[conn].model = << >> /\ box'[conn].audio = << >>
          /\ Spoken!Chunks(held[conn]) \subseteq lost'
      BY <1>2, <1>3, <1>5, ChunksIn
    <3>2. ASSUME NEW c \in Spoken!Links \ {conn}
          PROVE  /\ ~box'[c].alive
                 /\ box'[c].model = << >> /\ box'[c].audio = << >>
                 /\ Spoken!Chunks(held[c]) \subseteq lost'
      BY <1>0, <1>3 DEF SpeechInv, GoneOK
    <3> QED BY <3>1, <3>2
  <2>2. phase' = "parked" /\ UNCHANGED << conn, held >>
    BY <1>0
  <2> QED BY <2>1, <2>2 DEF GoneOK, Spoken!Chunks, Spoken!ToSet
<1>10. FloorOK'
  <2>1. ASSUME NEW c \in Spoken!Links
        PROVE  /\ \A m \in ToSet(box'[c].model) : m.kind = "cancel" => m.gen <= box'[c].floor
               /\ ~box'[c].alive
    <3>1. CASE c = conn
      BY <1>2, <1>3, <3>1, FewItems
    <3>2. CASE c # conn
      BY <1>0, <1>3, <3>2 DEF SpeechInv, FloorOK, GoneOK
    <3> QED BY <3>1, <3>2
  <2> QED BY <2>1 DEF FloorOK, ToSet
<1>11. PhaseOK'
  BY <1>0 DEF PhaseOK
<1>12. YoungOK'
  <2>1. \A c \in Spoken!Links : box'[c].floor = 0 \/ box'[c].floor = box[c].floor
    BY <1>2, <1>3
  <2>2. 0 <= gen
    BY WorkerFacts
  <2>3. sess = 1 => /\ \A m \in made \cup ToSet(outs) \cup ToSet(reqs) : m.gen <= gen
                    /\ job # Spoken!Nothing => job.r.gen <= gen
                    /\ \A c \in Spoken!Links : /\ box[c].floor <= gen
                                                /\ \A m \in ToSet(held[c]) : m.gen <= gen
    BY DEF SpeechInv, YoungOK
  <2>4. sess = 1 => \A c \in Spoken!Links : box'[c].floor <= gen
    BY <2>1, <2>2, <2>3
  <2> QED BY <1>0, <2>3, <2>4 DEF YoungOK, ToSet
<1>13. Conserved'
  <2> SUFFICES ASSUME sess = 1, NEW m \in made, m.gen = gen
               PROVE  \/ m \in ToSet(outs) \cup ToSet(held[conn]) \cup ToSet(box'[conn].audio)
                      \/ m \in heard \cup lost'
    BY <1>0 DEF Conserved, ToSet
  <2>1. m.kind = "chunk"
    BY WorkerFacts DEF Message
  <2>2. \/ m \in ToSet(outs) \cup ToSet(held[conn]) \cup ToSet(box[conn].audio)
        \/ m \in heard \cup lost
    BY <1>0 DEF SpeechInv, Conserved
  <2> QED BY <1>0, <1>5, <2>1, <2>2
<1> QED BY <1>6, <1>7, <1>8, <1>9, <1>10, <1>11, <1>12, <1>13 DEF SpeechInv

\* A step of a handler that leaves outboxes and queues as they are.
HandStep ==
    /\ UNCHANGED << conn, sess, reqs, job, rgen, cache, pump, held, box, units, told, made,
                    heard, lost >>

LEMMA HandKeeps ==
    ASSUME SpeechInv, Spoken!SpeechAssumption, HandStep,
           phase' \in Phases, phase = "parked" <=> phase' = "parked",
           WorkerTypes', LinkTypes', ComingOK',
           gen' >= gen,
           \A m \in ToSet(outs) : m \in ToSet(outs'),
           \A m \in ToSet(outs') : m \in ToSet(outs) \/ m.gen = gen',
           \A c \in Spoken!Links : detach'[c] = "begun" => detach[c] = "begun",
           phase \in {"resetting", "closing"} => phase' \in {"resetting", "closing"},
           PhaseOK'
    PROVE  SpeechInv'
<1>1. VoiceOK' /\ PumpOK' /\ FloorOK'
  BY DEF SpeechInv, HandStep, VoiceOK, PumpOK, FloorOK, ToSet
<1>2. GoneOK'
  BY DEF SpeechInv, HandStep, GoneOK, Spoken!Chunks, Spoken!ToSet
<1>3. gen \in Nat /\ gen' \in Nat
  BY DEF SpeechInv, WorkerTypes
<1>4. YoungOK'
  <2> SUFFICES ASSUME sess = 1
               PROVE  /\ \A m \in made \cup ToSet(outs') \cup ToSet(reqs) : m.gen <= gen'
                      /\ job # Spoken!Nothing => job.r.gen <= gen'
                      /\ \A d \in Spoken!Links :
                            /\ box[d].floor <= gen'
                            /\ \A m \in ToSet(held[d]) : m.gen <= gen'
    BY DEF YoungOK, HandStep, ToSet
  <2>0. /\ \A m \in made : m \in Message({"chunk"})
        /\ \A m \in ToSet(outs) : m \in Outputs
        /\ \A m \in ToSet(reqs) : m \in Requests
        /\ job # Spoken!Nothing => job.r \in Requests
        /\ \A c \in Spoken!Links : /\ box[c] \in Boxes
                                   /\ \A m \in ToSet(held[c]) : m \in Outputs
    BY ItemsIn DEF SpeechInv, WorkerTypes, LinkTypes, Running
  <2>1. /\ \A m \in made \cup ToSet(outs) \cup ToSet(reqs) : m.gen \in Nat /\ m.gen <= gen
        /\ job # Spoken!Nothing => job.r.gen \in Nat /\ job.r.gen <= gen
        /\ \A c \in Spoken!Links :
              /\ box[c].floor \in Nat /\ box[c].floor <= gen
              /\ \A m \in ToSet(held[c]) : m.gen \in Nat /\ m.gen <= gen
    BY <2>0 DEF SpeechInv, YoungOK, Message, Outputs, Requests, Boxes
  <2> QED BY <1>3, <2>1
<1>5. Conserved'
  <2> SUFFICES ASSUME sess = 1, phase' \notin {"resetting", "closing"}, NEW m \in made, m.gen = gen'
               PROVE  \/ m \in ToSet(outs') \cup ToSet(held[conn]) \cup ToSet(box[conn].audio)
                      \/ m \in heard \cup lost
    BY DEF Conserved, HandStep, ToSet
  <2>1. m.gen \in Nat /\ m.gen <= gen
    BY WorkerFacts DEF SpeechInv, YoungOK, Message
  <2>2. m.gen = gen
    BY <1>3, <2>1
  <2> QED BY <2>2 DEF SpeechInv, Conserved
<1> QED BY <1>1, <1>2, <1>4, <1>5 DEF SpeechInv

\* The output is interrupted: a cancel of the new generation is put out.
LEMMA CutFacts ==
    ASSUME SpeechInv, Spoken!InterruptOutput
    PROVE  /\ gen' = gen + 1 /\ gen' \in Nat \ {0} /\ gen' >= gen
           /\ outs' \in Seq(Outputs) /\ outs' # << >>
           /\ \A m \in ToSet(outs) : m \in ToSet(outs')
           /\ \A m \in ToSet(outs') : m \in ToSet(outs) \/ m.gen = gen'
           /\ turn' \in [open : BOOLEAN, renew : BOOLEAN]
<1>1. /\ gen' = gen + 1 /\ outs' = Append(outs, Spoken!CancelEvent(gen + 1))
      /\ turn' = [open |-> FALSE, renew |-> FALSE]
  BY DEF Spoken!InterruptOutput, Spoken!Cancel
<1>2. gen' \in Nat \ {0} /\ gen' >= gen
  BY <1>1, WorkerFacts
<1>3. Spoken!CancelEvent(gen + 1) \in Outputs /\ Spoken!CancelEvent(gen + 1).gen = gen + 1
  BY <1>1, <1>2, CancelFacts
<1>4. /\ outs' \in Seq(Outputs) /\ outs' # << >>
      /\ ToSet(outs') = ToSet(outs) \cup {Spoken!CancelEvent(gen + 1)}
  BY <1>1, <1>3, WorkerFacts, LastItem
<1>5. turn' \in [open : BOOLEAN, renew : BOOLEAN]
  BY <1>1
<1> QED BY <1>1, <1>2, <1>3, <1>4, <1>5

\* The detach of a dropped connection interrupts what is said by then; the
\* pump it stops is its own.
LEMMA DetachOK ==
    ASSUME SpeechInv, Spoken!SpeechAssumption, NEW c \in Spoken!Links, Spoken!Detach(c)
    PROVE  SpeechInv'
<1>0. /\ detach[c] = "begun" /\ ~shut /\ Spoken!InterruptOutput
      /\ detach' = [detach EXCEPT ![c] = "over"] /\ stop' = [stop EXCEPT ![c] = TRUE]
      /\ UNCHANGED << phase, conn, sess, shut, reqs, job, rgen, cache, pump, held,
                      box, units, events, told, made, heard, lost >>
  BY DEF Spoken!Detach
<1>1. /\ gen' \in Nat \ {0} /\ gen' >= gen /\ outs' \in Seq(Outputs)
      /\ \A m \in ToSet(outs) : m \in ToSet(outs')
      /\ \A m \in ToSet(outs') : m \in ToSet(outs) \/ m.gen = gen'
      /\ turn' \in [open : BOOLEAN, renew : BOOLEAN]
  BY <1>0, CutFacts
<1>2. HandStep
  BY <1>0 DEF HandStep
<1>3. WorkerTypes'
  BY <1>0, <1>1 DEF SpeechInv, WorkerTypes
<1>4. /\ detach' \in [Spoken!Links -> {"none", "begun", "over"}]
      /\ stop' \in [Spoken!Links -> BOOLEAN]
      /\ \A d \in Spoken!Links \ {c} : detach'[d] = detach[d] /\ stop'[d] = stop[d]
      /\ detach'[c] = "over"
  BY <1>0 DEF SpeechInv, LinkTypes
<1>5. LinkTypes'
  BY <1>0, <1>4 DEF SpeechInv, LinkTypes
<1>6. ~(c > conn) /\ (phase # "parked" => c # conn) /\ conn \in Spoken!Links
  <2>1. detach[c] = "begun" => ~box[c].alive
    BY DEF SpeechInv, GoneOK
  <2>2. c > conn => detach[c] = "none"
    BY DEF SpeechInv, ComingOK
  <2>3. box[c].alive <=> c = conn /\ phase # "parked"
    BY DEF SpeechInv, GoneOK
  <2> QED BY <1>0, <2>1, <2>2, <2>3 DEF SpeechInv, LinkTypes
<1>7. ComingOK'
  <2>1. ASSUME NEW d \in Spoken!Links, d > conn
        PROVE  pump[d] = "off" /\ ~stop'[d] /\ detach'[d] = "none" /\ told[d] = 0
    BY <1>4, <1>6, <2>1 DEF SpeechInv, ComingOK
  <2> QED BY <1>0, <2>1 DEF SpeechInv, ComingOK
<1>8. PhaseOK'
  <2>1. phase # "parked" => stop'[conn] = stop[conn]
    BY <1>4, <1>6
  <2>2. phase \notin {"stopping", "done"}
    BY <1>0 DEF SpeechInv, PhaseOK
  <2> QED BY <1>0, <2>1, <2>2 DEF SpeechInv, PhaseOK
<1>9. \A d \in Spoken!Links : detach'[d] = "begun" => detach[d] = "begun"
  BY <1>4
<1>10. phase' \in Phases
  BY <1>3 DEF WorkerTypes
<1> QED BY <1>0, <1>1, <1>2, <1>3, <1>5, <1>7, <1>8, <1>9, <1>10, HandKeeps

\* A reset interrupts the output and stops the pump.
LEMMA ResetOK ==
    ASSUME SpeechInv, Spoken!SpeechAssumption, Spoken!Reset
    PROVE  SpeechInv'
<1>0. /\ phase = "live" /\ events < MaxEvents /\ events' = events + 1 /\ phase' = "resetting"
      /\ Spoken!InterruptOutput
      /\ stop' = [stop EXCEPT ![conn] = TRUE]
      /\ UNCHANGED << conn, sess, shut, reqs, job, rgen, cache, pump, held, detach,
                      box, units, told, made, heard, lost >>
  BY DEF Spoken!Reset
<1>1. /\ gen' \in Nat \ {0} /\ gen' >= gen /\ outs' \in Seq(Outputs)
      /\ \A m \in ToSet(outs) : m \in ToSet(outs')
      /\ \A m \in ToSet(outs') : m \in ToSet(outs) \/ m.gen = gen'
      /\ turn' \in [open : BOOLEAN, renew : BOOLEAN]
  BY <1>0, CutFacts
<1>2. HandStep
  BY <1>0 DEF HandStep
<1>3. WorkerTypes'
  BY <1>0, <1>1 DEF SpeechInv, WorkerTypes, Phases
<1>4. /\ stop' \in [Spoken!Links -> BOOLEAN]
      /\ \A d \in Spoken!Links \ {conn} : stop'[d] = stop[d]
  BY <1>0 DEF SpeechInv, LinkTypes
<1>5. conn \in Nat /\ events \in Nat /\ MaxEvents \in Nat
  BY LinkFacts DEF SpeechInv, LinkTypes
<1>6. events' \in 0..MaxEvents
  BY <1>0, <1>5
<1>7. LinkTypes'
  BY <1>0, <1>4, <1>6 DEF SpeechInv, LinkTypes
<1>8. ComingOK'
  <2>1. ASSUME NEW d \in Spoken!Links, d > conn
        PROVE  pump[d] = "off" /\ ~stop'[d] /\ detach[d] = "none" /\ told[d] = 0
    BY <1>4, <1>5, <2>1 DEF SpeechInv, ComingOK
  <2>2. conn <= events + 1
    BY DEF SpeechInv, ComingOK
  <2>3. conn <= events' + 1
    BY <1>0, <1>5, <2>2
  <2> QED BY <1>0, <2>1, <2>3 DEF ComingOK
<1>9. PhaseOK'
  BY <1>0 DEF PhaseOK
<1>10. phase' \in Phases
  BY <1>0 DEF Phases
<1>11. \A d \in Spoken!Links : detach'[d] = "begun" => detach[d] = "begun"
  BY <1>0
<1> QED BY <1>0, <1>1, <1>2, <1>3, <1>7, <1>8, <1>9, <1>10, <1>11, HandKeeps

\* The end of a session: the Thinker, the Talker, the pump and the outbox.
LEMMA StopOK ==
    ASSUME SpeechInv, Spoken!SpeechAssumption,
           Spoken!Stop \/ Spoken!WaitForSpeech \/ Spoken!Farewell
    PROVE  SpeechInv'
<1>0. /\ UNCHANGED << gen, outs, turn, events, detach >> /\ HandStep
      /\ phase \in {"live", "draining", "stopping"}
      /\ phase' \in {"draining", "stopping", "done"}
      /\ \/ UNCHANGED << shut, stop >>
         \/ shut' = TRUE /\ stop' = [stop EXCEPT ![conn] = TRUE]
  BY DEF Spoken!Stop, Spoken!WaitForSpeech, Spoken!Farewell, HandStep, Spoken!outputVars
<1>1. conn \in Spoken!Links /\ conn \in Nat /\ stop \in [Spoken!Links -> BOOLEAN]
  BY LinkFacts DEF SpeechInv, LinkTypes
<1>2. stop' \in [Spoken!Links -> BOOLEAN] /\ \A d \in Spoken!Links \ {conn} : stop'[d] = stop[d]
  BY <1>0, <1>1
<1>3. phase' \in Phases /\ shut' \in BOOLEAN /\ phase # "parked" /\ phase' # "parked"
  BY <1>0 DEF SpeechInv, WorkerTypes, Phases
<1>4. WorkerTypes'
  BY <1>0, <1>3 DEF SpeechInv, WorkerTypes, HandStep
<1>5. LinkTypes'
  BY <1>0, <1>2 DEF SpeechInv, LinkTypes, HandStep
<1>6. ComingOK'
  <2>1. ASSUME NEW d \in Spoken!Links, d > conn
        PROVE  pump[d] = "off" /\ ~stop'[d] /\ detach[d] = "none" /\ told[d] = 0
    BY <1>1, <1>2, <2>1 DEF SpeechInv, ComingOK
  <2>2. conn <= events + 1
    BY DEF SpeechInv, ComingOK
  <2> QED BY <1>0, <1>3, <2>1, <2>2 DEF ComingOK, HandStep
<1>7. PhaseOK'
  <2>1. CASE Spoken!Stop
    <3>1. phase = "live" /\ phase' = "draining" /\ UNCHANGED << conn, stop, pump >>
      BY <2>1 DEF Spoken!Stop, Spoken!outputVars
    <3> QED BY <3>1 DEF SpeechInv, PhaseOK
  <2>2. CASE Spoken!WaitForSpeech
    <3>1. /\ phase = "draining" /\ phase' = "stopping" /\ reqs = << >> /\ job = Spoken!Nothing
          /\ shut' = TRUE /\ stop' = [stop EXCEPT ![conn] = TRUE]
          /\ UNCHANGED << conn, pump, reqs, job, outs, box >>
      BY <2>2 DEF Spoken!WaitForSpeech
    <3>2. stop'[conn]
      BY <1>1, <3>1
    <3>3. pump[conn] \in {"poll", "hold"}
      BY <3>1 DEF SpeechInv, PhaseOK
    <3> QED BY <3>1, <3>2, <3>3 DEF PhaseOK
  <2>3. CASE Spoken!Farewell
    <3>1. /\ phase = "stopping" /\ phase' = "done" /\ pump[conn] = "off"
          /\ box[conn].model = << >> /\ box[conn].audio = << >>
          /\ UNCHANGED << conn, stop, pump, reqs, job, outs, box, shut >>
      BY <2>3 DEF Spoken!Farewell, Spoken!outputVars
    <3> QED BY <3>1 DEF SpeechInv, PhaseOK
  <2> QED BY <2>1, <2>2, <2>3
<1>8. gen' >= gen
  BY <1>0, WorkerFacts
<1>9. phase \notin {"resetting", "closing"}
  BY <1>0
<1>10. \A d \in Spoken!Links : detach'[d] = "begun" => detach[d] = "begun"
  BY <1>0
<1>11. /\ \A m \in ToSet(outs) : m \in ToSet(outs')
       /\ \A m \in ToSet(outs') : m \in ToSet(outs) \/ m.gen = gen'
  BY <1>0
<1> QED BY <1>0, <1>3, <1>4, <1>5, <1>6, <1>7, <1>8, <1>9, <1>10, <1>11, HandKeeps

\* The pump of a reset has drained: what is queued is discarded.
LEMMA CloseOK ==
    ASSUME SpeechInv, Spoken!SpeechAssumption, Spoken!CloseForReset
    PROVE  SpeechInv'
<1> DEFINE b == [box[conn] EXCEPT !.model = << >>, !.audio = << >>]
<1>0. /\ phase = "resetting" /\ pump[conn] = "off" /\ phase' = "closing" /\ shut' = TRUE
      /\ box' = [box EXCEPT ![conn].model = << >>, ![conn].audio = << >>]
      /\ UNCHANGED << conn, sess, turn, gen, reqs, job, rgen, cache, outs, pump,
                      stop, held, detach, units, events, told, made, heard, lost >>
  BY DEF Spoken!CloseForReset
<1>1. conn \in Spoken!Links /\ box[conn] \in Boxes /\ box \in [Spoken!Links -> Boxes]
  BY DEF SpeechInv, LinkTypes
<1>2. /\ b \in Boxes /\ b.alive = box[conn].alive /\ b.floor = box[conn].floor
      /\ b.model = << >> /\ b.audio = << >>
  <2>1. << >> \in Seq(Message({"cancel", "error", "reset.done"}))
        /\ << >> \in Seq(Message({"chunk", "done"}))
    BY EmptySeq
  <2> QED BY <1>1, <2>1 DEF Boxes
<1>3. [box EXCEPT ![conn].model = << >>, ![conn].audio = << >>] = [box EXCEPT ![conn] = b]
  BY <1>1
<1> HIDE DEF b
<1>4. /\ box' \in [Spoken!Links -> Boxes] /\ box'[conn] = b
      /\ \A d \in Spoken!Links \ {conn} : box'[d] = box[d]
  BY <1>0, <1>1, <1>2, <1>3, BoxReplaced
<1>5. WorkerTypes' /\ VoiceOK' /\ PumpOK'
  BY <1>0 DEF SpeechInv, WorkerTypes, VoiceOK, PumpOK, Phases
<1>6. LinkTypes'
  BY <1>0, <1>4 DEF SpeechInv, LinkTypes
<1>7. ComingOK'
  BY <1>0 DEF SpeechInv, ComingOK
<1>8. GoneOK'
  <2>1. ASSUME NEW c \in Spoken!Links
        PROVE  /\ box'[c].alive <=> c = conn
               /\ ~box'[c].alive => /\ box'[c].model = << >> /\ box'[c].audio = << >>
                                    /\ Spoken!Chunks(held[c]) \subseteq lost
               /\ detach[c] = "begun" => ~box'[c].alive
    BY <1>0, <1>2, <1>4 DEF SpeechInv, GoneOK
  <2>2. phase' # "parked" /\ UNCHANGED << conn, detach, held, lost >>
    BY <1>0
  <2> QED BY <2>1, <2>2 DEF GoneOK, Spoken!Chunks, Spoken!ToSet
<1>9. FloorOK'
  <2>1. ASSUME NEW c \in Spoken!Links
        PROVE  /\ \A m \in ToSet(box'[c].model) : m.kind = "cancel" => m.gen <= box'[c].floor
               /\ box'[c].alive => told[c] <= box'[c].floor
    <3>1. CASE c = conn
      BY <1>2, <1>4, <3>1, FewItems DEF SpeechInv, FloorOK
    <3>2. CASE c # conn
      BY <1>4, <3>2 DEF SpeechInv, FloorOK
    <3> QED BY <3>1, <3>2
  <2> QED BY <1>0, <2>1 DEF FloorOK, ToSet
<1>10. PhaseOK'
  BY <1>0 DEF PhaseOK
<1>11. YoungOK'
  <2>1. \A c \in Spoken!Links : box'[c].floor = box[c].floor
    BY <1>2, <1>4
  <2>2. UNCHANGED << sess, gen, made, outs, reqs, job, held >>
    BY <1>0
  <2> QED BY <2>1, <2>2 DEF SpeechInv, YoungOK, ToSet
<1>12. Conserved'
  BY <1>0 DEF Conserved
<1> QED BY <1>5, <1>6, <1>7, <1>8, <1>9, <1>10, <1>11, <1>12 DEF SpeechInv

\* A new session, with a new worker and pump, under the same connection.
LEMMA ReopenOK ==
    ASSUME SpeechInv, Spoken!SpeechAssumption, Spoken!Reopen
    PROVE  SpeechInv'
<1> DEFINE e == [kind |-> "reset.done", sess |-> sess + 1, gen |-> 1, unit |-> 0, part |-> 0]
           b == [box[conn] EXCEPT !.model = Append(box[conn].model, e)]
<1>0. /\ phase = "closing" /\ job = Spoken!Nothing /\ reqs = << >> /\ phase' = "live"
      /\ sess' = sess + 1 /\ turn' = [open |-> FALSE, renew |-> FALSE]
      /\ gen' = 1 /\ shut' = FALSE /\ rgen' = 0 /\ outs' = << >>
      /\ pump' = [pump EXCEPT ![conn] = "poll"] /\ stop' = [stop EXCEPT ![conn] = FALSE]
      /\ UNCHANGED << conn, reqs, job, cache, held, detach, units, events, told,
                      made, heard, lost >>
  BY DEF Spoken!Reopen
<1>1. box' = [box EXCEPT ![conn].model = Append(box[conn].model, e)]
  BY <1>0 DEF Spoken!Reopen
<1>2. /\ conn \in Spoken!Links /\ box[conn] \in Boxes /\ box \in [Spoken!Links -> Boxes]
      /\ box[conn].model \in Seq(Message({"cancel", "error", "reset.done"}))
  BY BoxFacts DEF SpeechInv, LinkTypes
<1>3. [box EXCEPT ![conn].model = Append(box[conn].model, e)] = [box EXCEPT ![conn] = b]
  <2> HIDE DEF e
  <2> QED BY <1>2
<1>4. e \in Message({"cancel", "error", "reset.done"}) /\ e.kind # "cancel"
  BY WorkerFacts DEF Message
<1> HIDE DEF e
<1>5. /\ Append(box[conn].model, e) \in Seq(Message({"cancel", "error", "reset.done"}))
      /\ ToSet(Append(box[conn].model, e)) = ToSet(box[conn].model) \cup {e}
  BY <1>2, <1>4, LastItem
<1>6. /\ b \in Boxes /\ b.alive = box[conn].alive /\ b.floor = box[conn].floor
      /\ b.model = Append(box[conn].model, e) /\ b.audio = box[conn].audio
  BY <1>2, <1>5 DEF Boxes
<1> HIDE DEF b
<1>7. /\ box' \in [Spoken!Links -> Boxes] /\ box'[conn] = b
      /\ \A d \in Spoken!Links \ {conn} : box'[d] = box[d]
  BY <1>1, <1>2, <1>3, <1>6, BoxReplaced
<1>8. /\ pump' \in [Spoken!Links -> {"off", "poll", "hold", "drain"}] /\ pump'[conn] = "poll"
      /\ \A d \in Spoken!Links \ {conn} : pump'[d] = pump[d]
  BY <1>0, <1>2 DEF SpeechInv, LinkTypes
<1>9. /\ stop' \in [Spoken!Links -> BOOLEAN] /\ ~stop'[conn]
      /\ \A d \in Spoken!Links \ {conn} : stop'[d] = stop[d]
  BY <1>0, <1>2 DEF SpeechInv, LinkTypes
<1>10. /\ sess' \in Nat \ {0} /\ gen' \in Nat \ {0} /\ rgen' \in Nat /\ sess' # 1
       /\ turn' \in [open : BOOLEAN, renew : BOOLEAN] /\ outs' \in Seq(Outputs)
  <2>1. /\ sess' \in Nat \ {0} /\ gen' \in Nat \ {0} /\ rgen' \in Nat /\ sess' # 1
    BY <1>0, WorkerFacts
  <2>2. turn' \in [open : BOOLEAN, renew : BOOLEAN]
    BY <1>0
  <2>3. outs' \in Seq(Outputs)
    BY <1>0, EmptySeq
  <2> QED BY <2>1, <2>2, <2>3
<1>11. WorkerTypes'
  BY <1>0, <1>10 DEF SpeechInv, WorkerTypes, Phases
<1>12. LinkTypes'
  BY <1>0, <1>7, <1>8, <1>9 DEF SpeechInv, LinkTypes
<1>13. VoiceOK'
  BY <1>0 DEF VoiceOK
<1>14. ComingOK'
  <2>1. conn \in Nat /\ \A d \in Spoken!Links : d > conn => d # conn
    BY <1>2, LinkFacts
  <2>2. ASSUME NEW d \in Spoken!Links, d > conn
        PROVE  pump'[d] = "off" /\ ~stop'[d] /\ detach[d] = "none" /\ told[d] = 0
    BY <1>8, <1>9, <2>1, <2>2 DEF SpeechInv, ComingOK
  <2>3. conn <= events + 1
    BY DEF SpeechInv, ComingOK
  <2> QED BY <1>0, <2>2, <2>3 DEF ComingOK
<1>15. GoneOK'
  <2>1. ASSUME NEW c \in Spoken!Links
        PROVE  /\ box'[c].alive <=> c = conn
               /\ ~box'[c].alive => /\ box'[c].model = << >> /\ box'[c].audio = << >>
                                    /\ Spoken!Chunks(held[c]) \subseteq lost
               /\ detach[c] = "begun" => ~box'[c].alive
    BY <1>0, <1>6, <1>7 DEF SpeechInv, GoneOK
  <2>2. phase' # "parked" /\ UNCHANGED << conn, detach, held, lost >>
    BY <1>0
  <2> QED BY <2>1, <2>2 DEF GoneOK, Spoken!Chunks, Spoken!ToSet
<1>16. PumpOK'
  <2>1. held[conn] = << >>
    BY <1>0, <1>2 DEF SpeechInv, PhaseOK, PumpOK
  <2>2. ASSUME NEW c \in Spoken!Links
        PROVE  /\ pump'[c] \in {"off", "poll"} => held[c] = << >>
               /\ pump'[c] = "hold" => Len(held[c]) = 1
               /\ pump'[c] = "drain" => held[c] # << >>
    <3>1. CASE c = conn
      BY <1>8, <2>1, <3>1
    <3>2. CASE c # conn
      BY <1>8, <3>2 DEF SpeechInv, PumpOK
    <3> QED BY <3>1, <3>2
  <2> QED BY <1>0, <2>2 DEF PumpOK
<1>17. FloorOK'
  <2>1. ASSUME NEW c \in Spoken!Links
        PROVE  /\ \A m \in ToSet(box'[c].model) : m.kind = "cancel" => m.gen <= box'[c].floor
               /\ box'[c].alive => told[c] <= box'[c].floor
    <3>1. CASE c = conn
      BY <1>4, <1>5, <1>6, <1>7, <3>1 DEF SpeechInv, FloorOK
    <3>2. CASE c # conn
      BY <1>7, <3>2 DEF SpeechInv, FloorOK
    <3> QED BY <3>1, <3>2
  <2> QED BY <1>0, <2>1 DEF FloorOK, ToSet
<1>18. PhaseOK'
  BY <1>0, <1>8, <1>9 DEF PhaseOK
<1>19. YoungOK' /\ Conserved'
  BY <1>10 DEF YoungOK, Conserved
<1> QED BY <1>11, <1>12, <1>13, <1>14, <1>15, <1>16, <1>17, <1>18, <1>19 DEF SpeechInv

\* A connection that resumes: its pump is its own, and its outbox empty.
LEMMA ResumeOK ==
    ASSUME SpeechInv, Spoken!SpeechAssumption, Spoken!Resume
    PROVE  SpeechInv'
<1> DEFINE d == conn + 1
           b == Spoken!Box(TRUE)
<1>0. /\ phase = "parked" /\ phase' = "live" /\ conn' = d
      /\ pump' = [pump EXCEPT ![d] = "poll"] /\ box' = [box EXCEPT ![d] = b]
      /\ UNCHANGED << sess, turn, gen, shut, reqs, job, rgen, cache, outs, stop,
                      held, detach, units, events, told, made, heard, lost >>
  BY DEF Spoken!Resume
<1>1. /\ conn \in Nat /\ events \in Nat /\ MaxEvents \in Nat /\ events <= MaxEvents
      /\ conn <= events /\ conn # 0 /\ conn \in Spoken!Links
  BY <1>0, LinkFacts DEF SpeechInv, LinkTypes, ComingOK
<1>2. /\ d \in Spoken!Links /\ d > conn /\ d # conn /\ d <= events + 1
      /\ \A c \in Spoken!Links : c > d => c > conn /\ c # d
  BY <1>1
<1>3. /\ b \in Boxes /\ b.alive /\ b.floor = 0 /\ b.model = << >> /\ b.audio = << >>
  BY EmptySeq DEF Spoken!Box, Boxes
<1> HIDE DEF d, b
<1>4. /\ box' \in [Spoken!Links -> Boxes] /\ box'[d] = b
      /\ \A c \in Spoken!Links \ {d} : box'[c] = box[c]
  BY <1>0, <1>2, <1>3, BoxReplaced
<1>5. /\ pump' \in [Spoken!Links -> {"off", "poll", "hold", "drain"}] /\ pump'[d] = "poll"
      /\ \A c \in Spoken!Links \ {d} : pump'[c] = pump[c]
  BY <1>0, <1>2 DEF SpeechInv, LinkTypes
<1>6. pump[d] = "off" /\ ~stop[d] /\ detach[d] = "none" /\ told[d] = 0 /\ held[d] = << >>
  BY <1>2 DEF SpeechInv, ComingOK, PumpOK
<1>7. WorkerTypes' /\ VoiceOK'
  BY <1>0 DEF SpeechInv, WorkerTypes, VoiceOK, Phases
<1>8. LinkTypes'
  BY <1>0, <1>2, <1>4, <1>5 DEF SpeechInv, LinkTypes
<1>9. ComingOK'
  <2>1. ASSUME NEW c \in Spoken!Links, c > d
        PROVE  pump'[c] = "off" /\ ~stop[c] /\ detach[c] = "none" /\ told[c] = 0
    <3>1. c > conn /\ c # d
      BY <1>2, <2>1
    <3> QED BY <1>5, <3>1 DEF SpeechInv, ComingOK
  <2> QED BY <1>0, <1>2, <2>1 DEF ComingOK
<1>10. GoneOK'
  <2>1. ASSUME NEW c \in Spoken!Links
        PROVE  /\ box'[c].alive <=> c = d
               /\ ~box'[c].alive => /\ box'[c].model = << >> /\ box'[c].audio = << >>
                                    /\ Spoken!Chunks(held[c]) \subseteq lost
               /\ detach[c] = "begun" => ~box'[c].alive
    <3>1. CASE c = d
      BY <1>3, <1>4, <1>6, <3>1
    <3>2. CASE c # d
      BY <1>0, <1>4, <3>2 DEF SpeechInv, GoneOK
    <3> QED BY <3>1, <3>2
  <2>2. phase' # "parked" /\ conn' = d /\ UNCHANGED << detach, held, lost >>
    BY <1>0
  <2> QED BY <2>1, <2>2 DEF GoneOK, Spoken!Chunks, Spoken!ToSet
<1>11. PumpOK'
  <2>1. ASSUME NEW c \in Spoken!Links
        PROVE  /\ pump'[c] \in {"off", "poll"} => held[c] = << >>
               /\ pump'[c] = "hold" => Len(held[c]) = 1
               /\ pump'[c] = "drain" => held[c] # << >>
    <3>1. CASE c = d
      BY <1>5, <1>6, <3>1
    <3>2. CASE c # d
      BY <1>5, <3>2 DEF SpeechInv, PumpOK
    <3> QED BY <3>1, <3>2
  <2> QED BY <1>0, <2>1 DEF PumpOK
<1>12. FloorOK'
  <2>1. ASSUME NEW c \in Spoken!Links
        PROVE  /\ \A m \in ToSet(box'[c].model) : m.kind = "cancel" => m.gen <= box'[c].floor
               /\ box'[c].alive => told[c] <= box'[c].floor
    <3>1. CASE c = d
      BY <1>3, <1>4, <1>6, <3>1, FewItems
    <3>2. CASE c # d
      BY <1>4, <3>2 DEF SpeechInv, FloorOK
    <3> QED BY <3>1, <3>2
  <2> QED BY <1>0, <2>1 DEF FloorOK, ToSet
<1>13. PhaseOK'
  BY <1>0, <1>5, <1>6 DEF PhaseOK
<1>14. YoungOK'
  <2>1. \A c \in Spoken!Links : box'[c].floor = 0 \/ box'[c].floor = box[c].floor
    BY <1>3, <1>4
  <2>2. 0 <= gen
    BY WorkerFacts
  <2>3. sess = 1 => /\ \A m \in made \cup ToSet(outs) \cup ToSet(reqs) : m.gen <= gen
                    /\ job # Spoken!Nothing => job.r.gen <= gen
                    /\ \A c \in Spoken!Links : /\ box[c].floor <= gen
                                                /\ \A m \in ToSet(held[c]) : m.gen <= gen
    BY DEF SpeechInv, YoungOK
  <2>4. sess = 1 => \A c \in Spoken!Links : box'[c].floor <= gen
    BY <2>1, <2>2, <2>3
  <2> QED BY <1>0, <2>3, <2>4 DEF YoungOK, ToSet
<1>15. Conserved'
  <2> SUFFICES ASSUME sess = 1, NEW m \in made, m.gen = gen
               PROVE  \/ m \in ToSet(outs) \cup ToSet(held[d]) \cup ToSet(box'[d].audio)
                      \/ m \in heard \cup lost
    BY <1>0 DEF Conserved, ToSet
  <2>1. m.kind = "chunk"
    BY WorkerFacts DEF Message
  <2>2. \/ m \in ToSet(outs) \cup ToSet(held[conn]) \cup ToSet(box[conn].audio)
        \/ m \in heard \cup lost
    BY <1>0 DEF SpeechInv, Conserved
  <2>3. /\ box[conn].audio = << >> /\ ToSet(<< >>) = {}
        /\ \A e \in ToSet(held[conn]) : e.kind = "chunk" => e \in lost
    <3>1. ~box[conn].alive
      BY <1>0, <1>1 DEF SpeechInv, GoneOK
    <3> QED BY <1>1, <3>1, AliveFacts, FewItems
  <2> QED BY <2>1, <2>2, <2>3
<1> QED BY <1>7, <1>8, <1>9, <1>10, <1>11, <1>12, <1>13, <1>14, <1>15 DEF SpeechInv

-----------------------------------------------------------------------------
(* The theorems                                                            *)

\* A step that changes nothing.
LEMMA StillOK == ASSUME SpeechInv, UNCHANGED Spoken!speechVars PROVE SpeechInv'
<1>1. UNCHANGED << phase, conn, sess, turn, gen, shut, reqs, job, rgen, cache,
                   outs, pump, stop, held, detach, box, units, events, told,
                   made, heard, lost >>
  BY DEF Spoken!speechVars
<1>2. WorkerTypes' /\ LinkTypes' /\ VoiceOK' /\ ComingOK'
  BY <1>1 DEF SpeechInv, WorkerTypes, LinkTypes, VoiceOK, ComingOK
<1>3. GoneOK' /\ PumpOK' /\ FloorOK' /\ PhaseOK'
  BY <1>1 DEF SpeechInv, GoneOK, PumpOK, FloorOK, PhaseOK, Spoken!Chunks, Spoken!ToSet, ToSet
<1>4. YoungOK' /\ Conserved'
  BY <1>1 DEF SpeechInv, YoungOK, Conserved, ToSet
<1> QED BY <1>2, <1>3, <1>4 DEF SpeechInv

\* Every step keeps the invariant.
LEMMA SpeechStepOK ==
    ASSUME SpeechInv, Spoken!SpeechAssumption, [Spoken!Next]_Spoken!speechVars
    PROVE  SpeechInv'
<1>1. CASE UNCHANGED Spoken!speechVars
  BY <1>1, StillOK
<1>2. ASSUME NEW c \in Spoken!Links, Spoken!Push(c) PROVE SpeechInv'
  BY <1>2, PushOK, PushDeadOK
<1>3. CASE Spoken!Next
  BY <1>2, <1>3, SpeakOK, InterruptOK, TakeOK, EndedOK, CheckOK, PutChunkOK, PollOK, DrainedOK,
     WriteOK, DetachOK, DropOK, ResumeOK, ResetOK, CloseOK, ReopenOK, StopOK
     DEF Spoken!Next
<1> QED BY <1>1, <1>3

\* A chunk is written while the client does not know its generation to be
\* cancelled.
LEMMA WriteHeard ==
    ASSUME SpeechInv, Spoken!SpeechAssumption, NEW c \in Spoken!Links, Spoken!Write(c),
           NEW d \in Spoken!Links, NEW m \in heard' \ heard, m \in ToSet(box[d].audio)
    PROVE  m.gen >= told[d]
<1>1. box[c].alive /\ c = conn
  BY WriteFacts
<1>2. PICK e : /\ e \in ToSet(box[c].model) \/ e \in ToSet(box[c].audio)
               /\ Spoken!Sent(c, IF Spoken!Stale(c, e) THEN Spoken!Nothing ELSE e)
  BY WriteFacts
<1>3. m = e /\ m.gen >= box[c].floor
  BY <1>2, SentFacts
<1>4. d = c
  BY <1>1, AliveFacts, FewItems
<1>5. told[c] <= box[c].floor /\ told[c] \in Nat /\ box[c].floor \in Nat /\ m.gen \in Nat
  BY <1>1, <1>4, AliveFacts, BoxFacts DEF Message
<1> QED BY <1>3, <1>4, <1>5

\* No step but the writer's makes the client hear anything.
LEMMA NextHeard ==
    ASSUME SpeechInv, Spoken!SpeechAssumption, [Spoken!Next]_Spoken!speechVars
    PROVE  [\A d \in DOMAIN box : \A m \in heard' \ heard :
               m \in ToSet(box[d].audio) => m.gen >= told[d]]_heard
<1>1. DOMAIN box = Spoken!Links
  BY DEF SpeechInv, LinkTypes
<1>2. ASSUME NEW c \in Spoken!Links, Spoken!Write(c)
      PROVE  \A d \in DOMAIN box : \A m \in heard' \ heard :
               m \in ToSet(box[d].audio) => m.gen >= told[d]
  BY <1>1, <1>2, WriteHeard
<1>3. \/ \E c \in Spoken!Links : Spoken!Write(c)
      \/ heard' = heard
  <2>1. CASE UNCHANGED Spoken!speechVars
    BY <2>1 DEF Spoken!speechVars
  <2>2. CASE \E final \in BOOLEAN : Spoken!Speak(final)
    BY <2>2 DEF Spoken!Speak, Spoken!outputVars
  <2>3. CASE Spoken!Interrupt \/ Spoken!Take \/ Spoken!GiveUp \/ Spoken!Check
             \/ Spoken!PutChunk \/ Spoken!Finish \/ Spoken!Fail
    BY <2>3 DEF Spoken!Interrupt, Spoken!Take, Spoken!GiveUp, Spoken!Check, Spoken!PutChunk,
                Spoken!Finish, Spoken!Fail, Spoken!outputVars
  <2>4. CASE \E c \in Spoken!Links : Spoken!Poll(c) \/ Spoken!Drain(c) \/ Spoken!Push(c)
                                     \/ Spoken!Detach(c)
    BY <2>4 DEF Spoken!Poll, Spoken!Drain, Spoken!Push, Spoken!Detach
  <2>5. CASE Spoken!Drop \/ Spoken!Resume \/ Spoken!Reset \/ Spoken!CloseForReset
             \/ Spoken!Reopen \/ Spoken!Stop \/ Spoken!WaitForSpeech \/ Spoken!Farewell
    BY <2>5 DEF Spoken!Drop, Spoken!Resume, Spoken!Reset, Spoken!CloseForReset, Spoken!Reopen,
                Spoken!Stop, Spoken!WaitForSpeech, Spoken!Farewell, Spoken!outputVars
  <2> QED BY <2>1, <2>2, <2>3, <2>4, <2>5 DEF Spoken!Next
<1> QED BY <1>2, <1>3

\* The invariant says what is promised.
LEMMA SpeechInvKept == SpeechInv => SpeechKept
<1>1. SpeechInv => OwnVoice
  <2> SUFFICES ASSUME SpeechInv, job.kind \in {"check", "put"}
               PROVE  cache \in {NoCache, << sess, job.r.gen >>}
    BY DEF OwnVoice
  <2>1. job # Spoken!Nothing
    OBVIOUS
  <2>2. rgen = job.r.gen /\ job.r.gen # 0
    BY <2>1, WorkerFacts DEF SpeechInv, VoiceOK, Requests
  <2> QED BY <2>2 DEF SpeechInv, VoiceOK
<1>2. SpeechInv => DoneIsAll
  <2> SUFFICES ASSUME SpeechInv, phase = "done", sess = 1, NEW m \in made, m.gen = gen
               PROVE  m \in heard \cup lost
    BY DEF DoneIsAll, AllIsHeard
  <2>1. \/ m \in ToSet(outs) \cup ToSet(held[conn]) \cup ToSet(box[conn].audio)
        \/ m \in heard \cup lost
    BY DEF SpeechInv, Conserved
  <2>2. /\ outs = << >> /\ held[conn] = << >> /\ box[conn].audio = << >> /\ ToSet(<< >>) = {}
    BY FewItems DEF SpeechInv, PhaseOK, PumpOK, LinkTypes
  <2> QED BY <2>1, <2>2
<1> QED BY <1>1, <1>2 DEF SpeechKept

\* The invariant of the spoken output: the caches and the request agree on a
\* generation, a connection that is gone holds no audio, the floor of an outbox
\* is as high as any cancel in it, and no chunk is dropped on its way
\* (AsyncTalkerWorker._run, _WebSocketOutbox, start_speech_output_pump).
THEOREM SpeechInvariance ==
    ASSUME Spoken!SpeechAssumption PROVE Spoken!Spec => []SpeechInv
<1>1. Spoken!Init => SpeechInv
  BY InitOK
<1>2. SpeechInv /\ [Spoken!Next]_Spoken!speechVars => SpeechInv'
  BY SpeechStepOK
<1> QED BY <1>1, <1>2, PTL DEF Spoken!Spec

\* Each generation is spoken in its own voice, and session.done is sent after
\* all audio that was not cancelled or taken by a dropped connection
\* (AsyncTalkerWorker._run, detached_talker.py:715-785; _drain, online_duplex.py:618).
THEOREM SpeechSafe ==
    ASSUME Spoken!SpeechAssumption PROVE Spoken!Spec => []SpeechKept
BY SpeechInvariance, SpeechInvKept, PTL

\* Once the client was told that a generation is cancelled, no audio of it is
\* written (_WebSocketOutbox._stale_audio, online_duplex.py:557).
THEOREM StaleUnheard ==
    ASSUME Spoken!SpeechAssumption PROVE Spoken!Spec => NoStaleAudio
<1>1. SpeechInv /\ [Spoken!Next]_Spoken!speechVars
      => [\A c \in DOMAIN box : \A m \in heard' \ heard :
             m \in ToSet(box[c].audio) => m.gen >= told[c]]_heard
  BY NextHeard
<1> QED BY <1>1, SpeechInvariance, PTL DEF Spoken!Spec, NoStaleAudio
=============================================================================
