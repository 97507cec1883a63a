--------------------------- MODULE TaskCallsProofs ---------------------------
(***************************************************************************)
(* Proofs about TaskCalls: an answer reaches the call it was made for, and *)
(* a turn of the user carries one batch of calls through; and about        *)
(* TaskControl, the tools behind the calls: a task that is needed is kept, *)
(* and a name keeps its meaning.                                           *)
(*                                                                         *)
(* The first argument follows the open call of the model.  From the unit   *)
(* that made it to its answer it is at one place at a time: in a posted    *)
(* entry, buffered, with the client, or with one job, and whoever has it   *)
(* has the call that is open.                                              *)
(*                                                                         *)
(* The second follows two main tasks of one name.  The older one has       *)
(* passed: it is gone, or out of the reference window, or behind enough    *)
(* newer finished tasks to be out of view.  It stays so as tasks end, age  *)
(* and are pruned; only a call in hand could make it new again, and that   *)
(* call was made when its task was live, before the younger one came.      *)
(***************************************************************************)
EXTENDS TaskCalls, NamePromise, SequenceTheorems, FiniteSetTheorems,
        WellFoundedInduction, TLAPS

-----------------------------------------------------------------------------
(* Where the open call of the model is                                     *)

Pcs == {"handle", "sleep", "feed", "answering", "error", "excuse", "excusing"}
Holding == {"handle", "feed", "error", "excuse"}
JobRecords == [call : 1..MaxCalls, turn : 0..MaxTurns, pc : Pcs, todo : Nat, nonce : Nat]
UnitEntries == [is : Units, call : 0..MaxCalls]
FedJobs == [call : 1..MaxCalls, turn : 0..MaxTurns, pc : {"answering", "excusing", "inject"},
            todo : Nat, nonce : Nat]
FedEntries == [is : {"fed", "raised"}, job : FedJobs]

Types ==
  /\ live \in [open : 0..MaxCalls, queue : Seq(1..MaxCalls)]
  /\ posted \in Seq(UnitEntries \cup FedEntries)
  /\ recv \in {"idle", "step", "inject"}
  /\ control \in BOOLEAN /\ recovering \in BOOLEAN
  /\ buffered \in 0..MaxCalls /\ external \in 0..MaxCalls
  /\ latest \in 0..MaxTurns /\ consumed \subseteq 1..latest
  /\ jobs \subseteq JobRecords
  /\ shape \in Seq(Shapes) /\ Len(shape) <= MaxCalls
  /\ served \subseteq (1..MaxTurns) \X (1..MaxCalls)
  /\ nonce \in Nat

\* A posted entry that brings the open call to the event loop: the unit that
\* made it, or the news that its answer was refused.
Carries(e) == \/ e.is \in Units /\ e.call # 0
              \/ e.is = "raised" /\ e.job.pc = "answering"
Carried(e) == IF e.is \in Units THEN e.call ELSE e.job.call

\* A posted entry the receive loop awaits: a step, or the client's own answer.
Awaited(e) == e.is \in Units \/ e.job.pc = "inject"

PostedOK(e) ==
  /\ e.is \in Units => recv = "step" /\ e.call <= Len(shape)
  /\ e.is \notin Units /\ e.job.pc = "inject"
        => recv = "inject" /\ external # 0 /\ (e.is = "fed" <=> live.open = 0)
  /\ Carries(e) => /\ live.open = Carried(e) /\ buffered = 0 /\ external = 0
                   /\ \A j \in jobs : j.pc \notin Holding

PostedOnce ==
  \A i, k \in 1..Len(posted) :
    \/ Carries(posted[i]) /\ Carries(posted[k])
    \/ Awaited(posted[i]) /\ Awaited(posted[k])
    => i = k

JobOK(j) ==
  /\ j.pc \in Holding => /\ live.open = j.call /\ buffered = 0 /\ external = 0
                         /\ \A k \in jobs : k.pc \in Holding => k = j
  /\ j.pc = "sleep" => /\ j.nonce <= nonce
                       /\ j.nonce = nonce /\ buffered # 0 => j.call = buffered
  /\ j.pc = "handle" => j.turn \in 1..latest /\ \A s \in served : s[1] # j.turn

WaitingOK ==
  /\ buffered # 0 => /\ live.open = buffered /\ external = 0
                     /\ buffered <= Len(shape) /\ Task(shape[buffered])
  /\ external # 0 => live.open = external \/ (live.open = 0 /\ recv = "inject")

ServedOK == TurnUsedOnce /\ \A s \in served : s[1] \in consumed

IInv ==
  /\ Types /\ PostedOnce /\ WaitingOK /\ ServedOK
  /\ \A e \in ToSet(posted) : PostedOK(e)
  /\ \A j \in jobs : JobOK(j)

-----------------------------------------------------------------------------
(* Jobs and posted entries                                                 *)

\* A job that moves on keeps its call, its turn and its nonce.
LEMMA MovedJob ==
  ASSUME NEW j \in JobRecords, NEW p \in Pcs
  PROVE  /\ [j EXCEPT !.pc = p] \in JobRecords
         /\ [j EXCEPT !.pc = p].pc = p
         /\ [j EXCEPT !.pc = p].call = j.call /\ [j EXCEPT !.pc = p].turn = j.turn
         /\ [j EXCEPT !.pc = p].nonce = j.nonce
BY DEF JobRecords

\* ... also when nothing is left of its batch.
LEMMA CountedJob ==
  ASSUME NEW j \in JobRecords, NEW p \in Pcs
  PROVE  /\ [j EXCEPT !.todo = 0, !.pc = p] \in JobRecords
         /\ [j EXCEPT !.todo = 0, !.pc = p].pc = p
         /\ [j EXCEPT !.todo = 0, !.pc = p].call = j.call
BY DEF JobRecords

\* A new job.
LEMMA NewJob ==
  ASSUME NEW c \in 1..MaxCalls, NEW t \in 0..MaxTurns, NEW p \in Pcs
  PROVE  /\ Job(c, t, p) \in JobRecords
         /\ Job(c, t, p).pc = p /\ Job(c, t, p).call = c /\ Job(c, t, p).turn = t
BY DEF Job, JobRecords

\* A new job for a batch of n calls.
LEMMA NewBatch ==
  ASSUME NEW c \in 1..MaxCalls, NEW t \in 0..MaxTurns, NEW p \in Pcs, NEW n \in Nat
  PROVE  /\ [Job(c, t, p) EXCEPT !.todo = n] \in JobRecords
         /\ [Job(c, t, p) EXCEPT !.todo = n].pc = p
         /\ [Job(c, t, p) EXCEPT !.todo = n].call = c
         /\ [Job(c, t, p) EXCEPT !.todo = n].turn = t
BY DEF Job, JobRecords

\* A new job that waits for a turn under the nonce n.
LEMMA NewSleep ==
  ASSUME NEW c \in 1..MaxCalls, NEW t \in 0..MaxTurns, NEW p \in Pcs, NEW n \in Nat
  PROVE  /\ [Job(c, t, p) EXCEPT !.nonce = n] \in JobRecords
         /\ [Job(c, t, p) EXCEPT !.nonce = n].pc = p
         /\ [Job(c, t, p) EXCEPT !.nonce = n].call = c
         /\ [Job(c, t, p) EXCEPT !.nonce = n].nonce = n
BY DEF Job, JobRecords

\* A unit entry and an entry about an answer are told apart.
LEMMA EntryKinds ==
  /\ \A e \in UnitEntries : e.is \in Units /\ e.call \in 0..MaxCalls
  /\ \A e \in FedEntries : e.is \in {"fed", "raised"} /\ e.is \notin Units /\ e.job \in FedJobs
BY DEF UnitEntries, FedEntries, Units, Shapes

\* The entries after one more is posted.
LEMMA Posted ==
  ASSUME posted \in Seq(UnitEntries \cup FedEntries), PostedOnce,
         NEW e \in UnitEntries \cup FedEntries, posted' = Append(posted, e),
         \A f \in ToSet(posted) : ~(Carries(f) /\ Carries(e)) /\ ~(Awaited(f) /\ Awaited(e))
  PROVE  /\ posted' \in Seq(UnitEntries \cup FedEntries)
         /\ ToSet(posted') = ToSet(posted) \cup {e}
         /\ PostedOnce'
<1>1. /\ posted' \in Seq(UnitEntries \cup FedEntries) /\ Len(posted') = Len(posted) + 1
      /\ \A i \in 1..Len(posted) : posted'[i] = posted[i]
      /\ posted'[Len(posted) + 1] = e
  OBVIOUS
<1>2. /\ ToSet(posted) = {posted[i] : i \in 1..Len(posted)}
      /\ ToSet(posted') = {posted'[i] : i \in 1..(Len(posted) + 1)}
  BY <1>1 DEF ToSet
<1>3. ToSet(posted') = ToSet(posted) \cup {e}
  <2>1. ASSUME NEW f \in ToSet(posted') PROVE f \in ToSet(posted) \cup {e}
    <3>1. PICK i \in 1..(Len(posted) + 1) : f = posted'[i] BY <1>2, <2>1
    <3>2. CASE i \in 1..Len(posted) BY <1>1, <1>2, <3>1, <3>2
    <3>3. CASE i = Len(posted) + 1 BY <1>1, <3>1, <3>3
    <3> QED BY <3>1, <3>2, <3>3
  <2>2. ASSUME NEW f \in ToSet(posted) \cup {e} PROVE f \in ToSet(posted')
    <3>1. CASE f = e
      <4>1. Len(posted) + 1 \in 1..(Len(posted) + 1) OBVIOUS
      <4> QED BY <1>1, <1>2, <3>1, <4>1
    <3>2. CASE f \in ToSet(posted)
      <4>1. PICK i \in 1..Len(posted) : f = posted[i] BY <1>2, <3>2
      <4>2. i \in 1..(Len(posted) + 1) OBVIOUS
      <4> QED BY <1>1, <1>2, <4>1, <4>2
    <3> QED BY <2>2, <3>1, <3>2
  <2> QED BY <2>1, <2>2
<1>4. PostedOnce'
  <2> SUFFICES ASSUME NEW i \in 1..(Len(posted) + 1), NEW k \in 1..(Len(posted) + 1),
                      \/ Carries(posted'[i]) /\ Carries(posted'[k])
                      \/ Awaited(posted'[i]) /\ Awaited(posted'[k])
               PROVE  i = k
    BY <1>1 DEF PostedOnce, Carries, Awaited
  <2>1. \A n \in 1..Len(posted) : posted[n] \in ToSet(posted) BY <1>2
  <2>2. CASE i \in 1..Len(posted) /\ k \in 1..Len(posted)
    BY <1>1, <2>2 DEF PostedOnce
  <2>3. CASE i \in 1..Len(posted) /\ k = Len(posted) + 1
    <3>1. posted'[i] \in ToSet(posted) /\ posted'[k] = e BY <1>1, <2>1, <2>3
    <3> QED BY <3>1
  <2>4. CASE i = Len(posted) + 1 /\ k \in 1..Len(posted)
    <3>1. posted'[k] \in ToSet(posted) /\ posted'[i] = e BY <1>1, <2>1, <2>4
    <3> QED BY <3>1
  <2> QED BY <2>2, <2>3, <2>4
<1> QED BY <1>1, <1>3, <1>4

\* The entries after the oldest one is taken.
LEMMA Taken ==
  ASSUME posted \in Seq(UnitEntries \cup FedEntries), PostedOnce,
         posted # <<>>, posted' = Tail(posted)
  PROVE  /\ posted' \in Seq(UnitEntries \cup FedEntries)
         /\ Head(posted) \in ToSet(posted) /\ Head(posted) \in UnitEntries \cup FedEntries
         /\ \A f \in ToSet(posted') :
              /\ f \in ToSet(posted)
              /\ ~(Carries(f) /\ Carries(Head(posted)))
              /\ ~(Awaited(f) /\ Awaited(Head(posted)))
         /\ PostedOnce'
<1>1. /\ posted' \in Seq(UnitEntries \cup FedEntries) /\ Len(posted') = Len(posted) - 1
      /\ \A i \in 1..(Len(posted) - 1) : posted'[i] = posted[i + 1]
      /\ Head(posted) = posted[1] /\ Len(posted) \in Nat \ {0}
  OBVIOUS
<1>2. /\ ToSet(posted) = {posted[i] : i \in 1..Len(posted)}
      /\ ToSet(posted') = {posted'[i] : i \in 1..(Len(posted) - 1)}
  <2>1. DOMAIN posted = 1..Len(posted) /\ DOMAIN posted' = 1..(Len(posted) - 1)
    BY <1>1
  <2> QED BY <2>1 DEF ToSet
<1>3. 1 \in 1..Len(posted) /\ \A i \in 1..(Len(posted) - 1) : i + 1 \in 1..Len(posted)
  BY <1>1
<1>4. Head(posted) \in ToSet(posted) /\ Head(posted) \in UnitEntries \cup FedEntries
  BY <1>1, <1>2, <1>3
<1>5. ASSUME NEW f \in ToSet(posted')
      PROVE  /\ f \in ToSet(posted)
             /\ ~(Carries(f) /\ Carries(Head(posted)))
             /\ ~(Awaited(f) /\ Awaited(Head(posted)))
  <2>1. PICK i \in 1..(Len(posted) - 1) : f = posted[i + 1] BY <1>1, <1>2
  <2>2. i + 1 \in 1..Len(posted) /\ i + 1 # 1 BY <1>3
  <2> QED BY <1>1, <1>2, <1>3, <2>1, <2>2 DEF PostedOnce
<1>6. PostedOnce'
  <2> SUFFICES ASSUME NEW i \in 1..(Len(posted) - 1), NEW k \in 1..(Len(posted) - 1),
                      \/ Carries(posted'[i]) /\ Carries(posted'[k])
                      \/ Awaited(posted'[i]) /\ Awaited(posted'[k])
               PROVE  i = k
    BY <1>1 DEF PostedOnce, Carries, Awaited
  <2>1. posted'[i] = posted[i + 1] /\ posted'[k] = posted[k + 1] BY <1>1
  <2>2. i + 1 = k + 1 BY <1>3, <2>1 DEF PostedOnce
  <2> QED BY <2>2
<1> QED BY <1>1, <1>4, <1>5, <1>6

-----------------------------------------------------------------------------
(* The initial states and the model's thread                               *)

\* At the start no call is open.
LEMMA InitOK == ASSUME TaskCallsAssumption, Init PROVE IInv
<1>1. Types
  <2>1. live \in [open : 0..MaxCalls, queue : Seq(1..MaxCalls)]
    BY DEF Init, TaskCallsAssumption
  <2>2. posted = <<>> /\ shape = <<>> /\ Len(shape) = 0
    BY DEF Init
  <2>3. posted \in Seq(UnitEntries \cup FedEntries) /\ shape \in Seq(Shapes)
    BY <2>2
  <2>4. served = {} /\ jobs = {} /\ consumed = {} /\ latest = 0
    BY DEF Init
  <2>5. recv = "idle" /\ control = FALSE /\ recovering = FALSE /\ buffered = 0
        /\ external = 0 /\ nonce = 0
    BY DEF Init
  <2>6. 0 \in 0..MaxCalls /\ 0 \in 0..MaxTurns /\ 0 <= MaxCalls /\ 0 \in Nat
    BY DEF TaskCallsAssumption
  <2> QED BY <2>1, <2>2, <2>3, <2>4, <2>5, <2>6 DEF Types
<1>2. PostedOnce /\ ToSet(posted) = {}
  BY DEF Init, PostedOnce, ToSet
<1>3. WaitingOK /\ ServedOK
  BY DEF Init, WaitingOK, ServedOK, TurnUsedOnce
<1> QED BY <1>1, <1>2, <1>3 DEF Init, IInv

\* A step of the model.
LEMMA StepOK == ASSUME TaskCallsAssumption, IInv, Step PROVE IInv'
<1>0. PICK out \in Units :
        LET tool == out \in Shapes
            call == Len(shape) + 1
            expected == tool /\ live.open = 0
        IN /\ tool => Len(shape) < MaxCalls
           /\ shape' = IF tool THEN Append(shape, out) ELSE shape
           /\ live' = [open |-> IF expected THEN call ELSE live.open,
                       queue |-> IF live.queue = <<>> THEN <<>> ELSE Tail(live.queue)]
           /\ posted' = Append(posted, [is |-> out, call |-> IF expected THEN call ELSE 0])
           /\ recv' = "step"
           /\ UNCHANGED <<control, buffered, nonce, recovering, external, latest,
                          consumed, jobs, served, raises, unfit>>
  BY DEF Step
<1> DEFINE call == IF out \in Shapes /\ live.open = 0 THEN Len(shape) + 1 ELSE 0
           e == [is |-> out, call |-> call]
<1>1. Types /\ recv = "idle"
  BY DEF IInv, Step
<1>2. /\ UNCHANGED <<control, buffered, nonce, recovering, external, latest, consumed, jobs,
                     served>>
      /\ posted' = Append(posted, e) /\ recv' = "step"
      /\ live'.open = IF call # 0 THEN call ELSE live.open
  BY <1>0, <1>1 DEF Types
<1>3. /\ shape' \in Seq(Shapes) /\ Len(shape') <= MaxCalls /\ Len(shape) <= Len(shape')
      /\ \A i \in 1..Len(shape) : shape'[i] = shape[i]
      /\ call \in 0..MaxCalls /\ call <= Len(shape')
      /\ live' \in [open : 0..MaxCalls, queue : Seq(1..MaxCalls)]
  <2>1. /\ shape' \in Seq(Shapes) /\ Len(shape') <= MaxCalls /\ Len(shape) <= Len(shape')
        /\ \A i \in 1..Len(shape) : shape'[i] = shape[i]
        /\ call \in 0..MaxCalls /\ call <= Len(shape')
    <3>1. CASE out \in Shapes
      <4>1. /\ shape \in Seq(Shapes) /\ Len(shape) < MaxCalls /\ shape' = Append(shape, out)
            /\ MaxCalls \in Nat /\ Len(shape) \in Nat
        <5>1. shape \in Seq(Shapes) /\ MaxCalls \in Nat
          BY <1>1 DEF Types, TaskCallsAssumption
        <5>2. Len(shape) < MaxCalls /\ shape' = Append(shape, out)
          BY <1>0, <3>1
        <5> QED BY <5>1, <5>2, LenProperties
      <4>2. /\ shape' \in Seq(Shapes) /\ Len(shape') = Len(shape) + 1
            /\ \A i \in 1..Len(shape) : shape'[i] = shape[i]
        BY <3>1, <4>1, AppendProperties
      <4>3. call = 0 \/ call = Len(shape) + 1
        OBVIOUS
      <4> QED BY <4>1, <4>2, <4>3
    <3>2. CASE out \notin Shapes
      BY <1>0, <1>1, <3>2 DEF Types, TaskCallsAssumption
    <3> QED BY <3>1, <3>2
  <2> DEFINE q == IF live.queue = <<>> THEN <<>> ELSE Tail(live.queue)
  <2>2. q \in Seq(1..MaxCalls)
    <3>1. live.queue \in Seq(1..MaxCalls)
      BY <1>1 DEF Types
    <3>2. CASE live.queue = <<>>
      BY <3>1, <3>2
    <3>3. CASE live.queue # <<>>
      <4>1. Tail(live.queue) \in Seq(1..MaxCalls)
        BY <3>1, <3>3, HeadTailProperties
      <4> QED BY <3>3, <4>1
    <3> QED BY <3>2, <3>3
  <2> HIDE DEF q
  <2>3. live'.open \in 0..MaxCalls
    BY <1>1, <1>2, <2>1 DEF Types
  <2>4. PICK o : o = live'.open /\ live' = [open |-> o, queue |-> q]
    BY <1>0 DEF q
  <2>6. live' \in [open : 0..MaxCalls, queue : Seq(1..MaxCalls)]
    <3>1. o \in 0..MaxCalls
      BY <2>3, <2>4
    <3> QED BY <2>2, <2>4, <3>1
  <2> QED BY <2>1, <2>6
<1>4. live.open = 0 => /\ buffered = 0 /\ external = 0
                       /\ \A j \in jobs : j.pc \notin Holding
                       /\ \A f \in ToSet(posted) : ~Carries(f)
  <2>1. buffered = 0 \/ live.open # 0 BY <1>1 DEF IInv, WaitingOK, Types
  <2>2. external = 0 \/ live.open # 0 BY <1>1 DEF IInv, WaitingOK, Types
  <2>3. \A j \in jobs : j.pc \in Holding => live.open # 0
    BY <1>1 DEF IInv, JobOK, Types, JobRecords
  <2>4. \A f \in ToSet(posted) : Carries(f) => live.open # 0
    <3>1. \A f \in ToSet(posted) : f \in UnitEntries \cup FedEntries
      BY <1>1 DEF Types, ToSet
    <3>2. \A f \in ToSet(posted) : Carries(f) => Carried(f) # 0
      <4>1. ASSUME NEW f \in UnitEntries PROVE Carries(f) => Carried(f) # 0
        BY EntryKinds DEF Carries, Carried, Units, Shapes
      <4>2. ASSUME NEW f \in FedEntries PROVE Carried(f) # 0
        BY EntryKinds DEF Carried, FedJobs
      <4> QED BY <3>1, <4>1, <4>2
    <3> QED BY <3>2 DEF IInv, PostedOK
  <2> QED BY <2>1, <2>2, <2>3, <2>4
<1>5. \A f \in ToSet(posted) : ~Awaited(f)
  BY <1>1 DEF IInv, PostedOK, Awaited
<1>6. e \in UnitEntries /\ (Carries(e) => call # 0 /\ live.open = 0)
  BY <1>3 DEF UnitEntries, Carries, Units, Shapes
<1> HIDE DEF e
<1>7. /\ posted' \in Seq(UnitEntries \cup FedEntries)
      /\ ToSet(posted') = ToSet(posted) \cup {e} /\ PostedOnce'
  BY <1>1, <1>2, <1>4, <1>5, <1>6, Posted DEF IInv, Types
<1>8. Types'
  BY <1>1, <1>2, <1>3, <1>7 DEF Types
<1>9. WaitingOK'
  <2>1. external = 0 \/ live.open = external
    BY <1>1 DEF IInv, WaitingOK
  <2>2. external # 0 => live'.open = live.open
    BY <1>1, <1>2, <2>1 DEF Types
  <2>3. buffered # 0 => /\ live.open = buffered /\ external = 0 /\ buffered <= Len(shape)
                        /\ Task(shape[buffered]) /\ buffered \in 1..Len(shape)
    BY <1>1 DEF IInv, WaitingOK, Types
  <2>4. buffered # 0 => live'.open = live.open
    BY <1>1, <1>2, <2>3 DEF Types
  <2> QED BY <1>1, <1>2, <1>3, <2>1, <2>2, <2>3, <2>4 DEF WaitingOK, Types
<1>10. ServedOK'
  BY <1>2 DEF IInv, ServedOK, TurnUsedOnce
<1>11. ASSUME NEW f \in ToSet(posted') PROVE PostedOK(f)'
  <2>1. CASE f \in ToSet(posted)
    <3>1. PostedOK(f) /\ ~Awaited(f) /\ f \in UnitEntries \cup FedEntries
      BY <1>1, <1>5, <2>1 DEF IInv, Types, ToSet
    <3>2. Carries(f) => live'.open = live.open
      BY <1>2, <1>4, <2>1
    <3> QED BY <1>2, <3>1, <3>2 DEF PostedOK, Awaited
  <2>2. CASE f = e
    <3>1. f.is \in Units /\ f.call = call
      BY <2>2 DEF e
    <3>2. Carries(f) => /\ live'.open = Carried(f) /\ buffered' = 0 /\ external' = 0
                        /\ \A j \in jobs' : j.pc \notin Holding
      BY <1>2, <1>4, <1>6, <2>2, <3>1 DEF Carried
    <3> QED BY <1>2, <1>3, <3>1, <3>2 DEF PostedOK
  <2> QED BY <1>7, <1>11, <2>1, <2>2
<1>12. ASSUME NEW j \in jobs' PROVE JobOK(j)'
  <2>1. j \in jobs /\ JobOK(j)
    BY <1>2, <1>12 DEF IInv
  <2>2. j.pc \in Holding => live'.open = live.open
    BY <1>2, <1>4, <2>1
  <2> QED BY <1>2, <2>1, <2>2 DEF JobOK
<1> QED BY <1>7, <1>8, <1>9, <1>10, <1>11, <1>12 DEF IInv

-----------------------------------------------------------------------------
(* Where the open call goes                                                *)

\* Whoever has a call has one.
LEMMA Counted ==
  ASSUME TaskCallsAssumption, IInv
  PROVE  /\ \A e \in ToSet(posted) :
              /\ e \in UnitEntries \cup FedEntries
              /\ Carries(e) => Carried(e) \in 1..MaxCalls /\ Carried(e) # 0
         /\ \A j \in jobs : j \in JobRecords /\ j.call \in 1..MaxCalls /\ j.call # 0
<1>1. Types
  BY DEF IInv
<1>2. \A e \in ToSet(posted) : e \in UnitEntries \cup FedEntries
  BY <1>1 DEF Types, ToSet
<1>3. ASSUME NEW e \in UnitEntries, Carries(e)
      PROVE  Carried(e) \in 1..MaxCalls /\ Carried(e) # 0
  BY <1>3, EntryKinds DEF Carries, Carried, Units, Shapes, TaskCallsAssumption
<1>4. ASSUME NEW e \in FedEntries
      PROVE  Carried(e) \in 1..MaxCalls /\ Carried(e) # 0
  BY EntryKinds DEF Carried, FedJobs, TaskCallsAssumption
<1>5. \A j \in jobs : j \in JobRecords /\ j.call \in 1..MaxCalls /\ j.call # 0
  BY <1>1 DEF Types, JobRecords, TaskCallsAssumption
<1> QED BY <1>2, <1>3, <1>4, <1>5

\* Jobs end and nothing else happens to the others.
LEMMA Fewer ==
  ASSUME IInv, jobs' \subseteq jobs,
         UNCHANGED <<live, posted, recv, buffered, nonce, external, latest, shape, served>>
  PROVE  /\ \A e \in ToSet(posted') : PostedOK(e)'
         /\ \A j \in jobs' : JobOK(j)'
         /\ PostedOnce' /\ WaitingOK'
<1>1. ASSUME NEW e \in ToSet(posted') PROVE PostedOK(e)'
  <2>1. PostedOK(e)
    BY <1>1 DEF IInv
  <2> QED BY <2>1 DEF PostedOK
<1>2. ASSUME NEW j \in jobs' PROVE JobOK(j)'
  <2>1. JobOK(j)
    BY <1>2 DEF IInv
  <2> QED BY <2>1 DEF JobOK
<1>3. PostedOnce' /\ WaitingOK'
  BY DEF IInv, PostedOnce, WaitingOK
<1> QED BY <1>1, <1>2, <1>3

\* The job that has the call moves on.
LEMMA HolderMoves ==
  ASSUME IInv, NEW j \in jobs, j.pc \in Holding, NEW k \in JobRecords,
         k.pc \in Holding, k.call = j.call, jobs' = Moved(j, k),
         k.pc = "handle" => j.pc = "handle" /\ k.turn = j.turn /\ served' = served,
         UNCHANGED <<live, posted, recv, buffered, nonce, external, latest, shape>>
  PROVE  /\ \A e \in ToSet(posted') : PostedOK(e)'
         /\ \A i \in jobs' : JobOK(i)'
         /\ PostedOnce' /\ WaitingOK'
<1>1. /\ live.open = j.call /\ buffered = 0 /\ external = 0
      /\ \A i \in jobs \ {j} : i.pc \notin Holding
      /\ \A e \in ToSet(posted) : ~Carries(e)
  BY DEF IInv, JobOK, PostedOK
<1>2. jobs' = (jobs \ {j}) \cup {k}
  BY DEF Moved
<1>3. ASSUME NEW e \in ToSet(posted') PROVE PostedOK(e)'
  <2>1. PostedOK(e) /\ ~Carries(e)
    BY <1>1, <1>3 DEF IInv
  <2> QED BY <2>1 DEF PostedOK
<1>4. ASSUME NEW i \in jobs' PROVE JobOK(i)'
  <2>1. CASE i = k
    <3>1. \A m \in jobs' : m.pc \in Holding => m = k
      BY <1>1, <1>2
    <3>2. k.pc # "sleep"
      BY DEF Holding
    <3>3. k.pc = "handle" => k.turn \in 1..latest /\ \A s \in served' : s[1] # k.turn
      BY DEF IInv, JobOK
    <3> QED BY <1>1, <2>1, <3>1, <3>2, <3>3 DEF JobOK
  <2>2. CASE i # k
    <3>1. i \in jobs /\ JobOK(i) /\ i.pc \notin Holding
      BY <1>1, <1>2, <1>4, <2>2 DEF IInv
    <3>2. i.pc # "handle"
      BY <3>1 DEF Holding
    <3> QED BY <3>1, <3>2 DEF JobOK
  <2> QED BY <2>1, <2>2
<1>5. PostedOnce' /\ WaitingOK'
  BY DEF IInv, PostedOnce, WaitingOK
<1> QED BY <1>3, <1>4, <1>5

\* A job gets the call, from wherever it was.
LEMMA HolderComes ==
  ASSUME IInv, NEW k \in JobRecords, k.pc \in {"handle", "error"}, jobs' \subseteq jobs \cup {k},
         \A i \in jobs : i.pc \notin Holding,
         live'.open = k.call, buffered' = 0, external' = 0,
         nonce' \in Nat, nonce <= nonce', latest <= latest', latest' \in Nat, served' = served,
         k.pc = "handle" => k.turn \in 1..latest' /\ \A s \in served : s[1] # k.turn
  PROVE  \A i \in jobs' : JobOK(i)'
<1>1. ASSUME NEW i \in jobs', i # k PROVE JobOK(i)'
  <2>1. i \in jobs /\ JobOK(i) /\ i.pc \notin Holding /\ i.pc # "handle"
    BY <1>1 DEF IInv, Holding
  <2>2. i.pc = "sleep" => i.nonce <= nonce /\ i.nonce \in Nat /\ nonce \in Nat
    BY <2>1 DEF JobOK, IInv, Types, JobRecords
  <2> QED BY <2>1, <2>2 DEF JobOK
<1>2. ASSUME k \in jobs' PROVE JobOK(k)'
  <2>1. \A m \in jobs' : m.pc \in Holding => m = k
    OBVIOUS
  <2> QED BY <2>1 DEF JobOK
<1> QED BY <1>1, <1>2

-----------------------------------------------------------------------------
(* Answers, and what jobs do                                               *)

\* A job feeds its answer, which is taken or refused.
LEMMA FeedOK == ASSUME TaskCallsAssumption, IInv, NEW j \in jobs, Feed(j) PROVE IInv'
<1> DEFINE p == IF j.pc = "feed" THEN "answering" ELSE "excusing"
           w == [j EXCEPT !.pc = p]
<1>1. /\ j.pc \in {"feed", "excuse"} /\ Fed(j.call, w) /\ jobs' = Moved(j, w)
      /\ UNCHANGED <<recv, control, buffered, nonce, recovering, external, latest,
                     consumed, shape, served, raises>>
  BY DEF Feed
<1>2. Types /\ j \in JobRecords /\ JobOK(j)
  BY DEF IInv, Types
<1>3. /\ w \in JobRecords /\ w \in FedJobs /\ w.pc = p /\ w.call = j.call
  <2>1. p \in Pcs
    BY DEF Pcs
  <2>2. w \in JobRecords /\ w.pc = p /\ w.call = j.call
    BY <1>2, <2>1, MovedJob
  <2>3. w \in FedJobs
    BY <1>1, <1>2 DEF JobRecords, FedJobs
  <2> QED BY <2>2, <2>3
<1> HIDE DEF w
<1>4. /\ live.open = j.call /\ j.call \in 1..MaxCalls /\ j.call # 0
      /\ buffered = 0 /\ external = 0
      /\ \A i \in jobs \ {j} : i.pc \notin Holding
      /\ \A e \in ToSet(posted) : ~Carries(e) /\ e \in UnitEntries \cup FedEntries
      /\ \A e \in ToSet(posted) : PostedOK(e)
  BY <1>1, <1>2, Counted DEF IInv, JobOK, PostedOK, Holding
<1>5. PICK r \in {"fed", "raised"} :
         /\ posted' = Append(posted, [is |-> r, job |-> w])
         /\ r = "fed" => live' = [open |-> 0, queue |-> Append(live.queue, j.call)]
         /\ r = "raised" => live' = live
  BY <1>1 DEF Fed
<1> DEFINE e == [is |-> r, job |-> w]
<1>6. /\ e \in UnitEntries \cup FedEntries /\ ~Awaited(e)
      /\ e.is = r /\ e.is \notin Units /\ e.job = w
      /\ Carries(e) => r = "raised" /\ w.pc = "answering"
  BY <1>3 DEF FedEntries, Awaited, Carries, Units, Shapes
<1> HIDE DEF e
<1>7. /\ posted' \in Seq(UnitEntries \cup FedEntries)
      /\ ToSet(posted') = ToSet(posted) \cup {e} /\ PostedOnce'
  BY <1>2, <1>4, <1>5, <1>6, Posted DEF IInv, Types, e
<1>8. Types'
  <2>1. live' \in [open : 0..MaxCalls, queue : Seq(1..MaxCalls)]
    <3>1. 0 \in 0..MaxCalls /\ Append(live.queue, j.call) \in Seq(1..MaxCalls)
      BY <1>2, <1>4 DEF Types, TaskCallsAssumption
    <3>2. CASE r = "fed"
      <4> DEFINE q == Append(live.queue, j.call)
      <4>1. live' = [open |-> 0, queue |-> q]
        BY <1>5, <3>2
      <4> HIDE DEF q
      <4>2. q \in Seq(1..MaxCalls)
        BY <3>1 DEF q
      <4> QED BY <3>1, <3>2, <4>1, <4>2
    <3>3. CASE r = "raised"
      BY <1>2, <1>5, <3>3 DEF Types
    <3> QED BY <3>2, <3>3
  <2>2. jobs' \subseteq JobRecords
    BY <1>1, <1>2, <1>3 DEF Types, Moved
  <2> QED BY <1>1, <1>2, <1>7, <2>1, <2>2 DEF Types
<1>9. \A i \in jobs' : i.pc \notin Holding /\ (i = w \/ (i \in jobs /\ JobOK(i)))
  <2>1. w.pc \notin Holding
    BY <1>3 DEF Holding
  <2> QED BY <1>1, <1>4, <2>1 DEF Moved, IInv
<1>10. ASSUME NEW f \in ToSet(posted') PROVE PostedOK(f)'
  <2>1. CASE f \in ToSet(posted)
    BY <1>1, <1>4, <2>1 DEF PostedOK
  <2>2. CASE f = e
    <3>1. f.job.pc # "inject" /\ f.is \notin Units
      BY <1>3, <1>6, <2>2
    <3>2. Carries(f) => live'.open = Carried(f)
      BY <1>3, <1>4, <1>5, <1>6, <2>2 DEF Carried
    <3> QED BY <1>1, <1>4, <1>9, <3>1, <3>2 DEF PostedOK
  <2> QED BY <1>7, <1>10, <2>1, <2>2
<1>11. ASSUME NEW i \in jobs' PROVE JobOK(i)'
  <2>1. CASE i = w
    BY <1>3, <1>9, <1>11, <2>1 DEF JobOK, Holding
  <2>2. CASE i \in jobs /\ JobOK(i)
    <3>1. i.pc \notin Holding /\ i.pc # "handle"
      BY <1>9, <1>11 DEF Holding
    <3> QED BY <1>1, <1>4, <2>2, <3>1 DEF JobOK
  <2> QED BY <1>9, <1>11, <2>1, <2>2
<1>12. WaitingOK' /\ ServedOK'
  BY <1>1, <1>4 DEF IInv, WaitingOK, ServedOK, TurnUsedOnce
<1> QED BY <1>7, <1>8, <1>10, <1>11, <1>12 DEF IInv

\* The client's answer to a tool of its own is fed.
LEMMA InjectOK == ASSUME TaskCallsAssumption, IInv, Inject PROVE IInv'
<1> DEFINE w == Job(external, 0, "inject")
<1>1. /\ recv = "idle" /\ external # 0 /\ recv' = "inject" /\ Fed(external, w)
      /\ UNCHANGED <<control, buffered, nonce, recovering, external, latest, consumed, jobs,
                     shape, served, raises>>
  BY DEF Inject
<1>2. Types /\ external \in 1..MaxCalls
  BY <1>1 DEF IInv, Types, TaskCallsAssumption
<1>3. w \in FedJobs /\ w.pc = "inject"
  BY <1>2 DEF Job, FedJobs, TaskCallsAssumption
<1> HIDE DEF w
<1>4. /\ live.open = external /\ buffered = 0
      /\ \A i \in jobs : i.pc \notin Holding
      /\ \A e \in ToSet(posted) : ~Carries(e) /\ e \in UnitEntries \cup FedEntries
      /\ \A e \in ToSet(posted) : PostedOK(e)
  BY <1>1, Counted DEF IInv, JobOK, PostedOK, WaitingOK
<1>5. PICK r \in {"fed", "raised"} :
         /\ posted' = Append(posted, [is |-> r, job |-> w])
         /\ r = "fed" => live' = [open |-> 0, queue |-> Append(live.queue, external)]
         /\ r = "raised" => live' = live
  BY <1>1 DEF Fed
<1> DEFINE e == [is |-> r, job |-> w]
<1>6. /\ e \in UnitEntries \cup FedEntries
      /\ e.is = r /\ e.is \notin Units /\ e.job = w /\ ~Carries(e)
  BY <1>3 DEF FedEntries, Carries, Units, Shapes
<1> HIDE DEF e
<1>7. \A f \in ToSet(posted) : ~Awaited(f)
  BY <1>1, <1>4 DEF PostedOK, Awaited
<1>8. /\ posted' \in Seq(UnitEntries \cup FedEntries)
      /\ ToSet(posted') = ToSet(posted) \cup {e} /\ PostedOnce'
  BY <1>2, <1>4, <1>5, <1>6, <1>7, Posted DEF IInv, Types, e
<1>9. Types' /\ live'.open = IF r = "fed" THEN 0 ELSE external
  <2>1. /\ live' \in [open : 0..MaxCalls, queue : Seq(1..MaxCalls)]
        /\ live'.open = IF r = "fed" THEN 0 ELSE external
    <3>1. 0 \in 0..MaxCalls /\ Append(live.queue, external) \in Seq(1..MaxCalls)
      BY <1>2 DEF Types, TaskCallsAssumption
    <3>2. CASE r = "fed"
      <4> DEFINE q == Append(live.queue, external)
      <4>1. live' = [open |-> 0, queue |-> q]
        BY <1>5, <3>2
      <4> HIDE DEF q
      <4>2. q \in Seq(1..MaxCalls)
        BY <3>1 DEF q
      <4> QED BY <3>1, <3>2, <4>1, <4>2
    <3>3. CASE r = "raised"
      BY <1>2, <1>4, <1>5, <3>3 DEF Types
    <3> QED BY <3>2, <3>3
  <2> QED BY <1>1, <1>2, <1>8, <2>1 DEF Types
<1>10. ASSUME NEW f \in ToSet(posted') PROVE PostedOK(f)'
  <2>1. CASE f \in ToSet(posted)
    BY <1>1, <1>4, <1>7, <2>1 DEF PostedOK, Awaited
  <2>2. CASE f = e
    BY <1>1, <1>3, <1>6, <1>9, <2>2 DEF PostedOK
  <2> QED BY <1>8, <1>10, <2>1, <2>2
<1>11. ASSUME NEW i \in jobs' PROVE JobOK(i)'
  <2>1. JobOK(i) /\ i.pc \notin Holding /\ i.pc # "handle"
    BY <1>1, <1>4, <1>11 DEF IInv, Holding
  <2> QED BY <1>1, <2>1 DEF JobOK
<1>12. WaitingOK' /\ ServedOK'
  BY <1>1, <1>4, <1>9 DEF IInv, WaitingOK, ServedOK, TurnUsedOnce
<1> QED BY <1>8, <1>9, <1>10, <1>11, <1>12 DEF IInv

\* A call of a batch returns from the gateway, or raises.
LEMMA HandleOK == ASSUME TaskCallsAssumption, IInv, NEW j \in jobs, Handle(j) PROVE IInv'
<1>1. /\ j.pc = "handle" /\ j.pc \in Holding
      /\ UNCHANGED <<live, posted, recv, control, buffered, nonce, recovering, external,
                     latest, shape, unfit>>
  BY DEF Handle, Holding
<1>2. Types /\ j \in JobRecords /\ j.todo \in Nat /\ JobOK(j)
  BY DEF IInv, Types, JobRecords
<1>3. j.turn \in 1..latest /\ \A s \in served : s[1] # j.turn
  BY <1>1, <1>2 DEF JobOK
<1>4. ASSUME NEW k \in JobRecords, k.pc \in Holding, k.call = j.call, jobs' = Moved(j, k),
             k.pc = "handle" => k.turn = j.turn /\ served' = served,
             served' \subseteq served \cup {<<j.turn, j.call>>},
             consumed \subseteq consumed' /\ consumed' \subseteq consumed \cup {j.turn},
             \A s \in served' : s \in served \/ s[1] \in consumed'
      PROVE  IInv'
  <2>1. /\ \A e \in ToSet(posted') : PostedOK(e)'
        /\ \A i \in jobs' : JobOK(i)'
        /\ PostedOnce' /\ WaitingOK'
    BY <1>1, <1>4, HolderMoves
  <2>2. Types'
    <3>1. consumed' \subseteq 1..latest /\ jobs' \subseteq JobRecords
      BY <1>2, <1>3, <1>4 DEF Types, Moved
    <3>2. <<j.turn, j.call>> \in (1..MaxTurns) \X (1..MaxCalls)
      BY <1>2, <1>3 DEF Types, JobRecords
    <3>3. served' \subseteq (1..MaxTurns) \X (1..MaxCalls)
      BY <1>2, <1>4, <3>2 DEF Types
    <3> QED BY <1>1, <1>2, <3>1, <3>3 DEF Types
  <2>3. ServedOK'
    <3>1. ASSUME NEW s \in served', NEW t \in served', s[1] = t[1] PROVE s = t
      <4>1. CASE s \in served /\ t \in served
        BY <3>1, <4>1 DEF IInv, ServedOK, TurnUsedOnce
      <4>2. CASE s = <<j.turn, j.call>> /\ t \in served
        BY <1>3, <3>1, <4>2
      <4>3. CASE t = <<j.turn, j.call>> /\ s \in served
        BY <1>3, <3>1, <4>3
      <4> QED BY <1>4, <3>1, <4>1, <4>2, <4>3
    <3>2. \A s \in served' : s[1] \in consumed'
      BY <1>4 DEF IInv, ServedOK
    <3> QED BY <3>1, <3>2 DEF ServedOK, TurnUsedOnce
  <2> QED BY <2>1, <2>2, <2>3 DEF IInv
<1>5. CASE j.todo > 1 /\ jobs' = Moved(j, [j EXCEPT !.todo = j.todo - 1])
           /\ UNCHANGED <<consumed, served, raises>>
  <2> DEFINE k == [j EXCEPT !.todo = j.todo - 1]
  <2>1. k \in JobRecords /\ k.pc = "handle" /\ k.call = j.call /\ k.turn = j.turn
    <3>1. j.todo - 1 \in Nat
      BY <1>2, <1>5
    <3> QED BY <1>1, <1>2, <3>1 DEF JobRecords
  <2> HIDE DEF k
  <2>2. jobs' = Moved(j, k)
    BY <1>5 DEF k
  <2> QED BY <1>1, <1>4, <1>5, <2>1, <2>2
<1>6. CASE jobs' = Moved(j, [j EXCEPT !.todo = 0, !.pc = "feed"])
           /\ consumed' = consumed \cup {j.turn}
           /\ served' = served \cup {<<j.turn, j.call>>}
  <2> DEFINE k == [j EXCEPT !.todo = 0, !.pc = "feed"]
  <2>1. k \in JobRecords /\ k.pc = "feed" /\ k.call = j.call
    <3>1. "feed" \in Pcs
      BY DEF Pcs
    <3> QED BY <1>2, <3>1, CountedJob
  <2> HIDE DEF k
  <2>2. jobs' = Moved(j, k) /\ k.pc \in Holding
    BY <1>6, <2>1 DEF k, Holding
  <2>3. \A s \in served' : s \in served \/ s[1] \in consumed'
    BY <1>6
  <2> QED BY <1>4, <1>6, <2>1, <2>2, <2>3
<1>7. CASE jobs' = Moved(j, [j EXCEPT !.todo = 0, !.pc = "error"])
           /\ UNCHANGED <<consumed, served>>
  <2> DEFINE k == [j EXCEPT !.todo = 0, !.pc = "error"]
  <2>1. k \in JobRecords /\ k.pc = "error" /\ k.call = j.call
    <3>1. "error" \in Pcs
      BY DEF Pcs
    <3> QED BY <1>2, <3>1, CountedJob
  <2> HIDE DEF k
  <2>2. jobs' = Moved(j, k) /\ k.pc \in Holding
    BY <1>7, <2>1 DEF k, Holding
  <2> QED BY <1>4, <1>7, <2>1, <2>2
<1> QED BY <1>5, <1>6, <1>7 DEF Handle

\* The excuse for a call is said, unless another one is being said.
LEMMA ExcuseOK == ASSUME TaskCallsAssumption, IInv, NEW j \in jobs, Excuse(j) PROVE IInv'
<1>1. /\ j.pc = "error" /\ j.pc \in Holding
      /\ UNCHANGED <<live, posted, recv, buffered, nonce, external, latest, consumed, shape,
                     served, raises, unfit>>
  BY DEF Excuse, Holding
<1>2. Types /\ j \in JobRecords
  BY DEF IInv, Types
<1>3. CASE Ends(j) /\ recovering' = recovering
  <2>1. jobs' = jobs \ {j} /\ control' \in BOOLEAN
    BY <1>2, <1>3 DEF Ends, Types
  <2>2. /\ \A e \in ToSet(posted') : PostedOK(e)'
        /\ \A i \in jobs' : JobOK(i)'
        /\ PostedOnce' /\ WaitingOK'
    BY <1>1, <2>1, Fewer
  <2>3. Types' /\ ServedOK'
    BY <1>1, <1>2, <1>3, <2>1 DEF Types, IInv, ServedOK, TurnUsedOnce
  <2> QED BY <2>2, <2>3 DEF IInv
<1>4. CASE recovering' = TRUE /\ jobs' = Moved(j, [j EXCEPT !.pc = "excuse"])
           /\ control' = control
  <2> DEFINE k == [j EXCEPT !.pc = "excuse"]
  <2>1. k \in JobRecords /\ k.pc = "excuse" /\ k.call = j.call
    BY <1>2, MovedJob DEF Pcs
  <2> HIDE DEF k
  <2>2. jobs' = Moved(j, k) /\ k.pc \in Holding
    BY <1>4, <2>1 DEF k, Holding
  <2>3. /\ \A e \in ToSet(posted') : PostedOK(e)'
        /\ \A i \in jobs' : JobOK(i)'
        /\ PostedOnce' /\ WaitingOK'
    BY <1>1, <2>1, <2>2, HolderMoves
  <2>4. Types' /\ ServedOK'
    BY <1>1, <1>2, <1>4, <2>1, <2>2 DEF Types, IInv, ServedOK, TurnUsedOnce, Moved
  <2> QED BY <2>3, <2>4 DEF IInv
<1> QED BY <1>3, <1>4 DEF Excuse

\* The grace of a buffered call is over, or was over before.
LEMMA ExpireOK == ASSUME TaskCallsAssumption, IInv, NEW j \in jobs, Expire(j) PROVE IInv'
<1>1. /\ j.pc = "sleep"
      /\ UNCHANGED <<live, posted, recv, control, recovering, external, latest, consumed,
                     shape, served, raises, unfit>>
  BY DEF Expire
<1>2. Types /\ j \in JobRecords /\ JobOK(j)
  BY DEF IInv, Types
<1>3. CASE jobs' = jobs \ {j} /\ UNCHANGED <<buffered, nonce>>
  <2>1. /\ \A e \in ToSet(posted') : PostedOK(e)'
        /\ \A i \in jobs' : JobOK(i)'
        /\ PostedOnce' /\ WaitingOK'
    BY <1>1, <1>3, Fewer
  <2>2. Types' /\ ServedOK'
    BY <1>1, <1>2, <1>3 DEF Types, IInv, ServedOK, TurnUsedOnce
  <2> QED BY <2>1, <2>2 DEF IInv
<1>4. CASE /\ j.nonce = nonce /\ buffered # 0
           /\ buffered' = 0 /\ nonce' = nonce + 1
           /\ jobs' = Moved(j, [j EXCEPT !.pc = "error"])
  <2> DEFINE k == [j EXCEPT !.pc = "error"]
  <2>1. k \in JobRecords /\ k.pc = "error" /\ k.call = j.call
    BY <1>2, MovedJob DEF Pcs
  <2> HIDE DEF k
  <2>2. jobs' \subseteq jobs \cup {k}
    BY <1>4 DEF k, Moved
  <2>3. /\ j.call = buffered /\ live.open = buffered /\ external = 0
        /\ \A i \in jobs : i.pc \notin Holding
        /\ \A e \in ToSet(posted) : ~Carries(e)
    BY <1>1, <1>2, <1>4 DEF IInv, JobOK, PostedOK, WaitingOK
  <2>4. nonce' \in Nat /\ nonce <= nonce' /\ latest' \in Nat /\ latest <= latest'
    BY <1>1, <1>2, <1>4 DEF Types
  <2>5. \A i \in jobs' : JobOK(i)'
    BY <1>1, <1>4, <2>1, <2>2, <2>3, <2>4, HolderComes
  <2>6. ASSUME NEW e \in ToSet(posted') PROVE PostedOK(e)'
    <3>1. PostedOK(e) /\ ~Carries(e)
      BY <1>1, <2>3, <2>6 DEF IInv
    <3> QED BY <1>1, <3>1 DEF PostedOK
  <2>7. PostedOnce' /\ WaitingOK' /\ ServedOK'
    BY <1>1, <1>4, <2>3 DEF IInv, PostedOnce, WaitingOK, ServedOK, TurnUsedOnce
  <2>8. Types'
    <3>1. jobs' \subseteq JobRecords
      BY <1>2, <2>1, <2>2 DEF Types
    <3>2. buffered' \in 0..MaxCalls
      BY <1>4 DEF TaskCallsAssumption
    <3> QED BY <1>1, <1>2, <2>4, <3>1, <3>2 DEF Types
  <2> QED BY <2>5, <2>6, <2>7, <2>8 DEF IInv
<1> QED BY <1>3, <1>4 DEF Expire

\* The next final turn of the user comes, and takes the buffered call.
LEMMA BindOK == ASSUME TaskCallsAssumption, IInv, Bind PROVE IInv'
<1>1. /\ recv = "idle" /\ latest < MaxTurns /\ latest' = latest + 1 /\ BindLate(latest + 1)
      /\ UNCHANGED <<live, posted, recv, control, recovering, external, consumed, shape,
                     served, raises, unfit>>
  BY DEF Bind
<1>2. Types
  BY DEF IInv
<1>3. /\ latest' \in 0..MaxTurns /\ latest' \in Nat /\ latest <= latest'
      /\ latest' \in 1..latest' /\ consumed' \subseteq 1..latest' /\ latest' \notin consumed
      /\ \A n \in 1..latest : n \in 1..latest'
  <2>1. latest \in Nat /\ MaxTurns \in Nat /\ latest' = latest + 1 /\ latest < MaxTurns
    BY <1>1, <1>2 DEF Types, TaskCallsAssumption
  <2>2. \A n \in 1..latest : n \in 1..latest' /\ n # latest'
    BY <2>1
  <2>3. consumed' \subseteq 1..latest' /\ latest' \notin consumed
    BY <1>1, <1>2, <2>2 DEF Types
  <2> QED BY <2>1, <2>2, <2>3
<1>4. ServedOK'
  BY <1>1 DEF IInv, ServedOK, TurnUsedOnce
<1>5. CASE buffered = 0
  <2>1. UNCHANGED <<buffered, nonce, jobs>>
    BY <1>1, <1>5 DEF BindLate
  <2>2. ASSUME NEW e \in ToSet(posted') PROVE PostedOK(e)'
    BY <1>1, <2>1, <2>2 DEF IInv, PostedOK
  <2>3. ASSUME NEW i \in jobs' PROVE JobOK(i)'
    <3>1. i \in jobs /\ JobOK(i)
      BY <2>1, <2>3 DEF IInv
    <3> QED BY <1>1, <1>3, <2>1, <3>1 DEF JobOK
  <2>4. PostedOnce' /\ WaitingOK' /\ Types'
    BY <1>1, <1>2, <1>3, <2>1 DEF IInv, PostedOnce, WaitingOK, Types
  <2> QED BY <1>4, <2>2, <2>3, <2>4 DEF IInv
<1>6. CASE buffered # 0
  <2>1. /\ live.open = buffered /\ external = 0 /\ buffered \in 1..MaxCalls
        /\ buffered \in 1..Len(shape) /\ Task(shape[buffered])
        /\ \A i \in jobs : i.pc \notin Holding
        /\ \A e \in ToSet(posted) : ~Carries(e)
    BY <1>2, <1>6 DEF IInv, JobOK, PostedOK, WaitingOK, Types, TaskCallsAssumption
  <2> DEFINE n == Batch[shape[buffered]]
             k == [Job(buffered, latest + 1, "handle") EXCEPT !.todo = n]
  <2>2. n \in Nat
    BY <2>1 DEF Task, Batch
  <2>3. /\ k \in JobRecords /\ k.pc = "handle" /\ k.call = buffered /\ k.turn = latest'
    <3>1. "handle" \in Pcs /\ latest + 1 \in 0..MaxTurns /\ latest + 1 = latest'
      BY <1>1, <1>3 DEF Pcs
    <3> QED BY <2>1, <2>2, <3>1, NewBatch
  <2>4. buffered' = 0 /\ nonce' = nonce + 1 /\ jobs' = jobs \cup {k}
    BY <1>1, <1>6 DEF BindLate, Spawn
  <2> HIDE DEF k
  <2>5. nonce' \in Nat /\ nonce <= nonce'
    BY <1>2, <2>4 DEF Types
  <2>6. \A s \in served : s[1] # latest'
    BY <1>3 DEF IInv, ServedOK
  <2>7. \A i \in jobs' : JobOK(i)'
    BY <1>1, <1>3, <2>1, <2>3, <2>4, <2>5, <2>6, HolderComes
  <2>8. ASSUME NEW e \in ToSet(posted') PROVE PostedOK(e)'
    <3>1. PostedOK(e) /\ ~Carries(e)
      BY <1>1, <2>1, <2>8 DEF IInv
    <3> QED BY <1>1, <3>1 DEF PostedOK
  <2>9. PostedOnce' /\ WaitingOK'
    BY <1>1, <2>1, <2>4 DEF IInv, PostedOnce, WaitingOK
  <2>10. Types'
    <3>1. jobs' \subseteq JobRecords /\ buffered' \in 0..MaxCalls
      BY <1>2, <2>3, <2>4 DEF Types, TaskCallsAssumption
    <3> QED BY <1>1, <1>2, <1>3, <2>5, <3>1 DEF Types
  <2> QED BY <1>4, <2>7, <2>8, <2>9, <2>10 DEF IInv
<1> QED BY <1>5, <1>6

-----------------------------------------------------------------------------
(* The event loop                                                          *)

\* The end of a step is observed: the call it made, if any, goes to a job, is
\* buffered, or is left to the client.
LEMMA ObserveOK ==
  ASSUME TaskCallsAssumption, IInv, posted # <<>>, posted' = Tail(posted),
         Head(posted).is \in Units, Observe(Head(posted)),
         UNCHANGED <<live, latest, shape, raises, unfit>>
  PROVE  IInv'
<1> DEFINE e == Head(posted)
<1>1. /\ posted' \in Seq(UnitEntries \cup FedEntries) /\ PostedOnce'
      /\ e \in ToSet(posted) /\ e \in UnitEntries \cup FedEntries
      /\ \A f \in ToSet(posted') : /\ f \in ToSet(posted)
                                   /\ ~(Carries(f) /\ Carries(e))
                                   /\ ~(Awaited(f) /\ Awaited(e))
  BY Taken DEF IInv, Types
<1>2. Types /\ e \in UnitEntries /\ PostedOK(e) /\ Awaited(e)
  BY <1>1, EntryKinds DEF IInv, Awaited
<1>3. recv = "step" /\ recv' = "idle" /\ e.call <= Len(shape) /\ e.call \in 0..MaxCalls
  BY <1>2, EntryKinds DEF PostedOK, Observe
<1>4. \A f \in ToSet(posted') : PostedOK(f) /\ ~Awaited(f)
  BY <1>1, <1>2 DEF IInv
<1> HIDE DEF e
<1>5. /\ UNCHANGED <<live, latest, shape, recovering, served>>
      /\ consumed' = IF e.is = "end" /\ latest # 0 THEN consumed \cup {latest} ELSE consumed
  BY DEF Observe, e
<1>6. consumed \subseteq consumed' /\ consumed' \subseteq 1..latest' /\ ServedOK'
  <2>1. latest # 0 => latest \in 1..latest
    BY <1>2 DEF Types, TaskCallsAssumption
  <2>2. consumed \subseteq consumed' /\ consumed' \subseteq 1..latest'
    BY <1>2, <1>5, <2>1 DEF Types
  <2> QED BY <1>5, <2>2 DEF IInv, ServedOK, TurnUsedOnce
<1>7. CASE e.call = 0
  <2>1. UNCHANGED <<jobs, external, control, buffered, nonce>>
    BY <1>7 DEF Observe, Keep, e
  <2>2. ASSUME NEW f \in ToSet(posted') PROVE PostedOK(f)'
    BY <1>4, <1>5, <2>1, <2>2 DEF PostedOK, Awaited
  <2>3. ASSUME NEW i \in jobs' PROVE JobOK(i)'
    <3>1. i \in jobs /\ JobOK(i)
      BY <2>1, <2>3 DEF IInv
    <3> QED BY <1>5, <2>1, <3>1 DEF JobOK
  <2>4. WaitingOK'
    BY <1>3, <1>5, <2>1 DEF IInv, WaitingOK
  <2>5. Types'
    BY <1>1, <1>2, <1>3, <1>5, <1>6, <2>1 DEF Types
  <2> QED BY <1>1, <1>6, <2>2, <2>3, <2>4, <2>5 DEF IInv
<1>8. CASE e.call # 0
  <2> DEFINE c == e.call
  <2>1. c \in 1..MaxCalls /\ c \in 1..Len(shape) /\ c # 0
    BY <1>2, <1>3, <1>8 DEF Types, TaskCallsAssumption
  <2>2. Carries(e) /\ Carried(e) = c
    BY <1>8 DEF Carries, Carried, e
  <2>3. /\ live.open = c /\ buffered = 0 /\ external = 0
        /\ \A j \in jobs : j.pc \notin Holding
        /\ \A f \in ToSet(posted') : ~Carries(f)
    BY <1>1, <1>2, <2>2 DEF PostedOK, e
  <2> HIDE DEF c
  <2>4. \A f \in ToSet(posted') : PostedOK(f)'
    <3> SUFFICES ASSUME NEW f \in ToSet(posted') PROVE PostedOK(f)'
      OBVIOUS
    <3>1. ~Carries(f) /\ ~Awaited(f)
      BY <1>4, <2>3
    <3> QED BY <3>1 DEF PostedOK, Awaited
  \* The call goes to a job that has it.
  <2>5. ASSUME NEW k \in JobRecords, k.pc \in {"handle", "error"}, k.call = c,
               jobs' = jobs \cup {k}, control' \in BOOLEAN,
               k.pc = "handle" => k.turn \in 1..latest /\ latest \notin consumed
                                  /\ k.turn = latest,
               UNCHANGED <<buffered, nonce, external>>
        PROVE  IInv'
    <3>1. \A i \in jobs' : JobOK(i)'
      <4>1. nonce' \in Nat /\ nonce <= nonce' /\ latest' \in Nat /\ latest <= latest'
        BY <1>2, <1>5, <2>5 DEF Types
      <4>2. k.pc = "handle" => \A s \in served : s[1] # k.turn
        BY <2>5 DEF IInv, ServedOK
      <4>3. /\ jobs' \subseteq jobs \cup {k} /\ live'.open = k.call
            /\ buffered' = 0 /\ external' = 0 /\ served' = served
            /\ k.pc = "handle" => k.turn \in 1..latest'
        BY <1>5, <2>3, <2>5
      <4> QED BY <2>3, <2>5, <4>1, <4>2, <4>3, HolderComes
    <3>2. WaitingOK'
      BY <2>3, <2>5 DEF WaitingOK
    <3>3. Types'
      BY <1>1, <1>2, <1>3, <1>5, <1>6, <2>5 DEF Types
    <3> QED BY <1>1, <1>6, <2>4, <3>1, <3>2, <3>3 DEF IInv
  <2>6. Job(c, 0, "error") \in JobRecords
        /\ Job(c, 0, "error").pc = "error" /\ Job(c, 0, "error").call = c
    <3>1. "error" \in Pcs /\ 0 \in Nat /\ 0 \in 0..MaxTurns
      BY DEF Pcs, TaskCallsAssumption
    <3> QED BY <2>1, <3>1, NewJob
  <2>7. CASE jobs' = jobs \cup {Job(c, 0, "error")} /\ external' = external /\ Keep
    <3>1. control' \in BOOLEAN /\ UNCHANGED <<buffered, nonce, external>>
      BY <1>2, <2>7 DEF Keep, Types
    <3> QED BY <2>5, <2>6, <2>7, <3>1
  <2>8. CASE external' = c /\ jobs' = jobs /\ Keep
    <3>1. ASSUME NEW i \in jobs' PROVE JobOK(i)'
      <4>1. i \in jobs /\ JobOK(i) /\ i.pc \notin Holding /\ i.pc # "handle"
        BY <2>3, <2>8, <3>1 DEF IInv, Holding
      <4> QED BY <2>8, <4>1 DEF JobOK, Keep
    <3>2. WaitingOK'
      BY <1>5, <2>3, <2>8 DEF WaitingOK, Keep
    <3>3. Types'
      <4>1. external' \in 0..MaxCalls
        BY <2>1, <2>8
      <4> QED BY <1>1, <1>2, <1>3, <1>5, <1>6, <2>8, <4>1 DEF Types, Keep
    <3> QED BY <1>1, <1>6, <2>4, <3>1, <3>2, <3>3 DEF IInv
  <2>9. CASE Task(shape[c]) /\ Bound(c) /\ external' = external
    <3> DEFINE n == Batch[shape[c]]
               h == [Job(c, latest, "handle") EXCEPT !.todo = n]
               z == [Job(c, 0, "sleep") EXCEPT !.nonce = nonce + 1]
    <3>1. CASE Spawn(Job(c, 0, "error")) /\ Keep
      BY <2>7, <2>9, <3>1 DEF Spawn
    <3>2. CASE /\ latest # 0 /\ latest \notin consumed /\ control' = TRUE
               /\ Spawn(h) /\ UNCHANGED <<buffered, nonce>>
      <4>1. n \in Nat
        BY <2>9 DEF Task, Batch
      <4>2. latest \in 0..MaxTurns /\ latest \in 1..latest /\ "handle" \in Pcs
        BY <1>2, <3>2 DEF Types, Pcs, TaskCallsAssumption
      <4>3. h \in JobRecords /\ h.pc = "handle" /\ h.call = c /\ h.turn = latest
        BY <2>1, <4>1, <4>2, NewBatch
      <4>4. jobs' = jobs \cup {h}
        BY <3>2 DEF Spawn
      <4> HIDE DEF h
      <4> QED BY <2>5, <2>9, <3>2, <4>2, <4>3, <4>4
    <3>3. CASE /\ buffered' = c /\ nonce' = nonce + 1 /\ control' = TRUE /\ Spawn(z)
      <4>1. nonce \in Nat /\ nonce + 1 \in Nat /\ "sleep" \in Pcs /\ 0 \in 0..MaxTurns
        BY <1>2 DEF Types, Pcs, TaskCallsAssumption
      <4>2. z \in JobRecords /\ z.pc = "sleep" /\ z.call = c /\ z.nonce = nonce + 1
        BY <2>1, <4>1, NewSleep
      <4>3. jobs' = jobs \cup {z}
        BY <3>3 DEF Spawn
      <4> HIDE DEF z
      <4>4. ASSUME NEW i \in jobs' PROVE JobOK(i)'
        <5>1. CASE i = z
          BY <3>3, <4>1, <4>2, <5>1 DEF JobOK, Holding
        <5>2. CASE i \in jobs
          <6>1. /\ JobOK(i) /\ i.pc \notin Holding /\ i.pc # "handle"
                /\ i.nonce \in Nat
            BY <1>2, <2>3, <5>2 DEF IInv, Holding, Types, JobRecords
          <6> QED BY <3>3, <4>1, <6>1 DEF JobOK
        <5> QED BY <4>3, <4>4, <5>1, <5>2
      <4>5. WaitingOK'
        BY <1>5, <2>1, <2>3, <2>9, <3>3 DEF WaitingOK
      <4>6. Types'
        <5>1. jobs' \subseteq JobRecords /\ buffered' \in 0..MaxCalls
          BY <1>2, <2>1, <3>3, <4>2, <4>3 DEF Types
        <5> QED BY <1>1, <1>2, <1>3, <1>5, <1>6, <2>9, <3>3, <4>1, <5>1 DEF Types
      <4> QED BY <1>1, <1>6, <2>4, <4>4, <4>5, <4>6 DEF IInv
    <3> QED BY <2>9, <3>1, <3>2, <3>3 DEF Bound
  <2>10. \/ Task(shape[c]) /\ Bound(c) /\ external' = external
         \/ Spawn(Job(c, 0, "error")) /\ external' = external /\ Keep
         \/ external' = c /\ jobs' = jobs /\ Keep
    BY <1>8, <2>3 DEF Observe, c, e
  <2> QED BY <2>7, <2>8, <2>9, <2>10 DEF Spawn
<1> QED BY <1>7, <1>8

\* A refused answer of a batch becomes an error to be said; any other job that
\* was answered ends.
LEMMA ResumeOK ==
  ASSUME TaskCallsAssumption, IInv, posted # <<>>, posted' = Tail(posted),
         Head(posted).is \notin Units, Head(posted).job.pc # "inject", Resume(Head(posted)),
         UNCHANGED <<live, latest, shape, raises, unfit>>
  PROVE  IInv'
<1> DEFINE e == Head(posted)
           j == e.job
<1>1. /\ posted' \in Seq(UnitEntries \cup FedEntries) /\ PostedOnce'
      /\ e \in ToSet(posted) /\ e \in UnitEntries \cup FedEntries
      /\ \A f \in ToSet(posted') : /\ f \in ToSet(posted)
                                   /\ ~(Carries(f) /\ Carries(e))
  BY Taken DEF IInv, Types
<1>2. Types /\ e \in FedEntries /\ PostedOK(e) /\ e.is \in {"fed", "raised"} /\ j \in FedJobs
  BY <1>1, EntryKinds DEF IInv
<1>3. /\ UNCHANGED <<live, latest, shape, recv, consumed, external, buffered, nonce, served>>
      /\ recovering' \in BOOLEAN
      /\ IF j.pc = "answering" /\ e.is = "raised"
         THEN jobs' = Moved(j, [j EXCEPT !.pc = "error"]) /\ control' = control
         ELSE Ends(j)
  BY <1>2 DEF Resume, Types
<1> HIDE DEF e
<1>4. ServedOK'
  BY <1>3 DEF IInv, ServedOK, TurnUsedOnce
<1>5. \A f \in ToSet(posted') : PostedOK(f)
  BY <1>1 DEF IInv
<1>6. CASE j.pc = "answering" /\ e.is = "raised"
  <2> DEFINE k == [j EXCEPT !.pc = "error"]
  <2>1. k \in JobRecords /\ k.pc = "error" /\ k.call = j.call
    <3>1. "error" \in Pcs
      BY DEF Pcs
    <3>2. j \in FedJobs
      BY <1>2
    <3> QED BY <3>1, <3>2 DEF FedJobs, JobRecords
  <2>2. jobs' \subseteq jobs \cup {k} /\ control' = control
    BY <1>3, <1>6 DEF Moved
  <2> HIDE DEF k
  <2>3. Carries(e) /\ Carried(e) = j.call
    BY <1>2, <1>6, EntryKinds DEF Carries, Carried
  <2>4. /\ live.open = j.call /\ buffered = 0 /\ external = 0
        /\ \A i \in jobs : i.pc \notin Holding
        /\ \A f \in ToSet(posted') : ~Carries(f)
    BY <1>1, <1>2, <2>3 DEF PostedOK
  <2>5. \A i \in jobs' : JobOK(i)'
    <3>1. nonce' \in Nat /\ nonce <= nonce' /\ latest' \in Nat /\ latest <= latest'
      BY <1>2, <1>3 DEF Types
    <3>2. live'.open = k.call /\ buffered' = 0 /\ external' = 0 /\ served' = served
      BY <1>3, <2>1, <2>4
    <3> QED BY <2>1, <2>2, <2>4, <3>1, <3>2, HolderComes
  <2>6. ASSUME NEW f \in ToSet(posted') PROVE PostedOK(f)'
    <3>1. PostedOK(f) /\ ~Carries(f)
      BY <1>5, <2>4
    <3> QED BY <1>3, <3>1 DEF PostedOK
  <2>7. WaitingOK'
    BY <1>3, <2>4 DEF WaitingOK
  <2>8. Types'
    <3>1. jobs' \subseteq JobRecords
      BY <1>2, <2>1, <2>2 DEF Types
    <3> QED BY <1>1, <1>2, <1>3, <2>2, <3>1 DEF Types
  <2> QED BY <1>1, <1>4, <2>5, <2>6, <2>7, <2>8 DEF IInv
<1>7. CASE ~(j.pc = "answering" /\ e.is = "raised")
  <2>1. jobs' = jobs \ {j} /\ control' \in BOOLEAN
    BY <1>2, <1>3, <1>7 DEF Ends, Types
  <2>2. ASSUME NEW f \in ToSet(posted') PROVE PostedOK(f)'
    <3>1. PostedOK(f)
      BY <1>5
    <3> QED BY <1>3, <2>1, <3>1 DEF PostedOK
  <2>3. ASSUME NEW i \in jobs' PROVE JobOK(i)'
    <3>1. JobOK(i)
      BY <2>1, <2>3 DEF IInv
    <3> QED BY <1>3, <2>1, <3>1 DEF JobOK
  <2>4. WaitingOK'
    BY <1>3 DEF IInv, WaitingOK
  <2>5. Types'
    <3>1. jobs' \subseteq JobRecords
      BY <1>2, <2>1 DEF Types
    <3> QED BY <1>1, <1>2, <1>3, <2>1, <3>1 DEF Types
  <2> QED BY <1>1, <1>4, <2>2, <2>3, <2>4, <2>5 DEF IInv
<1> QED BY <1>6, <1>7

\* The receive loop learns what became of the client's answer.
LEMMA InjectedOK ==
  ASSUME TaskCallsAssumption, IInv, posted # <<>>, posted' = Tail(posted),
         Head(posted).is \notin Units, Head(posted).job.pc = "inject", Injected(Head(posted)),
         UNCHANGED <<live, latest, shape, raises, unfit>>
  PROVE  IInv'
<1> DEFINE e == Head(posted)
<1>1. /\ posted' \in Seq(UnitEntries \cup FedEntries) /\ PostedOnce'
      /\ e \in ToSet(posted) /\ e \in UnitEntries \cup FedEntries
      /\ \A f \in ToSet(posted') : f \in ToSet(posted) /\ ~(Awaited(f) /\ Awaited(e))
  BY Taken DEF IInv, Types
<1>2. Types /\ e \in FedEntries /\ PostedOK(e) /\ e.is \in {"fed", "raised"} /\ Awaited(e)
  BY <1>1, EntryKinds DEF IInv, Awaited
<1>3. /\ recv' = "idle" /\ external' = (IF e.is = "fed" THEN 0 ELSE external)
      /\ UNCHANGED <<live, latest, shape, control, buffered, nonce, recovering, consumed, jobs,
                     served>>
  BY DEF Injected
<1>4. external # 0 /\ (e.is = "fed" <=> live.open = 0)
  BY <1>2 DEF PostedOK
<1> HIDE DEF e
<1>5. /\ buffered = 0
      /\ \A i \in jobs : i.pc \notin Holding
      /\ \A f \in ToSet(posted') : PostedOK(f) /\ ~Awaited(f) /\ ~Carries(f)
  BY <1>1, <1>2, <1>4 DEF IInv, WaitingOK, JobOK, PostedOK
<1>6. ASSUME NEW f \in ToSet(posted') PROVE PostedOK(f)'
  BY <1>5, <1>6 DEF PostedOK, Awaited
<1>7. ASSUME NEW i \in jobs' PROVE JobOK(i)'
  <2>1. JobOK(i) /\ i.pc \notin Holding /\ i.pc # "handle"
    BY <1>3, <1>5, <1>7 DEF IInv, Holding
  <2> QED BY <1>3, <2>1 DEF JobOK
<1>8. WaitingOK' /\ ServedOK'
  BY <1>3, <1>4, <1>5 DEF IInv, WaitingOK, ServedOK, TurnUsedOnce
<1>9. Types'
  <2>1. external' \in 0..MaxCalls
    BY <1>2, <1>3 DEF Types, TaskCallsAssumption
  <2> QED BY <1>1, <1>2, <1>3, <2>1 DEF Types
<1> QED BY <1>1, <1>6, <1>7, <1>8, <1>9 DEF IInv

\* An event that dies with the socket leaves its call open, with nobody.
LEMMA LoseOK == ASSUME TaskCallsAssumption, IInv, Lose PROVE IInv'
<1> DEFINE e == Head(posted)
<1>1. /\ posted # <<>> /\ posted' = Tail(posted) /\ e.is \in Units /\ recv' = "idle"
      /\ UNCHANGED <<live, control, buffered, nonce, recovering, external, latest,
                     consumed, jobs, shape, served>>
  BY DEF Lose
<1>2. /\ posted' \in Seq(UnitEntries \cup FedEntries) /\ PostedOnce'
      /\ e \in ToSet(posted)
      /\ \A f \in ToSet(posted') : f \in ToSet(posted) /\ ~(Awaited(f) /\ Awaited(e))
  BY <1>1, Taken DEF IInv, Types
<1>3. \A f \in ToSet(posted') : PostedOK(f) /\ ~Awaited(f)
  BY <1>1, <1>2 DEF IInv, Awaited
<1> HIDE DEF e
<1>4. ASSUME NEW f \in ToSet(posted') PROVE PostedOK(f)'
  BY <1>1, <1>3, <1>4 DEF PostedOK, Awaited
<1>5. ASSUME NEW j \in jobs' PROVE JobOK(j)'
  <2>1. j \in jobs /\ JobOK(j)
    BY <1>1, <1>5 DEF IInv
  <2> QED BY <1>1, <2>1 DEF JobOK
<1>6. WaitingOK' /\ ServedOK'
  <2>1. external # 0 => live.open = external
    <3>1. PostedOK(e)
      BY <1>2 DEF IInv
    <3>2. recv = "step"
      BY <1>1, <3>1 DEF PostedOK
    <3> QED BY <3>2 DEF IInv, WaitingOK
  <2> QED BY <1>1, <2>1 DEF IInv, WaitingOK, ServedOK, TurnUsedOnce
<1>7. Types'
  BY <1>1, <1>2 DEF IInv, Types
<1> QED BY <1>2, <1>4, <1>5, <1>6, <1>7 DEF IInv

\* Only a call can be lost.
LEMMA LostOK ==
  ASSUME TaskCallsAssumption, Types, lost \subseteq 1..MaxCalls, [Next]_callVars
  PROVE  lost' \subseteq 1..MaxCalls
<1>1. CASE Lose
  <2> DEFINE e == Head(posted)
  <2>1. posted # <<>> /\ e.is \in Units /\ lost' = lost \cup ({e.call} \ {0})
    BY <1>1 DEF Lose
  <2>2. e \in UnitEntries \cup FedEntries
    BY <2>1, HeadTailProperties DEF Types
  <2>3. e.call \in 0..MaxCalls
    BY <2>1, <2>2, EntryKinds
  <2> DEFINE c == e.call
  <2>4. c = 0 \/ c \in 1..MaxCalls
    BY <2>3 DEF TaskCallsAssumption
  <2>5. lost' = lost \cup ({c} \ {0})
    BY <2>1
  <2> HIDE DEF c
  <2> QED BY <2>4, <2>5
<1>2. CASE lost' = lost
  BY <1>2
<1>3. Step \/ Loop \/ Bind \/ Inject => lost' = lost
  BY DEF Step, Loop, Bind, Inject
<1>4. (\E j \in jobs : Feed(j) \/ Handle(j) \/ Expire(j) \/ Excuse(j)) => lost' = lost
  BY DEF Feed, Handle, Expire, Excuse
<1>5. UNCHANGED callVars => lost' = lost
  BY DEF callVars
<1> QED BY <1>1, <1>2, <1>3, <1>4, <1>5 DEF Next

-----------------------------------------------------------------------------
(* The theorems                                                            *)

\* The open call is always at one place: the invariant holds of every
\* behaviour, for every number of calls, turns and failures.
THEOREM Inductive == ASSUME TaskCallsAssumption PROVE Spec => []IInv
<1>1. Init => IInv
  BY InitOK
<1>2. IInv /\ [Next]_callVars => IInv'
  <2> SUFFICES ASSUME IInv, [Next]_callVars PROVE IInv'
    OBVIOUS
  <2>1. CASE Step
    BY <2>1, StepOK
  <2>2. CASE Loop
    <3>1. /\ posted # <<>> /\ posted' = Tail(posted)
          /\ UNCHANGED <<live, latest, shape, raises, unfit>>
      BY <2>2 DEF Loop
    <3>2. Head(posted) \in UnitEntries \cup FedEntries
      BY <3>1, Taken DEF IInv, Types
    <3>3. CASE Head(posted).is \in Units
      <4>1. Head(posted).is \notin {"fed", "raised"}
        BY <3>3 DEF Units, Shapes
      <4>2. Observe(Head(posted))
        BY <2>2, <4>1 DEF Loop
      <4> QED BY <3>1, <3>3, <4>2, ObserveOK
    <3>4. CASE Head(posted).is \notin Units
      <4>1. Head(posted).is \in {"fed", "raised"}
        BY <3>2, <3>4, EntryKinds
      <4>2. CASE Head(posted).job.pc = "inject"
        <5>1. Injected(Head(posted))
          BY <2>2, <4>1, <4>2 DEF Loop
        <5> QED BY <3>1, <3>4, <4>2, <5>1, InjectedOK
      <4>3. CASE Head(posted).job.pc # "inject"
        <5>1. Resume(Head(posted))
          BY <2>2, <4>1, <4>3 DEF Loop
        <5> QED BY <3>1, <3>4, <4>3, <5>1, ResumeOK
      <4> QED BY <4>2, <4>3
    <3> QED BY <3>3, <3>4
  <2>3. CASE Bind
    BY <2>3, BindOK
  <2>4. CASE Inject
    BY <2>4, InjectOK
  <2>5. CASE \E j \in jobs : Feed(j) \/ Handle(j) \/ Expire(j) \/ Excuse(j)
    BY <2>5, FeedOK, HandleOK, ExpireOK, ExcuseOK
  <2>6. CASE UNCHANGED callVars
    BY <2>6 DEF callVars, IInv, Types, PostedOnce, WaitingOK, ServedOK, TurnUsedOnce,
                PostedOK, JobOK
  <2>7. CASE Lose
    BY <2>7, LoseOK
  <2> QED BY <2>1, <2>2, <2>3, <2>4, <2>5, <2>6, <2>7 DEF Next
<1> QED BY <1>1, <1>2, PTL DEF Spec

\* Every variable keeps its type.
THEOREM TypeCorrect == ASSUME TaskCallsAssumption PROVE Spec => []TypeOK
<1> DEFINE Lost == lost \subseteq 1..MaxCalls
<1>1. IInv /\ Lost => TypeOK
  <2> SUFFICES ASSUME IInv, Lost PROVE TypeOK
    OBVIOUS
  <2>1. Types
    BY DEF IInv
  <2>2. \A j \in jobs : j.call \in 1..MaxCalls /\ j.turn \in 0..MaxTurns
    BY <2>1 DEF Types, JobRecords
  <2>3. consumed \subseteq 1..MaxTurns
    BY <2>1 DEF Types, TaskCallsAssumption
  <2> QED BY <2>1, <2>2, <2>3 DEF Types, TypeOK
<1>2. Init => Lost
  BY DEF Init
<1>3. IInv /\ Lost /\ [Next]_callVars => Lost'
  BY LostOK DEF IInv
<1> HIDE DEF Lost
<1> QED BY <1>1, <1>2, <1>3, Inductive, PTL DEF Spec

\* An answer or an excuse is fed to the call it was made for, and no final turn
\* carries two batches through, whatever else runs in between
\* (_observe_frontbrain and its jobs, task_tools_online.py:374-775).
THEOREM AnswersReachTheirCall == ASSUME TaskCallsAssumption PROVE Spec => []CallsBound
<1>1. IInv => CallsBound
  BY DEF IInv, JobOK, ServedOK, CallsBound, AnswersOwnCall, Holding
<1> QED BY <1>1, Inductive, PTL

-----------------------------------------------------------------------------
(* Sequences of which some entries go                                      *)

\* A set of numbers has a first one.
LEMMA First ==
    ASSUME NEW T \in SUBSET Nat, T # {}
    PROVE  \E x \in T : \A y \in T : x <= y
<1> DEFINE R == {r \in Nat \X Nat : r[1] < r[2]}
<1>1. IsWellFoundedOn(R, Nat)
    BY NatLessThanWellFounded DEF OpToRel
<1> HIDE DEF R
<1>2. \E x \in T : \A y \in T : ~ (<< y, x >> \in R)
    BY <1>1, WFMin
<1>3. \A x, y \in T : ~ (<< y, x >> \in R) => x <= y
  <2>1. \A x, y \in Nat : y < x => << y, x >> \in R
      BY DEF R
  <2> QED BY <2>1
<1> QED BY <1>2, <1>3

(* p says which position of s each entry of Only(s, S) comes from.         *)
KeptAt(s, S, n, m, p) ==
  /\ Only(s, S) = [k \in 1..m |-> s[p[k]]]
  /\ \A k \in 1..m : s[p[k]] \in S
  /\ \A k, l \in 1..m : k < l <=> p[k] < p[l]
  /\ \A i \in 1..n : s[i] \in S => \E k \in 1..m : p[k] = i

\* The positions of what is left: all of them, in their order.
LEMMA OnlyPositions ==
    ASSUME NEW n \in Nat, NEW s, DOMAIN s = 1..n, NEW S
    PROVE  \E m \in Nat : \E p \in [1..m -> 1..n] : KeptAt(s, S, n, m, p)
<1> DEFINE kept == {i \in 1..n : s[i] \in S}
           m == Cardinality(kept)
           Upto(i) == {j \in kept : j <= i}
           Rank(i) == Cardinality(Upto(i))
           p == [k \in 1..m |-> CHOOSE i \in kept : Rank(i) = k]
<1>1. IsFiniteSet(kept) /\ m \in Nat
  <2>1. IsFiniteSet(1..n) /\ kept \in SUBSET (1..n)
      BY FS_Interval
  <2>2. IsFiniteSet(kept)
      BY <2>1, FS_Subset
  <2> QED BY <2>2, FS_CardinalityType
<1>2. \A i \in kept : Upto(i) \in SUBSET kept /\ i \in Upto(i)
    OBVIOUS
<1> HIDE DEF kept
<1>3. kept \in SUBSET Nat
    BY DEF kept
<1>4. \A i \in kept : IsFiniteSet(Upto(i)) /\ Rank(i) \in 1..m
  <2> SUFFICES ASSUME NEW i \in kept PROVE IsFiniteSet(Upto(i)) /\ Rank(i) \in 1..m
      OBVIOUS
  <2>1. IsFiniteSet(Upto(i)) /\ Rank(i) <= m
      BY <1>1, <1>2, FS_Subset
  <2>2. Rank(i) \in Nat /\ Rank(i) # 0
      BY <1>2, <2>1, FS_CardinalityType, FS_EmptySet
  <2> QED BY <1>1, <2>1, <2>2
<1>5. \A i, j \in kept : i < j => Rank(i) < Rank(j)
  <2> SUFFICES ASSUME NEW i \in kept, NEW j \in kept, i < j PROVE Rank(i) < Rank(j)
      OBVIOUS
  <2>1. Upto(i) \in SUBSET Upto(j) /\ j \in Upto(j) /\ j \notin Upto(i)
    <3>1. \A x \in kept : x <= i => x <= j
        BY <1>3
    <3>2. i \in Nat /\ j \in Nat
        BY <1>3
    <3>3. \A x \in Upto(i) : x \in Upto(j)
        BY <3>1
    <3>4. ~ (j <= i)
        BY <3>2
    <3>5. j \notin Upto(i)
        BY <3>4
    <3> QED BY <1>2, <3>3, <3>5
  <2>2. Upto(i) # Upto(j)
      BY <2>1
  <2>3. Rank(i) <= Rank(j) /\ Rank(i) # Rank(j)
      BY <1>4, <2>1, <2>2, FS_Subset
  <2>4. Rank(i) \in Nat /\ Rank(j) \in Nat
      BY <1>4
  <2> HIDE DEF Rank
  <2> QED BY <2>3, <2>4
<1>6. \A i, j \in kept : Rank(i) = Rank(j) => i = j
  <2>1. \A i, j \in kept : i = j \/ i < j \/ j < i
      BY <1>3
  <2>2. \A i \in kept : Rank(i) \in Nat
    <3> SUFFICES ASSUME NEW i \in kept PROVE Rank(i) \in Nat
        OBVIOUS
    <3>1. Rank(i) \in 1..m
        BY <1>4
    <3> HIDE DEF Rank
    <3> QED BY <3>1
  <2> HIDE DEF Rank
  <2> QED BY <1>5, <2>1, <2>2
<1>7. \A k \in 1..m : \E i \in kept : Rank(i) = k
  <2> SUFFICES ASSUME NEW k \in 1..m, \A i \in kept : Rank(i) # k PROVE FALSE
      OBVIOUS
  <2> DEFINE f == [i \in kept |-> Rank(i)]
             T == (1..m) \ {k}
  <2>1. IsFiniteSet(1..m) /\ Cardinality(1..m) = m
      BY <1>1, FS_Interval
  <2>2. IsFiniteSet(T) /\ Cardinality(T) = m - 1
      BY <2>1, FS_RemoveElement
  <2> HIDE DEF T
  <2>3. f \in [kept -> T]
      BY <1>4 DEF T
  <2>4. Cardinality(T) < Cardinality(kept)
      BY <1>1, <2>2
  <2> HIDE DEF f
  <2>5. \E x, y \in kept : x # y /\ f[x] = f[y]
      BY <1>1, <2>2, <2>3, <2>4, FS_PigeonHole
  <2> QED BY <1>6, <2>5 DEF f
<1> HIDE DEF Rank
<1>8. \A k \in 1..m : p[k] \in kept /\ Rank(p[k]) = k
    BY <1>7
<1>9. p \in [1..m -> kept]
    BY <1>8
<1>10. Only(s, S) = [k \in 1..m |-> s[p[k]]]
  <2>1. Only(s, S) = [k \in 1..m |-> s[CHOOSE i \in kept : Rank(i) = k]]
      BY DEF Only, kept, Rank
  <2> QED BY <2>1
<1> HIDE DEF p
<1>11. \A k, l \in 1..m : k < l <=> p[k] < p[l]
  <2> SUFFICES ASSUME NEW k \in 1..m, NEW l \in 1..m PROVE k < l <=> p[k] < p[l]
      OBVIOUS
  <2>1. /\ p[k] \in kept /\ p[l] \in kept /\ p[k] \in Nat /\ p[l] \in Nat
        /\ Rank(p[k]) = k /\ Rank(p[l]) = l
      BY <1>3, <1>8
  <2>2. p[k] < p[l] => k < l
      BY <1>5, <2>1
  <2>3. p[l] < p[k] => l < k
      BY <1>5, <2>1
  <2>4. p[l] = p[k] => k = l
      BY <2>1
  <2> QED BY <1>1, <2>1, <2>2, <2>3, <2>4
<1>12. \A i \in kept : \E k \in 1..m : p[k] = i
  <2> SUFFICES ASSUME NEW i \in kept PROVE \E k \in 1..m : p[k] = i
      OBVIOUS
  <2>1. Rank(i) \in 1..m
      BY <1>4 DEF Rank
  <2>2. Rank(p[Rank(i)]) = Rank(i) /\ p[Rank(i)] \in kept
      BY <1>8, <2>1
  <2> QED BY <1>6, <2>1, <2>2
<1> HIDE DEF m
<1>13. p \in [1..m -> 1..n] /\ \A k \in 1..m : s[p[k]] \in S
    BY <1>9 DEF kept
<1>14. \A i \in 1..n : s[i] \in S => \E k \in 1..m : p[k] = i
    BY <1>12 DEF kept
<1>15. KeptAt(s, S, n, m, p)
    BY <1>10, <1>11, <1>13, <1>14 DEF KeptAt
<1> QED BY <1>1, <1>13, <1>15

\* The entries of a sequence.
LEMMA Items ==
    ASSUME NEW S, NEW s \in Seq(S)
    PROVE  Len(s) \in Nat /\ DOMAIN s = 1..Len(s) /\ \A i \in 1..Len(s) : s[i] \in S
BY ElementOfSeq, LenProperties

\* What is left, and in which order.
LEMMA OnlyOK ==
    ASSUME NEW T, NEW s \in Seq(T), NEW S
    PROVE  /\ Only(s, S) \in Seq(T)
           /\ ToSet(Only(s, S)) = ToSet(s) \cap S
           /\ \A x, y : Before(Only(s, S), x, y) <=> Before(s, x, y) /\ x \in S /\ y \in S
<1> DEFINE n == Len(s)
           o == Only(s, S)
<1>1. n \in Nat /\ DOMAIN s = 1..n /\ \A i \in 1..n : s[i] \in T
    BY Items
<1> HIDE DEF n
<1>2. PICK m \in Nat : \E p \in [1..m -> 1..n] : KeptAt(s, S, n, m, p)
    BY <1>1, OnlyPositions
<1>3. PICK p \in [1..m -> 1..n] :
         /\ o = [k \in 1..m |-> s[p[k]]]
         /\ \A k \in 1..m : s[p[k]] \in S
         /\ \A k, l \in 1..m : k < l <=> p[k] < p[l]
         /\ \A i \in 1..n : s[i] \in S => \E k \in 1..m : p[k] = i
    BY <1>2 DEF KeptAt
<1> HIDE DEF o
<1>4. \A k \in 1..m : p[k] \in 1..n /\ s[p[k]] \in S /\ o[k] = s[p[k]] /\ o[k] \in T
    BY <1>1, <1>3
<1>5. DOMAIN o = 1..m
    BY <1>3
<1>6. o \in Seq(T)
  <2>1. o \in [1..m -> T]
      BY <1>3, <1>4
  <2> QED BY <1>2, <2>1, SeqDef
<1>7. ToSet(o) = ToSet(s) \cap S
  <2>1. \A x \in ToSet(o) : x \in ToSet(s) \cap S
      BY <1>1, <1>4, <1>5 DEF ToSet
  <2>2. ASSUME NEW x \in ToSet(s), x \in S PROVE x \in ToSet(o)
    <3>1. PICK i \in 1..n : s[i] = x
        BY <1>1, <2>2 DEF ToSet
    <3>2. PICK k \in 1..m : p[k] = i
        BY <1>3, <2>2, <3>1
    <3> QED BY <1>4, <1>5, <3>1, <3>2 DEF ToSet
  <2> QED BY <2>1, <2>2
<1>8. ASSUME NEW x, NEW y, Before(o, x, y) PROVE Before(s, x, y) /\ x \in S /\ y \in S
  <2>1. PICK k, l \in 1..m : k < l /\ o[k] = x /\ o[l] = y
      BY <1>5, <1>8 DEF Before
  <2>2. p[k] < p[l] /\ p[k] \in 1..n /\ p[l] \in 1..n /\ s[p[k]] = x /\ s[p[l]] = y
        /\ x \in S /\ y \in S
      BY <1>3, <1>4, <2>1
  <2> QED BY <1>1, <2>2 DEF Before
<1>9. ASSUME NEW x, NEW y, Before(s, x, y), x \in S, y \in S PROVE Before(o, x, y)
  <2>1. PICK i, j \in 1..n : i < j /\ s[i] = x /\ s[j] = y
      BY <1>1, <1>9 DEF Before
  <2>2. PICK k \in 1..m : p[k] = i
      BY <1>3, <1>9, <2>1
  <2>3. PICK l \in 1..m : p[l] = j
      BY <1>3, <1>9, <2>1
  <2>4. k < l /\ o[k] = x /\ o[l] = y
      BY <1>3, <1>4, <2>1, <2>2, <2>3
  <2> QED BY <1>5, <2>4 DEF Before
<1> QED BY <1>6, <1>7, <1>8, <1>9 DEF o

\* An entry is appended.
LEMMA AppendOrder ==
    ASSUME NEW T, NEW s \in Seq(T), NEW e \in T
    PROVE  /\ Append(s, e) \in Seq(T)
           /\ ToSet(Append(s, e)) = ToSet(s) \cup {e}
           /\ \A x, y : Before(Append(s, e), x, y) <=> Before(s, x, y) \/ (x \in ToSet(s) /\ y = e)
<1> DEFINE n == Len(s)
           a == Append(s, e)
<1>1. /\ n \in Nat /\ DOMAIN s = 1..n
      /\ a \in Seq(T) /\ Len(a) = n + 1 /\ a[n + 1] = e /\ \A i \in 1..n : a[i] = s[i]
    BY Items, AppendProperties
<1>2. DOMAIN a = 1..(n + 1)
    BY <1>1, Items
<1> HIDE DEF n, a
<1>3. \A i \in 1..(n + 1) : i \in 1..n \/ i = n + 1
    BY <1>1
<1>4. 1..n \subseteq 1..(n + 1) /\ n + 1 \in 1..(n + 1) /\ \A i \in 1..n : i < n + 1
    BY <1>1
<1>5. ToSet(a) = ToSet(s) \cup {e}
    BY <1>1, <1>2, <1>3, <1>4 DEF ToSet
<1>6. ASSUME NEW x, NEW y, Before(a, x, y) PROVE Before(s, x, y) \/ (x \in ToSet(s) /\ y = e)
  <2>1. PICK i, j \in 1..(n + 1) : i < j /\ a[i] = x /\ a[j] = y
      BY <1>2, <1>6 DEF Before
  <2>2. i \in 1..n
      BY <1>1, <2>1
  <2>3. x = s[i] /\ x \in ToSet(s)
      BY <1>1, <2>1, <2>2 DEF ToSet
  <2>4. CASE j \in 1..n
      BY <1>1, <2>1, <2>2, <2>4 DEF Before
  <2>5. CASE j = n + 1
      BY <1>1, <2>1, <2>3, <2>5
  <2> QED BY <1>3, <2>4, <2>5
<1>7. ASSUME NEW x, NEW y, Before(s, x, y) PROVE Before(a, x, y)
    BY <1>1, <1>2, <1>4, <1>7 DEF Before
<1>8. ASSUME NEW x, x \in ToSet(s) PROVE Before(a, x, e)
    BY <1>1, <1>2, <1>4, <1>8 DEF Before, ToSet
<1> QED BY <1>1, <1>5, <1>6, <1>7, <1>8 DEF a

\* Before is an order on the entries of a sequence that has none twice.
LEMMA OrderFacts ==
    ASSUME NEW T, NEW s \in Seq(T), \A x : ~ Before(s, x, x)
    PROVE  /\ \A x, y : Before(s, x, y) => x \in ToSet(s) /\ y \in ToSet(s)
           /\ \A x, y, z : Before(s, x, y) /\ Before(s, y, z) => Before(s, x, z)
           /\ \A x, y \in ToSet(s) : x = y \/ Before(s, x, y) \/ Before(s, y, x)
<1> DEFINE n == Len(s)
<1>1. n \in Nat /\ DOMAIN s = 1..n
    BY Items
<1> HIDE DEF n
<1>2. \A i, j \in 1..n : s[i] = s[j] => i = j
  <2> SUFFICES ASSUME NEW i \in 1..n, NEW j \in 1..n, s[i] = s[j] PROVE i = j
      OBVIOUS
  <2>1. ~ (i < j) /\ ~ (j < i)
      BY <1>1 DEF Before
  <2> QED BY <2>1
<1>3. \A x, y : Before(s, x, y) => x \in ToSet(s) /\ y \in ToSet(s)
    BY <1>1 DEF Before, ToSet
<1>4. ASSUME NEW x, NEW y, NEW z, Before(s, x, y), Before(s, y, z) PROVE Before(s, x, z)
  <2>1. PICK i, j \in 1..n : i < j /\ s[i] = x /\ s[j] = y
      BY <1>1, <1>4 DEF Before
  <2>2. PICK k, l \in 1..n : k < l /\ s[k] = y /\ s[l] = z
      BY <1>1, <1>4 DEF Before
  <2>3. j = k
      BY <1>2, <2>1, <2>2
  <2>4. i < l
      BY <2>1, <2>2, <2>3
  <2> QED BY <1>1, <2>1, <2>2, <2>4 DEF Before
<1>5. ASSUME NEW x \in ToSet(s), NEW y \in ToSet(s), x # y
      PROVE  Before(s, x, y) \/ Before(s, y, x)
  <2>1. PICK i \in 1..n : s[i] = x
      BY <1>1, <1>5 DEF ToSet
  <2>2. PICK j \in 1..n : s[j] = y
      BY <1>1, <1>5 DEF ToSet
  <2>3. i < j \/ j < i
      BY <1>5, <2>1, <2>2
  <2> QED BY <1>1, <2>1, <2>2, <2>3 DEF Before
<1> QED BY <1>3, <1>4, <1>5

\* Some of its entries have a last one.
LEMMA LastOf ==
    ASSUME NEW T, NEW s \in Seq(T), \A x : ~ Before(s, x, x),
           NEW A \in SUBSET ToSet(s), A # {}
    PROVE  \E g \in A : \A x \in A : ~ Before(s, g, x)
<1> DEFINE n == Len(s)
           D == {d \in 0..n : \E a \in A : n - d \in 1..n /\ s[n - d] = a}
<1>1. n \in Nat /\ DOMAIN s = 1..n
    BY Items
<1> HIDE DEF n
<1>2. D \in SUBSET Nat /\ D # {}
  <2>1. PICK a \in A : a \in ToSet(s)
      OBVIOUS
  <2>2. PICK i \in 1..n : s[i] = a
      BY <1>1, <2>1 DEF ToSet
  <2>3. n - i \in D
    <3>1. n - i \in 0..n /\ n - (n - i) = i
        BY <1>1
    <3> QED BY <2>1, <2>2, <3>1
  <2>4. D \in SUBSET Nat
      BY <1>1
  <2> HIDE DEF D
  <2> QED BY <2>3, <2>4
<1>3. PICK d \in D : \A y \in D : d <= y
    BY <1>2, First
<1>4. PICK g \in A : n - d \in 1..n /\ s[n - d] = g
    BY <1>3
<1>5. ASSUME NEW x \in A, Before(s, g, x) PROVE FALSE
  <2>1. PICK i, j \in 1..n : i < j /\ s[i] = g /\ s[j] = x
      BY <1>1, <1>5 DEF Before
  <2>2. i = n - d
    <3>1. ~ (i < n - d) /\ ~ (n - d < i)
        BY <1>1, <1>4, <2>1 DEF Before
    <3>2. d \in Nat
        BY <1>2
    <3> QED BY <1>1, <2>1, <3>1, <3>2
  <2>3. n - j \in D
    <3>1. n - j \in 0..n /\ n - (n - j) = j
        BY <1>1
    <3> QED BY <1>5, <2>1, <3>1
  <2>4. d <= n - j /\ d \in Nat
      BY <1>2, <1>3, <2>3
  <2> QED BY <1>1, <2>1, <2>2, <2>4
<1> QED BY <1>5

-----------------------------------------------------------------------------
(* The names of the tasks, and what is kept of them                        *)

CONSTANTS Stems, MaxTasks, MaxMain, MaxBatch, MaxAsks
VARIABLES over, receipts, hand, standing

Control == INSTANCE TaskControl

(* What a step of the tools reads of the promises' operators.              *)
LEMMA SameTerms ==
    /\ Control!Ids = Ids /\ Control!Active = Active /\ Control!InView = InView
    /\ Control!NoName = NoName
    /\ \A t : Control!Live(t) = Live(t) /\ Control!Main(t) = Main(t)
    /\ \A t : Control!Asked(t) = Asked(t)
    /\ \A s, x, y : Control!Before(s, x, y) = Before(s, x, y)
    /\ \A s, S : Control!Only(s, S) = Only(s, S)
    /\ \A s : Control!ToSet(s) = ToSet(s)
    /\ \A s, S, t : Control!Newer(s, S, t) = Newer(s, S, t)
    /\ \A s : Control!Recent(s) = Recent(s)
    /\ \A s, n : Control!Pool(s, n) = Pool(s, n)
<1> HIDE DEF Control!Cardinality
<1>0. \A S : Control!Cardinality(S) = Cardinality(S)
    BY DEF Control!Cardinality, Cardinality
<1>1. Control!Ids = Ids
    BY DEF Control!Ids, Ids
<1>2. \A t : Control!Live(t) = Live(t)
    BY DEF Control!Live, Live
<1>3. \A t : Control!Main(t) = Main(t)
    BY DEF Control!Main, Main
<1>4. \A t : Control!Asked(t) = Asked(t)
    BY <1>1, <1>2 DEF Control!Asked, Asked
<1>5. Control!Active = Active
    BY <1>1, <1>2, <1>3 DEF Control!Active, Active
<1>6. \A s, x, y : Control!Before(s, x, y) = Before(s, x, y)
    BY DEF Control!Before, Before
<1>7. \A s, S : Control!Only(s, S) = Only(s, S)
  <2> SUFFICES ASSUME NEW s, NEW S PROVE Control!Only(s, S) = Only(s, S)
      OBVIOUS
  <2> QED BY DEF Control!Only, Only, Control!Cardinality, Cardinality
<1>8. \A s : Control!ToSet(s) = ToSet(s)
    BY DEF Control!ToSet, ToSet
<1>9. \A s, S, t : Control!Newer(s, S, t) = Newer(s, S, t)
    BY <1>6 DEF Control!Newer, Newer
<1>10. \A s : Control!Recent(s) = Recent(s)
  <2> SUFFICES ASSUME NEW s PROVE Control!Recent(s) = Recent(s)
      OBVIOUS
  <2> DEFINE shown == {t \in ToSet(s) : Main(t) /\ (t \notin late \/ Asked(t))}
             known == {t \in Control!ToSet(s) :
                         Control!Main(t) /\ (t \notin late \/ Control!Asked(t))}
  <2>1. shown = known
      BY <1>3, <1>4, <1>8
  <2>2. Recent(s) = {t \in shown : Cardinality(Newer(s, shown, t)) < MaxTerminal}
      BY DEF Recent
  <2>3. Control!Recent(s) =
          {t \in known : Cardinality(Control!Newer(s, known, t)) < MaxTerminal}
      BY <1>0 DEF Control!Recent
  <2> HIDE DEF shown, known
  <2> QED BY <1>9, <2>1, <2>2, <2>3
<1>11. Control!InView = InView
    BY <1>5, <1>10 DEF Control!InView, InView
<1>12. Control!NoName = NoName
    BY DEF Control!NoName, NoName
<1>13. \A s, n : Control!Pool(s, n) = Pool(s, n)
    BY <1>5, <1>10, <1>12 DEF Control!Pool, Pool
<1> QED BY <1>1, <1>2, <1>3, <1>4, <1>5, <1>6, <1>7, <1>8, <1>9, <1>10, <1>11, <1>12, <1>13

Statuses == {"queued", "running", "ended", "gone"}
NameSeqs == Seq(Stems \cup Nat) \ {NoName}
TaskRecords ==
  [kind : {"main", "side"}, status : Statuses, name : NameSeqs,
   parent : Nat, q : Nat, p : Nat]

ControlTypes ==
  /\ tasks \in Seq(TaskRecords) /\ Len(tasks) <= MaxTasks
  /\ ended \in Seq(Nat)
  /\ \A t \in Ids : tasks[t].q + tasks[t].p <= MaxAsks

MainEnded == {u \in ToSet(ended) : Main(u)}

(* Out of view for good, but for a side query: t is late, or there are     *)
(* enough newer tasks to fill the view.                                    *)
Passed(t) ==
  /\ ~ Live(t)
  /\ tasks[t].status = "ended" =>
       t \in late \/ Cardinality(Newer(ended, MainEnded, t)) >= MaxTerminal

Namesakes(t, u) == Main(t) /\ Main(u) /\ t < u /\ tasks[t].name = tasks[u].name
Youngest(t) == \A u \in Ids : ~ Namesakes(t, u)

Apart == \A t \in Ids : Youngest(t) \/ Passed(t)

HandOK ==
  \/ hand = Control!Nobody
  \/ \E a \in Control!Awaiting, S \in SUBSET Ids :
       /\ hand = [act |-> a, key |-> hand.key, left |-> S]
       /\ \A t \in S : Youngest(t) /\ tasks[t].status # "gone"

OrderOK ==
  /\ \A t : t \in ToSet(ended) <=> t \in Ids /\ tasks[t].status = "ended"
  /\ \A t : ~ Before(ended, t, t)
  /\ late \subseteq ToSet(ended) /\ over \subseteq late
  /\ \A t, u : Before(ended, t, u) /\ u \in late => t \in late

Needed ==
  /\ \A t \in undelivered : t \in Ids /\ tasks[t].status = "ended"
  /\ \A t \in Ids : Asked(t) => tasks[t].status # "gone"

ControlInv == ControlTypes /\ Apart /\ HandOK /\ OrderOK /\ Needed

(* The forms of a step: what it does to the records, ...                   *)
Alike ==
  /\ tasks' \in Seq(TaskRecords) /\ Len(tasks') = Len(tasks)
  /\ \A t \in Ids : /\ tasks'[t].kind = tasks[t].kind
                    /\ tasks'[t].name = tasks[t].name
                    /\ tasks'[t].parent = tasks[t].parent
                    /\ tasks'[t].q + tasks'[t].p <= MaxAsks
AsLive ==
  \A t \in Ids : \/ tasks'[t].status = tasks[t].status
                 \/ tasks[t].status = "queued" /\ tasks'[t].status = "running"

(* ... and to the call in hand.                                            *)
HandKept ==
  \/ hand' = hand \/ hand' = Control!Nobody
  \/ /\ hand # Control!Nobody
     /\ \E S \in SUBSET hand.left : hand' = [hand EXCEPT !.left = S]

Quiet == Alike /\ AsLive /\ HandKept /\ UNCHANGED << ended, late, over, undelivered >>

Touches(t) ==
  /\ Alike /\ AsLive /\ HandKept /\ undelivered' = undelivered
  /\ hand # Control!Nobody /\ t \in hand.left
  /\ ended' = IF t \in ToSet(ended) THEN Append(Only(ended, Ids \ {t}), t) ELSE ended
  /\ late' = late \ {t} /\ over' = over \ {t}

EndsAt(t) ==
  /\ Alike /\ HandKept
  /\ t \in Ids /\ Live(t)
  /\ tasks'[t].status = "ended"
  /\ \A u \in Ids \ {t} : tasks'[u].status = tasks[u].status
  /\ ended' = Append(ended, t) /\ undelivered' = undelivered \cup {t}
  /\ UNCHANGED << late, over >>

Ages(t) ==
  /\ t \in ToSet(ended)
  /\ \/ /\ \A u \in ToSet(ended) : Before(ended, u, t) => u \in late
        /\ late' = late \cup {t} /\ over' = over
     \/ t \in late /\ late' = late /\ over' = over \cup {t}
  /\ UNCHANGED << tasks, ended, undelivered, hand >>

Told == undelivered' \subseteq undelivered /\ UNCHANGED << tasks, ended, late, over, hand >>

\* The tasks are numbered from 1, and finitely many.
LEMMA IdsAre == ControlTypes => /\ Ids = 1..Len(tasks) /\ Len(tasks) \in Nat
                                /\ Ids \in SUBSET Nat /\ IsFiniteSet(Ids)
                                /\ \A t \in Ids : tasks[t] \in TaskRecords
<1> SUFFICES ASSUME ControlTypes PROVE /\ Ids = 1..Len(tasks) /\ Len(tasks) \in Nat
                                       /\ Ids \in SUBSET Nat /\ IsFiniteSet(Ids)
                                       /\ \A t \in Ids : tasks[t] \in TaskRecords
    OBVIOUS
<1> HIDE DEF TaskRecords
<1>1. /\ Len(tasks) \in Nat /\ DOMAIN tasks = 1..Len(tasks)
      /\ \A t \in 1..Len(tasks) : tasks[t] \in TaskRecords
    BY Items DEF ControlTypes
<1>2. IsFiniteSet(1..Len(tasks))
    BY <1>1, FS_Interval
<1> QED BY <1>1, <1>2 DEF Ids

\* A step that leaves names, kinds and parents alone.
LEMMA AlikeFacts ==
    ASSUME ControlTypes, Alike
    PROVE  /\ Ids' = Ids
           /\ \A t \in Ids : Main(t)' = Main(t)
           /\ \A t, u \in Ids : Namesakes(t, u)' = Namesakes(t, u)
           /\ \A t \in Ids : Youngest(t)' = Youngest(t)
<1>1. Ids' = Ids
  <2>1. DOMAIN tasks' = 1..Len(tasks')
      BY Items DEF Alike
  <2> QED BY <2>1, IdsAre DEF Ids, Alike
<1>2. \A t \in Ids : Main(t)' = Main(t)
    BY DEF Main, Alike
<1>3. \A t, u \in Ids : Namesakes(t, u)' = Namesakes(t, u)
    BY <1>2 DEF Namesakes, Alike
<1>4. \A t \in Ids : Youngest(t)' = Youngest(t)
    BY <1>1, <1>3 DEF Youngest
<1> QED BY <1>1, <1>2, <1>3, <1>4

\* ... and lets nothing end.
LEMMA AsLiveFacts ==
    ASSUME ControlTypes, Alike, AsLive
    PROVE  /\ \A t \in Ids : Live(t)' = Live(t)
           /\ \A t \in Ids : (tasks[t].status = "ended")' = (tasks[t].status = "ended")
           /\ \A t \in Ids : (tasks[t].status = "gone")' = (tasks[t].status = "gone")
           /\ \A t \in Ids : Asked(t)' = Asked(t)
<1>1. \A t \in Ids : Live(t)' = Live(t)
    BY DEF Live, AsLive
<1>2. Ids' = Ids
    BY AlikeFacts
<1>3. \A t \in Ids : Asked(t)' = Asked(t)
    BY <1>1, <1>2 DEF Asked, Alike
<1>4. \A t \in Ids : (tasks[t].status = "ended")' = (tasks[t].status = "ended")
    BY DEF AsLive
<1>5. \A t \in Ids : (tasks[t].status = "gone")' = (tasks[t].status = "gone")
    BY DEF AsLive
<1> QED BY <1>1, <1>3, <1>4, <1>5

\* The call in hand stays one that names none of two namesakes but the younger.
LEMMA HandKeptOK ==
    ASSUME ControlTypes, HandOK, Alike, HandKept,
           \A t \in Ids : tasks[t].status # "gone" => (tasks[t].status # "gone")'
    PROVE  HandOK'
<1>1. Ids' = Ids /\ \A t \in Ids : Youngest(t)' = Youngest(t)
    BY AlikeFacts
<1>2. CASE hand' = Control!Nobody
    BY <1>2 DEF HandOK, Control!Nobody
<1>3. CASE hand # Control!Nobody /\ \E S \in SUBSET hand.left : hand' = [hand EXCEPT !.left = S]
  <2>1. PICK a \in Control!Awaiting, S \in SUBSET Ids :
          /\ hand = [act |-> a, key |-> hand.key, left |-> S]
          /\ \A t \in S : Youngest(t) /\ tasks[t].status # "gone"
      BY <1>3 DEF HandOK
  <2>2. PICK R \in SUBSET hand.left : hand' = [hand EXCEPT !.left = R]
      BY <1>3
  <2>3. hand.left = S
      BY <2>1
  <2>4. hand' = [act |-> a, key |-> hand'.key, left |-> R] /\ R \in SUBSET Ids'
      BY <1>1, <2>1, <2>2, <2>3
  <2>5. \A t \in R : Youngest(t)' /\ (tasks[t].status # "gone")'
      BY <1>1, <2>1, <2>2, <2>3
  <2>6. a \in Control!Awaiting'
      BY DEF Control!Awaiting, Control!Decisions
  <2> QED BY <2>4, <2>5, <2>6 DEF HandOK
<1>4. CASE hand' = hand /\ hand # Control!Nobody
  <2>1. PICK a \in Control!Awaiting, S \in SUBSET Ids :
          /\ hand = [act |-> a, key |-> hand.key, left |-> S]
          /\ \A t \in S : Youngest(t) /\ tasks[t].status # "gone"
      BY <1>4 DEF HandOK
  <2>2. hand' = [act |-> a, key |-> hand'.key, left |-> S] /\ S \in SUBSET Ids'
      BY <1>1, <1>4, <2>1
  <2>3. \A t \in S : Youngest(t)' /\ (tasks[t].status # "gone")'
      BY <1>1, <2>1
  <2>4. a \in Control!Awaiting'
      BY DEF Control!Awaiting, Control!Decisions
  <2> QED BY <2>2, <2>3, <2>4 DEF HandOK
<1> QED BY <1>2, <1>3, <1>4 DEF HandKept

\* Namesakes stay apart when the older one stays passed.
LEMMA ApartKept ==
    ASSUME ControlTypes, Apart, Alike,
           \A t \in Ids : Passed(t) /\ ~ Youngest(t) => Passed(t)'
    PROVE  Apart'
<1>1. Ids' = Ids /\ \A t \in Ids : Youngest(t)' = Youngest(t)
    BY AlikeFacts
<1> QED BY <1>1 DEF Apart

\* Finished main tasks are finitely many.
LEMMA NewerFinite ==
    ControlTypes /\ OrderOK =>
      /\ MainEnded \in SUBSET Ids
      /\ \A t : IsFiniteSet(Newer(ended, MainEnded, t))
               /\ Cardinality(Newer(ended, MainEnded, t)) \in Nat
<1> SUFFICES ASSUME ControlTypes, OrderOK
             PROVE  /\ MainEnded \in SUBSET Ids
                    /\ \A t : IsFiniteSet(Newer(ended, MainEnded, t))
                             /\ Cardinality(Newer(ended, MainEnded, t)) \in Nat
    OBVIOUS
<1>1. MainEnded \in SUBSET Ids
    BY DEF MainEnded, OrderOK
<1>2. \A t : Newer(ended, MainEnded, t) \in SUBSET Ids
    BY <1>1 DEF Newer
<1>3. IsFiniteSet(Ids)
    BY IdsAre
<1> QED BY <1>1, <1>2, <1>3, FS_Subset, FS_CardinalityType

\* A task that has passed stays so while no task newer than it leaves.
LEMMA PassedKept ==
    ASSUME ControlTypes, OrderOK, ControlTypes', OrderOK', MaxTerminal \in Nat,
           NEW t, Passed(t), ~ Live(t)',
           (tasks[t].status = "ended")' =>
             /\ tasks[t].status = "ended"
             /\ t \in late => t \in late'
             /\ Newer(ended, MainEnded, t) \subseteq Newer(ended, MainEnded, t)'
    PROVE  Passed(t)'
<1> DEFINE old == Newer(ended, MainEnded, t)
           new == Newer(ended, MainEnded, t)'
<1>1. IsFiniteSet(old) /\ Cardinality(old) \in Nat
    BY NewerFinite
<1>2. IsFiniteSet(new) /\ Cardinality(new) \in Nat
  <2>1. Len(tasks') \in Nat /\ Ids' = 1..Len(tasks')
    <3> HIDE DEF TaskRecords
    <3> QED BY Items DEF ControlTypes, Ids
  <2>2. IsFiniteSet(Ids')
    <3>1. PICK n \in Nat : Ids' = 1..n
        BY <2>1
    <3>2. IsFiniteSet(1..n)
        BY FS_Interval
    <3> QED BY <3>1, <3>2
  <2>3. MainEnded' \in SUBSET Ids'
      BY DEF MainEnded, OrderOK
  <2>4. new \in SUBSET Ids'
      BY <2>3 DEF Newer
  <2> HIDE DEF new
  <2> QED BY <2>2, <2>4, FS_Subset, FS_CardinalityType
<1>3. CASE (tasks[t].status = "ended")' /\ t \notin late
  <2>1. old \in SUBSET new /\ Cardinality(old) >= MaxTerminal
      BY <1>3 DEF Passed
  <2> HIDE DEF old, new
  <2>2. Cardinality(old) <= Cardinality(new)
      BY <1>2, <2>1, FS_Subset
  <2>3. Cardinality(new) >= MaxTerminal
      BY <1>1, <1>2, <2>1, <2>2
  <2> QED BY <2>3 DEF Passed, new
<1>4. CASE (tasks[t].status = "ended")' /\ t \in late
    BY <1>4 DEF Passed
<1>5. CASE ~ (tasks[t].status = "ended")'
    BY <1>5 DEF Passed
<1> QED BY <1>3, <1>4, <1>5

\* The types, when the records are replaced by their like.
LEMMA TypesKept == ASSUME ControlTypes, Alike, ended' \in Seq(Nat) PROVE ControlTypes'
<1>1. Ids' = Ids
    BY AlikeFacts
<1> QED BY <1>1 DEF ControlTypes, Alike

\* A step that only starts a task, or takes or leaves a question.
LEMMA QuietOK == ASSUME ControlInv, MaxTerminal \in Nat, Quiet PROVE ControlInv'
<1>1. ControlTypes /\ Alike /\ AsLive
    BY DEF ControlInv, Quiet
<1>2. Ids' = Ids /\ \A t \in Ids : Main(t)' = Main(t)
    BY <1>1, AlikeFacts
<1>3. /\ \A t \in Ids : Live(t)' = Live(t)
      /\ \A t \in Ids : (tasks[t].status = "ended")' = (tasks[t].status = "ended")
      /\ \A t \in Ids : (tasks[t].status = "gone")' = (tasks[t].status = "gone")
      /\ \A t \in Ids : Asked(t)' = Asked(t)
    BY <1>1, AsLiveFacts
<1>4. ControlTypes'
  <2>1. ended' \in Seq(Nat)
      BY DEF ControlInv, ControlTypes, Quiet
  <2> QED BY <1>1, <2>1, TypesKept
<1>5. OrderOK'
  <2>1. ended' = ended /\ late' = late /\ over' = over
      BY DEF Quiet
  <2>2. OrderOK
      BY DEF ControlInv
  <2>3. \A t, u : Before(ended, t, u)' = Before(ended, t, u)
      BY <2>1 DEF Before
  <2>4. ToSet(ended)' = ToSet(ended)
      BY <2>1 DEF ToSet
  <2> QED BY <1>2, <1>3, <2>1, <2>2, <2>3, <2>4 DEF OrderOK
<1>6. Needed'
    BY <1>2, <1>3 DEF ControlInv, Needed, Quiet
<1>7. Apart'
  <2>1. MainEnded' = MainEnded
      BY <1>2, <1>5 DEF MainEnded, ControlInv, OrderOK, Quiet, ToSet
  <2>2. \A t \in Ids : Newer(ended, MainEnded, t)' = Newer(ended, MainEnded, t)
      BY <2>1 DEF Newer, Before, Quiet
  <2>3. \A t \in Ids : Passed(t) => Passed(t)'
      BY <1>3, <2>2 DEF Passed, Quiet
  <2> QED BY <1>1, <2>3, ApartKept DEF ControlInv
<1>8. HandOK'
    BY <1>1, <1>3, HandKeptOK DEF ControlInv, Quiet
<1> QED BY <1>4, <1>5, <1>6, <1>7, <1>8 DEF ControlInv

\* A delivery is made.
LEMMA ToldOK == ASSUME ControlInv, Told PROVE ControlInv'
<1>1. /\ Ids' = Ids /\ ToSet(ended)' = ToSet(ended) /\ MainEnded' = MainEnded
      /\ \A t : Live(t)' = Live(t) /\ Asked(t)' = Asked(t) /\ Youngest(t)' = Youngest(t)
      /\ \A t, u : Before(ended, t, u)' = Before(ended, t, u)
      /\ \A t : Passed(t)' = Passed(t)
    BY DEF Told, Ids, ToSet, MainEnded, Main, Live, Asked, Youngest, Namesakes, Before,
           Passed, Newer
<1>2. ControlTypes'
    BY <1>1 DEF ControlInv, ControlTypes, Told
<1>3. OrderOK'
    BY <1>1 DEF ControlInv, OrderOK, Told
<1>4. Needed'
    BY <1>1 DEF ControlInv, Needed, Told
<1>5. Apart'
    BY <1>1 DEF ControlInv, Apart
<1>6. HandOK'
    BY <1>1 DEF ControlInv, HandOK, Told, Control!Awaiting, Control!Decisions, Control!Nobody
<1> QED BY <1>2, <1>3, <1>4, <1>5, <1>6 DEF ControlInv

\* Time passes for the oldest of those still in the window, or in their TTL.
LEMMA AgesOK == ASSUME ControlInv, MaxTerminal \in Nat, NEW t, Ages(t) PROVE ControlInv'
<1>1. /\ Ids' = Ids /\ ToSet(ended)' = ToSet(ended) /\ MainEnded' = MainEnded
      /\ \A u : Live(u)' = Live(u) /\ Asked(u)' = Asked(u) /\ Youngest(u)' = Youngest(u)
      /\ \A u, v : Before(ended, u, v)' = Before(ended, u, v)
    BY DEF Ages, Ids, ToSet, MainEnded, Main, Live, Asked, Youngest, Namesakes, Before
<1>2. ControlTypes'
    BY <1>1 DEF ControlInv, ControlTypes, Ages
<1>3. OrderOK' /\ late \subseteq late'
  <2>1. OrderOK
      BY DEF ControlInv
  <2>2. CASE /\ \A u \in ToSet(ended) : Before(ended, u, t) => u \in late
             /\ late' = late \cup {t} /\ over' = over
    <3>1. ended \in Seq(Nat)
        BY DEF ControlInv, ControlTypes
    <3>2. \A u, v : Before(ended, u, v) => u \in ToSet(ended)
        BY <2>1, <3>1, OrderFacts DEF OrderOK
    <3>3. \A u, v : Before(ended, u, v) /\ v \in late' => u \in late'
        BY <2>1, <2>2, <3>2 DEF OrderOK
    <3> QED BY <1>1, <2>1, <2>2, <3>3 DEF OrderOK, Ages
  <2>3. CASE t \in late /\ late' = late /\ over' = over \cup {t}
      BY <1>1, <2>1, <2>3 DEF OrderOK, Ages
  <2> QED BY <2>2, <2>3 DEF Ages
<1>4. Needed'
    BY <1>1 DEF ControlInv, Needed, Ages
<1>5. Apart'
  <2>1. \A u : Newer(ended, MainEnded, u)' = Newer(ended, MainEnded, u)
      BY <1>1 DEF Newer
  <2>2. \A u : Passed(u) => Passed(u)'
      BY <1>1, <1>3, <2>1 DEF Passed, Ages
  <2> QED BY <1>1, <2>2 DEF ControlInv, Apart
<1>6. HandOK'
    BY <1>1 DEF ControlInv, HandOK, Ages, Control!Awaiting, Control!Decisions, Control!Nobody
<1> QED BY <1>2, <1>3, <1>4, <1>5, <1>6 DEF ControlInv

\* A finished task is saved again: it becomes the newest one and is seen again. The
\* call in hand names it, so no younger task bears its name.
LEMMA TouchesOK == ASSUME ControlInv, MaxTerminal \in Nat, NEW t, Touches(t) PROVE ControlInv'
<1>1. ControlTypes /\ Alike /\ AsLive /\ OrderOK
    BY DEF ControlInv, Touches
<1>2. t \in Ids /\ Youngest(t)
    BY DEF ControlInv, HandOK, Touches
<1>3. Ids' = Ids /\ \A u \in Ids : Main(u)' = Main(u)
    BY <1>1, AlikeFacts
<1>4. /\ \A u \in Ids : Live(u)' = Live(u)
      /\ \A u \in Ids : (tasks[u].status = "ended")' = (tasks[u].status = "ended")
      /\ \A u \in Ids : (tasks[u].status = "gone")' = (tasks[u].status = "gone")
      /\ \A u \in Ids : Asked(u)' = Asked(u)
    BY <1>1, AsLiveFacts
<1>5. CASE t \notin ToSet(ended)
  <2>1. t \notin late /\ t \notin over
      BY <1>1, <1>5 DEF OrderOK
  <2>2. Quiet
      BY <1>5, <2>1 DEF Touches, Quiet
  <2> QED BY <2>2, QuietOK
<1>6. CASE t \in ToSet(ended)
  <2> DEFINE s == Only(ended, Ids \ {t})
  <2>1. /\ ended \in Seq(Nat) /\ t \in Nat
        /\ ended' = Append(s, t) /\ late' = late \ {t} /\ over' = over \ {t}
        /\ undelivered' = undelivered
      BY <1>1, <1>2, <1>6, IdsAre DEF ControlTypes, Touches
  <2>2. /\ s \in Seq(Nat)
        /\ ToSet(s) = ToSet(ended) \cap (Ids \ {t})
        /\ \A x, y : Before(s, x, y) <=> Before(ended, x, y) /\ x \in Ids \ {t} /\ y \in Ids \ {t}
      BY <2>1, OnlyOK
  <2>3. /\ \A u : u \in ToSet(ended) => u \in Ids
        /\ \A u, v : Before(ended, u, v) => u \in ToSet(ended) /\ v \in ToSet(ended)
      BY <1>1, <2>1, OrderFacts DEF OrderOK
  <2> HIDE DEF s
  <2>4. /\ ended' \in Seq(Nat)
        /\ ToSet(ended') = ToSet(s) \cup {t}
        /\ \A x, y : Before(ended', x, y) <=> Before(s, x, y) \/ (x \in ToSet(s) /\ y = t)
    <3>1. PICK o \in Seq(Nat) : o = s
        BY <2>2
    <3>2. /\ Append(o, t) \in Seq(Nat)
          /\ ToSet(Append(o, t)) = ToSet(o) \cup {t}
          /\ \A x, y : Before(Append(o, t), x, y) <=>
                         Before(o, x, y) \/ (x \in ToSet(o) /\ y = t)
        BY <2>1, AppendOrder
    <3> QED BY <2>1, <3>1, <3>2
  <2>5. ToSet(ended)' = ToSet(ended)
    <3>1. ToSet(ended') = ToSet(ended)
        BY <1>6, <2>2, <2>3, <2>4
    <3> QED BY <3>1 DEF ToSet
  <2>6. \A x, y : Before(ended, x, y)' <=>
                    \/ Before(ended, x, y) /\ x # t /\ y # t
                    \/ x \in ToSet(ended) /\ x # t /\ y = t
    <3>1. \A x, y : Before(ended', x, y) <=>
                      \/ Before(ended, x, y) /\ x # t /\ y # t
                      \/ x \in ToSet(ended) /\ x # t /\ y = t
        BY <2>2, <2>3, <2>4
    <3> QED BY <3>1 DEF Before
  <2>7. ControlTypes'
      BY <1>1, <2>4, TypesKept
  <2>8. OrderOK'
    <3>1. \A u, v : Before(ended, u, v)' /\ v \in late' => u \in late'
        BY <1>1, <2>1, <2>6 DEF OrderOK
    <3>2. \A u : ~ Before(ended, u, u)'
        BY <1>1, <2>6 DEF OrderOK
    <3> QED BY <1>1, <1>3, <1>4, <2>1, <2>5, <3>1, <3>2 DEF OrderOK
  <2>9. Needed'
      BY <1>3, <1>4, <2>1 DEF ControlInv, Needed
  <2>10. MainEnded' = MainEnded
      BY <1>3, <2>3, <2>5 DEF MainEnded
  <2>11. \A u : u # t => Newer(ended, MainEnded, u) \subseteq Newer(ended, MainEnded, u)'
      BY <2>3, <2>6, <2>10 DEF Newer
  <2>12. ASSUME NEW u \in Ids, Passed(u), ~ Youngest(u) PROVE Passed(u)'
    <3>1. u # t
        BY <1>2, <2>12
    <3>2. Newer(ended, MainEnded, u) \subseteq Newer(ended, MainEnded, u)'
        BY <2>11, <3>1
    <3>3. /\ ~ Live(u)' /\ (tasks[u].status = "ended")' = (tasks[u].status = "ended")
          /\ u \in late => u \in late'
        BY <1>4, <2>1, <2>12, <3>1 DEF Passed
    <3> QED BY <1>1, <2>7, <2>8, <2>12, <3>2, <3>3, PassedKept
  <2>13. Apart'
      BY <1>1, <2>12, ApartKept DEF ControlInv
  <2>14. HandOK'
      BY <1>1, <1>4, HandKeptOK DEF ControlInv, Touches
  <2> QED BY <2>7, <2>8, <2>9, <2>13, <2>14 DEF ControlInv
<1> QED BY <1>5, <1>6

\* A task ends. It was live, so no younger task bears its name.
LEMMA EndsOK == ASSUME ControlInv, MaxTerminal \in Nat, NEW t, EndsAt(t) PROVE ControlInv'
<1>1. ControlTypes /\ Alike /\ OrderOK /\ t \in Ids /\ Live(t)
    BY DEF ControlInv, EndsAt
<1>2. Ids' = Ids /\ \A u \in Ids : Main(u)' = Main(u)
    BY <1>1, AlikeFacts
<1>3. /\ \A u \in Ids : Live(u)' => Live(u)
      /\ \A u \in Ids : (tasks[u].status = "ended")' <=> tasks[u].status = "ended" \/ u = t
      /\ \A u \in Ids : (tasks[u].status = "gone")' => tasks[u].status = "gone"
    BY <1>1 DEF EndsAt, Live
<1>4. \A u \in Ids : Asked(u)' => Asked(u)
    BY <1>1, <1>2, <1>3 DEF Asked, Alike
<1>5. ended \in Seq(Nat) /\ t \in Nat /\ ended' = Append(ended, t)
    BY <1>1, IdsAre DEF ControlTypes, EndsAt
<1>6. /\ \A u : u \in ToSet(ended) <=> u \in Ids /\ tasks[u].status = "ended"
      /\ t \notin ToSet(ended)
    BY <1>1 DEF OrderOK, Live
<1>7. /\ ended' \in Seq(Nat)
      /\ ToSet(ended)' = ToSet(ended) \cup {t}
      /\ \A x, y : Before(ended, x, y)' <=> Before(ended, x, y) \/ (x \in ToSet(ended) /\ y = t)
  <2>1. /\ Append(ended, t) \in Seq(Nat)
        /\ ToSet(Append(ended, t)) = ToSet(ended) \cup {t}
        /\ \A x, y : Before(Append(ended, t), x, y) <=>
                       Before(ended, x, y) \/ (x \in ToSet(ended) /\ y = t)
      BY <1>5, AppendOrder
  <2>2. ToSet(ended)' = ToSet(ended')
      BY DEF ToSet
  <2>3. \A x, y : Before(ended, x, y)' <=> Before(ended', x, y)
      BY DEF Before
  <2> QED BY <1>5, <2>1, <2>2, <2>3
<1>8. \A x, y : Before(ended, x, y) => x \in ToSet(ended) /\ y \in ToSet(ended)
    BY <1>1, <1>5, OrderFacts DEF OrderOK
<1>9. ControlTypes'
    BY <1>1, <1>7, TypesKept
<1>10. late' = late /\ over' = over
    BY DEF EndsAt
<1>11. OrderOK'
  <2>1. \A u, v : Before(ended, u, v)' /\ v \in late' => u \in late'
      BY <1>1, <1>6, <1>7, <1>10 DEF OrderOK
  <2>2. \A u : ~ Before(ended, u, u)'
      BY <1>1, <1>6, <1>7 DEF OrderOK
  <2>3. \A u : (u \in ToSet(ended))' <=> u \in Ids' /\ (tasks[u].status = "ended")'
      BY <1>1, <1>2, <1>3, <1>6, <1>7
  <2>4. late' \subseteq ToSet(ended)' /\ over' \subseteq late'
      BY <1>1, <1>7, <1>10 DEF OrderOK
  <2> QED BY <2>1, <2>2, <2>3, <2>4 DEF OrderOK
<1>12. Needed'
    BY <1>1, <1>2, <1>3, <1>4 DEF ControlInv, Needed, EndsAt
<1>13. \A u : Newer(ended, MainEnded, u) \subseteq Newer(ended, MainEnded, u)'
  <2>1. MainEnded \subseteq MainEnded'
      BY <1>2, <1>6, <1>7 DEF MainEnded
  <2> QED BY <1>7, <2>1 DEF Newer
<1>14. ASSUME NEW u \in Ids, Passed(u), ~ Youngest(u) PROVE Passed(u)'
  <2>1. u # t /\ ~ Live(u)'
      BY <1>1, <1>3, <1>14 DEF Passed
  <2>2. (tasks[u].status = "ended")' => tasks[u].status = "ended"
      BY <1>3, <2>1
  <2>3. Newer(ended, MainEnded, u) \subseteq Newer(ended, MainEnded, u)'
      BY <1>13
  <2> QED BY <1>1, <1>9, <1>10, <1>11, <1>14, <2>1, <2>2, <2>3, PassedKept
<1>15. Apart'
    BY <1>1, <1>14, ApartKept DEF ControlInv
<1>16. HandOK'
  <2>1. \A u \in Ids : tasks[u].status # "gone" => (tasks[u].status # "gone")'
      BY <1>3
  <2> QED BY <1>1, <2>1, HandKeptOK DEF ControlInv, EndsAt
<1> QED BY <1>9, <1>11, <1>12, <1>15, <1>16 DEF ControlInv

(* A call: some finished tasks go, for good reason; at most one task is    *)
(* new, and its name or its parent is chosen among what can be named.      *)
Idle == {t \in ToSet(ended) : t \notin undelivered /\ ~ Asked(t)}
KeptMain == {t \in Idle \ over : Main(t)}
Nameable(gone) == Active \cup Recent(Only(ended, Ids \ gone))

Goes(gone) ==
  /\ gone \subseteq Idle
  /\ \A g \in gone :
       Main(g) => g \in over \/ Cardinality(Newer(ended, KeptMain, g)) >= MaxTerminal
  /\ ended' = Only(ended, Ids \ gone)
  /\ late' = late \ gone /\ over' = over \ gone
  /\ undelivered' = undelivered

Comes(gone, r) ==
  /\ r.status = "queued" /\ r.q + r.p <= MaxAsks
  /\ r.kind = "main" => r.parent = 0 /\ \A t \in Nameable(gone) : tasks[t].name # r.name
  /\ r.kind = "side" => r.parent \in Nameable(gone)

Grows(gone) ==
  /\ tasks' \in Seq(TaskRecords) /\ Len(tasks') <= MaxTasks
  /\ Len(tasks') \in {Len(tasks), Len(tasks) + 1}
  /\ \A t \in Ids : tasks'[t] = IF t \in gone THEN [tasks[t] EXCEPT !.status = "gone"]
                                ELSE tasks[t]
  /\ \A t \in Ids' \ Ids : Comes(gone, tasks'[t])

Calls(gone) ==
  /\ Goes(gone) /\ Grows(gone)
  /\ \/ hand' = Control!Nobody
     \/ /\ Ids' = Ids
        /\ \E a \in Control!Awaiting, S \in SUBSET {t \in Ids : Live(t)} :
             hand' = [act |-> a, key |-> hand'.key, left |-> S]

\* What a call leaves as it was.
LEMMA CallsFacts ==
    ASSUME ControlTypes, OrderOK, NEW gone, Calls(gone)
    PROVE  /\ Ids' \in SUBSET Nat /\ Ids \subseteq Ids'
           /\ \A t \in Ids' \ Ids : \A u \in Ids' : u <= t
           /\ \A t \in Ids : /\ Main(t)' = Main(t) /\ Live(t)' = Live(t)
                             /\ tasks'[t].name = tasks[t].name
                             /\ tasks'[t].parent = tasks[t].parent
                             /\ tasks'[t].q + tasks'[t].p = tasks[t].q + tasks[t].p
                             /\ t \in gone => tasks[t].status = "ended"
                             /\ tasks'[t].status = IF t \in gone THEN "gone"
                                                   ELSE tasks[t].status
           /\ \A t \in gone : t \in Ids /\ t \notin undelivered /\ ~ Asked(t)
           /\ ended' \in Seq(Nat)
           /\ ToSet(ended)' = ToSet(ended) \ gone
           /\ \A t, u : Before(ended, t, u)' <=> Before(ended, t, u) /\ t \notin gone /\ u \notin gone
           /\ \A t, u : Before(ended, t, u) => t \in ToSet(ended) /\ u \in ToSet(ended)
<1>1. /\ Ids = 1..Len(tasks) /\ Len(tasks) \in Nat
      /\ \A t \in Ids : tasks[t] \in TaskRecords
    BY IdsAre
<1>2. Ids' = 1..Len(tasks') /\ Len(tasks') \in {Len(tasks), Len(tasks) + 1}
  <2> HIDE DEF TaskRecords
  <2> QED BY Items DEF Calls, Grows, Ids
<1>3. /\ Ids' \in SUBSET Nat /\ Ids \subseteq Ids'
      /\ \A t \in Ids' \ Ids : \A u \in Ids' : u <= t
  <2>1. PICK n \in Nat : n = Len(tasks)
      BY <1>1
  <2>2. CASE Len(tasks') = Len(tasks)
      BY <1>1, <1>2, <2>1, <2>2
  <2>3. CASE Len(tasks') = Len(tasks) + 1
    <3>1. Ids = 1..n /\ Ids' = 1..(n + 1)
        BY <1>1, <1>2, <2>1, <2>3
    <3> QED BY <2>1, <3>1
  <2> QED BY <1>2, <2>2, <2>3
<1>4. \A t \in gone : t \in Ids /\ t \notin undelivered /\ ~ Asked(t) /\ tasks[t].status = "ended"
    BY DEF Calls, Goes, Idle, OrderOK
<1>5. \A t \in Ids : tasks'[t] = IF t \in gone THEN [tasks[t] EXCEPT !.status = "gone"]
                                 ELSE tasks[t]
    BY DEF Calls, Grows
<1>6. ASSUME NEW t \in Ids
      PROVE  /\ tasks'[t].kind = tasks[t].kind
             /\ tasks'[t].name = tasks[t].name
             /\ tasks'[t].parent = tasks[t].parent
             /\ tasks'[t].q = tasks[t].q /\ tasks'[t].p = tasks[t].p
             /\ t \in gone => tasks[t].status = "ended"
             /\ tasks'[t].status = IF t \in gone THEN "gone" ELSE tasks[t].status
  <2>1. tasks[t] \in TaskRecords
      BY <1>1
  <2>2. CASE t \in gone
    <3>1. tasks'[t] = [tasks[t] EXCEPT !.status = "gone"]
        BY <1>5, <2>2
    <3> QED BY <1>4, <2>1, <2>2, <3>1 DEF TaskRecords
  <2>3. CASE t \notin gone
      BY <1>5, <2>3
  <2> QED BY <2>2, <2>3
<1>7. \A t \in Ids : Main(t)' = Main(t) /\ Live(t)' = Live(t)
    BY <1>6 DEF Main, Live
<1>8. ended \in Seq(Nat) /\ ended' = Only(ended, Ids \ gone)
    BY DEF ControlTypes, Calls, Goes
<1>9. /\ Only(ended, Ids \ gone) \in Seq(Nat)
      /\ ToSet(Only(ended, Ids \ gone)) = ToSet(ended) \cap (Ids \ gone)
      /\ \A t, u : Before(Only(ended, Ids \ gone), t, u) <=>
                     Before(ended, t, u) /\ t \in Ids \ gone /\ u \in Ids \ gone
    BY <1>8, OnlyOK
<1>10. /\ \A t, u : Before(ended, t, u) => t \in ToSet(ended) /\ u \in ToSet(ended)
       /\ \A t \in ToSet(ended) : t \in Ids
    BY <1>8, OrderFacts DEF OrderOK
<1>11. ToSet(ended)' = ToSet(ended) \ gone
  <2>1. ToSet(ended') = ToSet(ended) \ gone
      BY <1>8, <1>9, <1>10
  <2> QED BY <2>1 DEF ToSet
<1>12. \A t, u : Before(ended, t, u)' <=> Before(ended, t, u) /\ t \notin gone /\ u \notin gone
  <2>1. \A t, u : Before(ended', t, u) <=> Before(ended, t, u) /\ t \notin gone /\ u \notin gone
      BY <1>8, <1>9, <1>10
  <2> QED BY <2>1 DEF Before
<1>13. ended' \in Seq(Nat)
    BY <1>8, <1>9
<1>14. \A t \in Ids : tasks'[t].q + tasks'[t].p = tasks[t].q + tasks[t].p
    BY <1>6
<1> QED BY <1>3, <1>4, <1>6, <1>7, <1>10, <1>11, <1>12, <1>13, <1>14

\* Pruning leaves enough tasks newer than one that is not late: the last it
\* takes of them leaves as many behind.
LEMMA PruneKeeps ==
    ASSUME ControlTypes, OrderOK, NEW gone, Calls(gone), MaxTerminal \in Nat,
           NEW t \in Ids, t \notin gone, t \notin late,
           Cardinality(Newer(ended, MainEnded, t)) >= MaxTerminal
    PROVE  Cardinality(Newer(ended, MainEnded, t)') >= MaxTerminal
<1> DEFINE old == Newer(ended, MainEnded, t)
           new == Newer(ended, MainEnded, t)'
           R == {g \in old : g \in gone}
<1>1. /\ \A u \in Ids : Main(u)' = Main(u)
      /\ ToSet(ended)' = ToSet(ended) \ gone
      /\ \A u, v : Before(ended, u, v)' <=> Before(ended, u, v) /\ u \notin gone /\ v \notin gone
      /\ \A u, v : Before(ended, u, v) => u \in ToSet(ended) /\ v \in ToSet(ended)
      /\ ended \in Seq(Nat)
    BY CallsFacts DEF ControlTypes
<1>2. \A u \in ToSet(ended) : u \in Ids
    BY DEF OrderOK
<1>3. \A u : u \in new <=> u \in old /\ u \notin gone
    BY <1>1, <1>2 DEF Newer, MainEnded
<1>4. IsFiniteSet(new) /\ Cardinality(new) \in Nat
  <2>1. IsFiniteSet(old)
      BY NewerFinite
  <2>2. new \in SUBSET old
      BY <1>3
  <2> HIDE DEF old, new
  <2> QED BY <2>1, <2>2, FS_Subset, FS_CardinalityType
<1>5. CASE R = {}
  <2>1. new = old
      BY <1>3, <1>5
  <2> QED BY <2>1
<1>6. CASE R # {}
  <2>1. R \in SUBSET ToSet(ended) /\ \A u : ~ Before(ended, u, u)
      BY <1>1 DEF OrderOK, Newer, MainEnded
  <2>2. PICK g \in R : \A u \in R : ~ Before(ended, g, u)
    <3> HIDE DEF R
    <3> QED BY <1>1, <1>6, <2>1, LastOf
  <2>3. g \in gone /\ Main(g) /\ Before(ended, t, g) /\ g \in ToSet(ended)
      BY DEF Newer, MainEnded
  <2>4. g \notin over
      BY <2>3 DEF OrderOK
  <2>5. Cardinality(Newer(ended, KeptMain, g)) >= MaxTerminal
      BY <2>3, <2>4 DEF Calls, Goes
  <2>6. ASSUME NEW u \in Newer(ended, KeptMain, g) PROVE u \in new
    <3>1. u \in ToSet(ended) /\ Main(u) /\ Before(ended, g, u)
        BY DEF Newer, KeptMain, Idle
    <3>2. Before(ended, t, u)
        BY <1>1, <2>1, <2>3, <3>1, OrderFacts
    <3>3. u \in old
        BY <3>1, <3>2 DEF Newer, MainEnded
    <3>4. u \notin gone
        BY <2>2, <3>1, <3>3
    <3> QED BY <1>3, <3>3, <3>4
  <2>7. Newer(ended, KeptMain, g) \in SUBSET new
      BY <2>6
  <2> HIDE DEF new
  <2>8. /\ IsFiniteSet(Newer(ended, KeptMain, g))
        /\ Cardinality(Newer(ended, KeptMain, g)) <= Cardinality(new)
      BY <1>4, <2>7, FS_Subset
  <2>9. Cardinality(Newer(ended, KeptMain, g)) \in Nat
      BY <2>8, FS_CardinalityType
  <2> QED BY <1>4, <2>5, <2>8, <2>9 DEF new
<1> QED BY <1>5, <1>6

\* A finished main task that could not be named has passed, and so it has
\* when the call is over.
LEMMA UnnamedPassed ==
    ASSUME ControlTypes, OrderOK, ControlTypes', OrderOK', NEW gone, Calls(gone),
           MaxTerminal \in Nat,
           NEW t \in Ids, Main(t), t \notin Nameable(gone)
    PROVE  Passed(t)'
<1>1. /\ Main(t)' = Main(t) /\ Live(t)' = Live(t)
      /\ tasks'[t].status = IF t \in gone THEN "gone" ELSE tasks[t].status
      /\ ToSet(ended)' = ToSet(ended) \ gone
      /\ \A u, v : Before(ended, u, v)' <=> Before(ended, u, v) /\ u \notin gone /\ v \notin gone
    BY CallsFacts
<1>2. ~ Live(t)'
    BY <1>1 DEF Nameable, Active
<1>3. CASE tasks'[t].status = "ended" /\ t \notin late'
  <2> DEFINE kept == Only(ended, Ids \ gone)
             shown == {u \in ToSet(kept) : Main(u) /\ (u \notin late \/ Asked(u))}
             new == Newer(ended, MainEnded, t)'
  <2>1. kept = ended' /\ late' = late \ gone
      BY DEF Calls, Goes
  <2>2. ToSet(kept) = ToSet(ended) \ gone /\ t \in ToSet(kept)
    <3>1. ToSet(kept) = ToSet(ended)'
        BY <2>1 DEF ToSet
    <3>2. t \in ToSet(ended) \ gone
        BY <1>1, <1>3 DEF OrderOK
    <3> QED BY <1>1, <3>1, <3>2
  <2>3. t \in shown
      BY <1>3, <2>1, <2>2
  <2>4. Recent(kept) = {u \in shown : Cardinality(Newer(kept, shown, u)) < MaxTerminal}
      BY DEF Recent
  <2>5. \A u \in Newer(kept, shown, t) : u \in new
    <3>1. \A u \in shown : u \in ToSet(ended) /\ u \notin gone /\ Main(u)
        BY <2>2
    <3>2. \A u \in shown : u \in Ids
        BY <3>1 DEF OrderOK
    <3>3. \A u \in shown : Main(u)'
        BY <3>1, <3>2, CallsFacts
    <3>4. \A u \in shown : u \in MainEnded'
        BY <1>1, <3>1, <3>3 DEF MainEnded
    <3> HIDE DEF shown
    <3>5. \A u : Before(kept, t, u) <=> Before(ended, t, u)'
        BY <2>1 DEF Before
    <3> QED BY <3>4, <3>5 DEF Newer
  <2>6. IsFiniteSet(new) /\ Cardinality(new) \in Nat
    <3>1. Len(tasks') \in Nat /\ Ids' = 1..Len(tasks')
      <4> HIDE DEF TaskRecords
      <4> QED BY Items DEF ControlTypes, Ids
    <3>2. IsFiniteSet(Ids')
      <4>1. PICK n \in Nat : Ids' = 1..n
          BY <3>1
      <4>2. IsFiniteSet(1..n)
          BY FS_Interval
      <4> QED BY <4>1, <4>2
    <3>3. new \in SUBSET Ids'
        BY DEF Newer, MainEnded, OrderOK
    <3> HIDE DEF new
    <3> QED BY <3>2, <3>3, FS_Subset, FS_CardinalityType
  <2> HIDE DEF kept, shown, new
  <2>7. Newer(kept, shown, t) \in SUBSET new
      BY <2>5
  <2>8. /\ IsFiniteSet(Newer(kept, shown, t))
        /\ Cardinality(Newer(kept, shown, t)) <= Cardinality(new)
      BY <2>6, <2>7, FS_Subset
  <2>9. Cardinality(Newer(kept, shown, t)) \in Nat
      BY <2>8, FS_CardinalityType
  <2>10. ~ (Cardinality(Newer(kept, shown, t)) < MaxTerminal)
      BY <2>3, <2>4 DEF Nameable, kept
  <2>11. Cardinality(new) >= MaxTerminal
      BY <2>6, <2>8, <2>9, <2>10
  <2> QED BY <1>2, <2>11 DEF Passed, new
<1>4. CASE tasks'[t].status = "ended" /\ t \in late'
    BY <1>2, <1>4 DEF Passed
<1>5. CASE tasks'[t].status # "ended"
    BY <1>2, <1>5 DEF Passed
<1> QED BY <1>3, <1>4, <1>5

\* A call prunes, and creates a task with a name nobody in view bears.
LEMMA CallsOK ==
    ASSUME ControlInv, MaxTerminal \in Nat, NEW gone, Calls(gone) PROVE ControlInv'
<1>1. ControlTypes /\ OrderOK /\ Goes(gone) /\ Grows(gone)
    BY DEF ControlInv, Calls
<1>2. /\ Ids' \in SUBSET Nat /\ Ids \subseteq Ids'
      /\ \A t \in Ids' \ Ids : \A u \in Ids' : u <= t
      /\ \A t \in Ids : /\ Main(t)' = Main(t) /\ Live(t)' = Live(t)
                        /\ tasks'[t].name = tasks[t].name
                        /\ tasks'[t].parent = tasks[t].parent
                        /\ tasks'[t].q + tasks'[t].p = tasks[t].q + tasks[t].p
                        /\ t \in gone => tasks[t].status = "ended"
                        /\ tasks'[t].status = IF t \in gone THEN "gone" ELSE tasks[t].status
      /\ \A t \in gone : t \in Ids /\ t \notin undelivered /\ ~ Asked(t)
      /\ ended' \in Seq(Nat)
      /\ ToSet(ended)' = ToSet(ended) \ gone
      /\ \A t, u : Before(ended, t, u)' <=> Before(ended, t, u) /\ t \notin gone /\ u \notin gone
    BY <1>1, CallsFacts DEF ControlInv
<1>3. \A t \in Ids' \ Ids : Comes(gone, tasks'[t])
    BY <1>1 DEF Grows
<1>4. ControlTypes'
  <2>1. \A t \in Ids' : tasks'[t].q + tasks'[t].p <= MaxAsks
      BY <1>1, <1>2, <1>3 DEF ControlTypes, Comes
  <2> QED BY <1>1, <1>2, <2>1 DEF ControlTypes, Grows
<1>5. late' = late \ gone /\ over' = over \ gone /\ undelivered' = undelivered
    BY <1>1 DEF Goes
<1>6. OrderOK'
  <2>1. \A t : (t \in ToSet(ended))' <=> t \in Ids' /\ (tasks[t].status = "ended")'
    <3>1. \A t \in Ids' \ Ids : tasks'[t].status = "queued"
        BY <1>3 DEF Comes
    <3>2. \A t : t \in ToSet(ended) <=> t \in Ids /\ tasks[t].status = "ended"
        BY <1>1 DEF OrderOK
    <3> QED BY <1>2, <3>1, <3>2
  <2>2. \A t : ~ Before(ended, t, t)'
      BY <1>1, <1>2 DEF OrderOK
  <2>3. late' \subseteq ToSet(ended)' /\ over' \subseteq late'
      BY <1>1, <1>2, <1>5 DEF OrderOK
  <2>4. \A t, u : Before(ended, t, u)' /\ u \in late' => t \in late'
      BY <1>1, <1>2, <1>5 DEF OrderOK
  <2> QED BY <2>1, <2>2, <2>3, <2>4 DEF OrderOK
<1>7. Needed'
  <2>1. \A t \in undelivered' : t \in Ids' /\ tasks'[t].status = "ended"
      BY <1>2, <1>5 DEF ControlInv, Needed
  <2>2. ASSUME NEW t \in Ids', Asked(t)' PROVE tasks'[t].status # "gone"
    <3>1. PICK c \in Ids' : tasks'[c].parent = t /\ Live(c)'
        BY <2>2 DEF Asked
    <3>2. CASE t \notin Ids
        BY <1>3, <3>2 DEF Comes
    <3>3. CASE t \in Ids /\ c \in Ids
      <4>1. Asked(t)
          BY <1>2, <3>1, <3>3 DEF Asked
      <4>2. tasks[t].status # "gone" /\ t \notin gone
          BY <1>2, <3>3, <4>1 DEF ControlInv, Needed
      <4> QED BY <1>2, <3>3, <4>2
    <3>4. CASE t \in Ids /\ c \notin Ids
      <4>1. Comes(gone, tasks'[c]) /\ tasks'[c] \in TaskRecords
        <5>1. c \in 1..Len(tasks') /\ tasks' \in Seq(TaskRecords)
          <6> HIDE DEF TaskRecords
          <6> QED BY <1>1, Items DEF Ids, Grows
        <5> HIDE DEF TaskRecords
        <5> QED BY <1>3, <3>4, <5>1, Items
      <4>2. t # 0
          BY <1>1, <3>4, IdsAre
      <4>3. t \in Nameable(gone)
          BY <3>1, <4>1, <4>2 DEF Comes, TaskRecords
      <4>4. CASE t \in Active
          BY <1>2, <3>4, <4>4 DEF Active, Live
      <4>5. CASE t \in Recent(Only(ended, Ids \ gone))
        <5>1. t \in ToSet(Only(ended, Ids \ gone))
            BY <4>5 DEF Recent
        <5>2. ended' = Only(ended, Ids \ gone)
            BY <1>1 DEF Goes
        <5>3. t \in ToSet(ended)'
            BY <5>1, <5>2 DEF ToSet
        <5> QED BY <1>6, <5>3 DEF OrderOK
      <4> QED BY <4>3, <4>4, <4>5 DEF Nameable
    <3> QED BY <3>2, <3>3, <3>4
  <2> QED BY <2>1, <2>2 DEF Needed
<1>8. Apart'
  <2>1. ASSUME NEW t \in Ids', ~ Youngest(t)' PROVE Passed(t)'
    <3>1. PICK u \in Ids' : Namesakes(t, u)'
        BY <2>1 DEF Youngest
    <3>2. t < u /\ t \in Nat /\ u \in Nat
        BY <1>2, <3>1 DEF Namesakes
    <3>3. t \in Ids
        BY <1>2, <3>2
    <3>4. CASE u \in Ids
      <4>1. Namesakes(t, u)
          BY <1>2, <3>1, <3>3, <3>4 DEF Namesakes
      <4>2. Passed(t)
          BY <3>3, <3>4, <4>1 DEF ControlInv, Apart, Youngest
      <4>3. ~ Live(t)'
          BY <1>2, <3>3, <4>2 DEF Passed
      <4>4. CASE tasks'[t].status = "ended" /\ t \notin late'
        <5>1. t \notin gone /\ tasks[t].status = "ended" /\ t \notin late
            BY <1>2, <1>5, <3>3, <4>4
        <5>2. Cardinality(Newer(ended, MainEnded, t)) >= MaxTerminal
            BY <4>2, <5>1 DEF Passed
        <5>3. Cardinality(Newer(ended, MainEnded, t)') >= MaxTerminal
            BY <1>1, <3>3, <5>1, <5>2, PruneKeeps
        <5> QED BY <4>3, <5>3 DEF Passed
      <4>5. CASE tasks'[t].status = "ended" /\ t \in late'
          BY <4>3, <4>5 DEF Passed
      <4>6. CASE tasks'[t].status # "ended"
          BY <4>3, <4>6 DEF Passed
      <4> QED BY <4>4, <4>5, <4>6
    <3>5. CASE u \notin Ids
      <4>1. Comes(gone, tasks'[u]) /\ tasks'[u].kind = "main"
          BY <1>3, <3>1, <3>5 DEF Namesakes, Main
      <4>2. tasks[t].name = tasks'[u].name /\ Main(t)
          BY <1>2, <3>1, <3>3 DEF Namesakes
      <4>3. t \notin Nameable(gone)
          BY <4>1, <4>2 DEF Comes
      <4> QED BY <1>1, <1>4, <1>6, <3>3, <4>2, <4>3, UnnamedPassed
    <3> QED BY <3>4, <3>5
  <2> QED BY <2>1 DEF Apart
<1>9. HandOK'
  <2>1. CASE hand' = Control!Nobody
      BY <2>1 DEF HandOK, Control!Nobody
  <2>2. CASE /\ Ids' = Ids
             /\ \E a \in Control!Awaiting, S \in SUBSET {t \in Ids : Live(t)} :
                  hand' = [act |-> a, key |-> hand'.key, left |-> S]
    <3>1. PICK a \in Control!Awaiting, S \in SUBSET {t \in Ids : Live(t)} :
            hand' = [act |-> a, key |-> hand'.key, left |-> S]
        BY <2>2
    <3>2. a \in Control!Awaiting' /\ S \in SUBSET Ids'
        BY <2>2, <3>1 DEF Control!Awaiting, Control!Decisions
    <3>3. \A t \in S : Youngest(t)' /\ (tasks[t].status # "gone")'
      <4> SUFFICES ASSUME NEW t \in S PROVE Youngest(t)' /\ (tasks[t].status # "gone")'
          OBVIOUS
      <4>1. t \in Ids /\ Live(t) /\ Live(t)'
          BY <1>2, <3>1
      <4>2. ~ Passed(t)' /\ (tasks[t].status # "gone")'
          BY <4>1 DEF Passed, Live
      <4> QED BY <1>8, <2>2, <4>1, <4>2 DEF Apart
    <3> QED BY <3>1, <3>2, <3>3 DEF HandOK
  <2> QED BY <2>1, <2>2 DEF Calls
<1> QED BY <1>4, <1>6, <1>7, <1>8, <1>9 DEF ControlInv

\* No record changes.
LEMMA SameTasks == ASSUME ControlTypes, tasks' = tasks PROVE Alike /\ AsLive
BY DEF ControlTypes, Alike, AsLive

\* One record is replaced by one that keeps its name, its kind and its parent.
LEMMA Replaced ==
    ASSUME ControlTypes, NEW t \in Ids, NEW r \in TaskRecords,
           tasks' = [tasks EXCEPT ![t] = r],
           r.kind = tasks[t].kind, r.name = tasks[t].name, r.parent = tasks[t].parent,
           r.q + r.p <= MaxAsks
    PROVE  Alike /\ \A u \in Ids : tasks'[u] = IF u = t THEN r ELSE tasks[u]
<1>1. Ids = 1..Len(tasks) /\ tasks \in Seq(TaskRecords)
    BY IdsAre DEF ControlTypes
<1>2. /\ tasks' \in Seq(TaskRecords) /\ Len(tasks') = Len(tasks)
      /\ \A u \in Ids : tasks'[u] = IF u = t THEN r ELSE tasks[u]
  <2> HIDE DEF TaskRecords
  <2> QED BY <1>1, ExceptSeq
<1>3. \A u \in Ids : tasks[u].q + tasks[u].p <= MaxAsks
    BY DEF ControlTypes
<1> QED BY <1>2, <1>3 DEF Alike

\* A worker takes its task.
LEMMA StartQuiet ==
    ASSUME ControlTypes, NEW t \in Ids, Control!Start(t) PROVE Quiet
<1> DEFINE r == [tasks[t] EXCEPT !.status = "running"]
<1>1. tasks[t] \in TaskRecords
    BY IdsAre
<1>2. r \in TaskRecords
    BY <1>1 DEF TaskRecords, Statuses
<1>3. /\ tasks[t].status = "queued" /\ tasks' = [tasks EXCEPT ![t] = r]
      /\ UNCHANGED << ended, late, over, undelivered, hand >>
    BY DEF Control!Start
<1>4. /\ r.kind = tasks[t].kind /\ r.name = tasks[t].name /\ r.parent = tasks[t].parent
      /\ r.q + r.p <= MaxAsks /\ r.status = "running"
    BY <1>1 DEF TaskRecords, ControlTypes
<1> HIDE DEF r
<1>5. Alike /\ \A u \in Ids : tasks'[u] = IF u = t THEN r ELSE tasks[u]
    BY <1>2, <1>3, <1>4, Replaced
<1>6. AsLive
    BY <1>3, <1>4, <1>5 DEF AsLive
<1> QED BY <1>3, <1>5, <1>6 DEF Quiet, HandKept

\* A worker asks the user.
LEMMA AskQuiet ==
    ASSUME ControlTypes, NEW t \in Ids, NEW k \in {"q", "p"}, Control!Ask(t, k),
           MaxAsks \in Nat
    PROVE  Quiet
<1> DEFINE r == [tasks[t] EXCEPT ![k] = @ + 1]
<1>1. tasks[t] \in TaskRecords
    BY IdsAre
<1>2. r \in TaskRecords
    BY <1>1 DEF TaskRecords
<1>3. /\ tasks[t].q + tasks[t].p < MaxAsks /\ tasks' = [tasks EXCEPT ![t] = r]
      /\ UNCHANGED << ended, late, over, undelivered, hand >>
    BY DEF Control!Ask
<1>4. /\ r.kind = tasks[t].kind /\ r.name = tasks[t].name /\ r.parent = tasks[t].parent
      /\ r.status = tasks[t].status
      /\ r.q + r.p <= MaxAsks
    BY <1>1, <1>3 DEF TaskRecords
<1> HIDE DEF r
<1>5. Alike /\ \A u \in Ids : tasks'[u] = IF u = t THEN r ELSE tasks[u]
    BY <1>2, <1>3, <1>4, Replaced
<1>6. AsLive
    BY <1>3, <1>4, <1>5 DEF AsLive
<1> QED BY <1>3, <1>5, <1>6 DEF Quiet, HandKept

\* A task ends, by its worker or by a cancel.
LEMMA EndsForm ==
    ASSUME ControlTypes, NEW t \in Ids, Live(t), Control!Ends(t), HandKept, MaxAsks \in Nat
    PROVE  EndsAt(t)
<1> DEFINE r == [tasks[t] EXCEPT !.status = "ended", !.q = 0, !.p = 0]
<1>1. tasks[t] \in TaskRecords
    BY IdsAre
<1>2. r \in TaskRecords
    BY <1>1 DEF TaskRecords, Statuses
<1>3. /\ tasks' = [tasks EXCEPT ![t] = r]
      /\ ended' = Append(ended, t) /\ undelivered' = undelivered \cup {t}
      /\ UNCHANGED << late, over >>
    BY DEF Control!Ends, Control!Closed
<1>4. /\ r.kind = tasks[t].kind /\ r.name = tasks[t].name /\ r.parent = tasks[t].parent
      /\ r.status = "ended"
      /\ r.q + r.p <= MaxAsks
    BY <1>1 DEF TaskRecords
<1> HIDE DEF r
<1>5. Alike /\ \A u \in Ids : tasks'[u] = IF u = t THEN r ELSE tasks[u]
    BY <1>2, <1>3, <1>4, Replaced
<1> QED BY <1>3, <1>4, <1>5 DEF EndsAt

\* Time passes.
LEMMA AgeForm == ASSUME Control!Age PROVE \E t : Ages(t)
<1>1. /\ \/ /\ \E t \in Control!Oldest(late) : late' = late \cup {t}
            /\ over' = over
         \/ /\ \E t \in Control!Oldest(over) \cap late : over' = over \cup {t}
            /\ late' = late
      /\ UNCHANGED << tasks, ended, undelivered, hand >>
    BY DEF Control!Age
<1>2. \A S : Control!Oldest(S) =
               {t \in ToSet(ended) \ S : \A u \in ToSet(ended) : Before(ended, u, t) => u \in S}
    BY SameTerms DEF Control!Oldest
<1> QED BY <1>1, <1>2 DEF Ages

\* The call in hand goes on.
LEMMA ProceedForm ==
    ASSUME ControlInv, Control!Proceed, MaxAsks \in Nat
    PROVE  Quiet \/ (\E t : Touches(t)) \/ (\E t : EndsAt(t))
<1>1. ControlTypes /\ hand # Control!Nobody
    BY DEF ControlInv, Control!Proceed
<1>2. PICK t \in hand.left : Control!Send(t) \/ Control!Cancel(t) \/ Control!Answer(t)
    BY DEF Control!Proceed
<1>3. t \in Ids
    BY <1>1, <1>2 DEF ControlInv, HandOK
<1>4. Control!Touched(t) =>
        /\ ended' = IF t \in ToSet(ended) THEN Append(Only(ended, Ids \ {t}), t) ELSE ended
        /\ late' = late \ {t} /\ over' = over \ {t}
    BY SameTerms DEF Control!Touched
<1>5. CASE Control!Send(t)
  <2>1. tasks' = tasks /\ undelivered' = undelivered /\ hand' = Control!Nobody
      BY <1>5 DEF Control!Send, Control!Receipt, Control!Raises
  <2>2. Alike /\ AsLive
      BY <1>1, <2>1, SameTasks
  <2> QED BY <1>1, <1>2, <1>4, <1>5, <2>1, <2>2 DEF Control!Send, Touches, HandKept
<1>6. CASE Control!Cancel(t)
  <2>1. HandKept
    <3>1. hand' = Control!Nobody \/ hand' = [hand EXCEPT !.left = hand.left \ {t}]
        BY <1>6 DEF Control!Cancel, Control!Receipt, Control!Raises
    <3>2. hand.left \ {t} \in SUBSET hand.left
        OBVIOUS
    <3> QED BY <1>1, <3>1, <3>2 DEF HandKept
  <2>2. \/ UNCHANGED << tasks, ended, late, over, undelivered >>
        \/ Live(t) /\ Control!Ends(t)
      BY <1>6, SameTerms DEF Control!Cancel
  <2>3. CASE UNCHANGED << tasks, ended, late, over, undelivered >>
      BY <1>1, <2>1, <2>3, SameTasks DEF Quiet
  <2>4. CASE Live(t) /\ Control!Ends(t)
      BY <1>1, <1>3, <2>1, <2>4, EndsForm
  <2> QED BY <2>2, <2>3, <2>4
<1>7. CASE Control!Answer(t)
  <2>1. undelivered' = undelivered /\ hand' = Control!Nobody /\ Control!Touched(t)
      BY <1>7 DEF Control!Answer, Control!Receipt
  <2>2. PICK k \in {"q", "p"} :
          \/ tasks[t][k] > 0 /\ tasks' = [tasks EXCEPT ![t][k] = @ - 1]
          \/ tasks' = tasks
      BY <1>7 DEF Control!Answer
  <2>3. Alike /\ AsLive
    <3>1. CASE tasks' = tasks
        BY <1>1, <3>1, SameTasks
    <3>2. CASE tasks[t][k] > 0 /\ tasks' = [tasks EXCEPT ![t][k] = @ - 1]
      <4> DEFINE r == [tasks[t] EXCEPT ![k] = @ - 1]
      <4>1. tasks[t] \in TaskRecords /\ tasks[t].q + tasks[t].p <= MaxAsks
          BY <1>1, <1>3, IdsAre DEF ControlTypes
      <4>2. r \in TaskRecords
          BY <3>2, <4>1 DEF TaskRecords
      <4>3. tasks' = [tasks EXCEPT ![t] = r]
          BY <3>2
      <4>4. /\ r.kind = tasks[t].kind /\ r.name = tasks[t].name
            /\ r.parent = tasks[t].parent /\ r.status = tasks[t].status
            /\ r.q + r.p <= MaxAsks
          BY <4>1 DEF TaskRecords
      <4> HIDE DEF r
      <4>5. Alike /\ \A u \in Ids : tasks'[u] = IF u = t THEN r ELSE tasks[u]
          BY <1>1, <1>3, <4>2, <4>3, <4>4, Replaced
      <4>6. AsLive
          BY <4>4, <4>5 DEF AsLive
      <4> QED BY <4>5, <4>6
    <3> QED BY <2>2, <3>1, <3>2
  <2> QED BY <1>1, <1>2, <1>4, <2>1, <2>3 DEF Touches, HandKept
<1> QED BY <1>2, <1>5, <1>6, <1>7

(* What a call decides. *)

\* A name is made new with a number that nobody in view bears: there are more
\* numbers than tasks.
LEMMA NamedNew ==
    ASSUME ControlTypes, MaxTasks \in Nat, NEW kept, NEW name \in NameSeqs,
           Active \cup Recent(kept) \subseteq Ids
    PROVE  /\ Control!Named(kept, name) \in NameSeqs
           /\ \A t \in Active \cup Recent(kept) : tasks[t].name # Control!Named(kept, name)
<1> DEFINE seen == Active \cup Recent(kept)
           taken == {tasks[t].name : t \in seen}
           numbers == 2..(MaxTasks + 2)
           free == {k \in numbers : Append(name, k) \notin taken}
           n == CHOOSE k \in free : \A l \in free : k <= l
<1>1. Control!Named(kept, name) = IF name \notin taken THEN name ELSE Append(name, n)
  <2> DEFINE raw == Control!Names(Control!Active \cup Control!Recent(kept))
             open == {k \in numbers : Append(name, k) \notin raw}
  <2>1. Control!Named(kept, name) =
          IF name \notin raw THEN name
          ELSE Append(name, CHOOSE k \in open : \A l \in open : k <= l)
      BY DEF Control!Named
  <2>2. raw = taken
      BY SameTerms DEF Control!Names
  <2>3. open = free
      BY <2>2
  <2> HIDE DEF raw, open, taken, free
  <2> QED BY <2>1, <2>2, <2>3
<1>2. free # {}
  <2> SUFFICES ASSUME free = {} PROVE FALSE
      OBVIOUS
  <2> DEFINE f == [k \in numbers |-> CHOOSE t \in seen : tasks[t].name = Append(name, k)]
  <2>1. \A k \in numbers : \E t \in seen : tasks[t].name = Append(name, k)
      OBVIOUS
  <2>2. \A k \in numbers : f[k] \in seen /\ tasks[f[k]].name = Append(name, k)
      BY <2>1
  <2>3. /\ IsFiniteSet(numbers) /\ Cardinality(numbers) = MaxTasks + 1
    <3>1. 2 \in Int /\ MaxTasks + 2 \in Int /\ 2 <= MaxTasks + 2 /\ MaxTasks + 2 - 2 + 1 = MaxTasks + 1
        OBVIOUS
    <3> QED BY <3>1, FS_Interval
  <2>4. IsFiniteSet(Ids) /\ Cardinality(Ids) <= MaxTasks /\ Cardinality(Ids) \in Nat
    <3>1. PICK m \in Nat : Ids = 1..m /\ m <= MaxTasks
        BY IdsAre DEF ControlTypes
    <3>2. IsFiniteSet(1..m) /\ Cardinality(1..m) = m
        BY FS_Interval
    <3> QED BY <3>1, <3>2
  <2>5. f \in [numbers -> Ids]
      BY <2>2
  <2> HIDE DEF f, numbers
  <2>6. Cardinality(Ids) < Cardinality(numbers)
      BY <2>3, <2>4
  <2>7. PICK k, l \in numbers : k # l /\ f[k] = f[l]
      BY <2>3, <2>4, <2>5, <2>6, FS_PigeonHole
  <2>8. Append(name, k) = Append(name, l)
      BY <2>2, <2>7
  <2>9. k \in Stems \cup Nat /\ l \in Stems \cup Nat
      BY DEF numbers
  <2>10. /\ Append(name, k)[Len(name) + 1] = k /\ Append(name, l)[Len(name) + 1] = l
      BY <2>9, AppendProperties DEF NameSeqs
  <2> QED BY <2>7, <2>8, <2>10
<1>3. n \in free
  <2>1. free \in SUBSET Nat
      OBVIOUS
  <2> HIDE DEF free
  <2>2. \E k \in free : \A l \in free : k <= l
      BY <1>2, <2>1, First
  <2> QED BY <2>2
<1> HIDE DEF n
<1>4. n \in Nat /\ Append(name, n) \notin taken
    BY <1>3
<1> HIDE DEF taken
<1>5. Append(name, n) \in NameSeqs
    BY <1>4, AppendProperties DEF NameSeqs, NoName
<1>6. Control!Named(kept, name) \notin taken
    BY <1>1, <1>4
<1>7. Control!Named(kept, name) \in NameSeqs
    BY <1>1, <1>5
<1> QED BY <1>6, <1>7 DEF taken

Lasting == {"send", "query", "reply", "cancel"} \cup Control!Decisions

\* A call acts on what can be named: a live task, or one to go on from.
Fits(do, t) ==
  /\ do.act \in Lasting => do.task \in Ids /\ Live(do.task)
  /\ do.act # "all" /\ do.act # "start"
  /\ do.act \in {"continue", "side"} => do.task = t

\* A message goes to a live task, or goes on from the one it names.
LEMMA SentFits ==
    ASSUME NEW t \in Ids, NEW lane PROVE Fits(Control!Sent(lane, t), t)
<1> USE DEF Fits, Lasting, Control!Decisions
<1>1. \A u : Control!Live(u) = Live(u)
    BY SameTerms
<1>2. Fits(Control!Refuse, t)
    BY DEF Control!Refuse, Control!Do
<1>3. \A u : Fits(Control!Do("continue", u), u) /\ Fits(Control!Do("side", u), u)
    BY DEF Control!Do
<1>4. \A a \in {"send", "query", "reply"}, u \in Ids : Live(u) => Fits(Control!Do(a, u), t)
    BY DEF Control!Do
<1>5. Fits(Control!ToEnded(t), t)
  <2> DEFINE asking == {c \in {d \in Control!Ids : tasks[d].parent = t /\ Control!Live(d)} :
                          tasks[c].q + tasks[c].p > 0}
  <2>1. \A c \in asking : c \in Ids /\ Live(c)
      BY <1>1, SameTerms
  <2>2. \/ Control!ToEnded(t) = Control!Refuse
        \/ Control!ToEnded(t) = Control!Do("continue", t)
        \/ asking # {} /\ Control!ToEnded(t) = Control!Do("reply", CHOOSE c \in asking : TRUE)
      BY DEF Control!ToEnded
  <2>3. asking # {} => (CHOOSE c \in asking : TRUE) \in asking
      OBVIOUS
  <2> HIDE DEF asking, Fits
  <2> QED BY <1>2, <1>3, <1>4, <2>1, <2>2, <2>3
<1> HIDE DEF Fits
<1> QED BY <1>1, <1>2, <1>3, <1>4, <1>5 DEF Control!Sent

\* Whatever the tool, it acts on tasks that can be named.
LEMMA ChosenFits ==
    ASSUME NEW kept, NEW tool \in Control!Tools, NEW ref, Active \cup Recent(kept) \subseteq Ids
    PROVE  LET do == Control!Chosen(kept, tool, ref) IN
           \/ tool = "start" /\ do = Control!Do("start", 0)
           \/ do = [act |-> "all", tasks |-> Active]
           \/ do = Control!Refuse
           \/ \E t \in Active \cup Recent(kept) : Fits(do, t)
<1> DEFINE do == Control!Chosen(kept, tool, ref)
           found == Control!Resolved(kept, ref)
           t == Control!Target(kept, ref)
<1>1. CASE tool = "start"
    BY <1>1 DEF Control!Chosen
<1>2. CASE tool # "start" /\ found = "all"
    BY <1>2, SameTerms DEF Control!Chosen
<1>3. CASE tool # "start" /\ found # "all" /\ found # "target"
    BY <1>3 DEF Control!Chosen
<1>4. CASE tool # "start" /\ found = "target"
  <2>1. t \in Active \cup Recent(kept)
    <3>1. Pool(kept, ref) # {}
        BY <1>4, SameTerms DEF Control!Resolved
    <3>2. t \in Pool(kept, ref)
        BY <3>1, SameTerms DEF Control!Target
    <3> HIDE DEF t
    <3> QED BY <3>2 DEF Pool
  <2>2. \/ tool \in Control!Sends /\ do = Control!Sent(tool, t)
        \/ do = (IF Control!Live(t) THEN Control!Do("cancel", t) ELSE Control!Refuse)
        \/ tool \in Control!Decisions /\ do = Control!Decided(tool, t)
    <3>1. do = CASE tool \in Control!Sends -> Control!Sent(tool, t)
                 [] tool = "cancel" -> IF Control!Live(t) THEN Control!Do("cancel", t)
                                       ELSE Control!Refuse
                 [] tool \in Control!Decisions -> Control!Decided(tool, t)
        BY <1>4 DEF Control!Chosen
    <3>2. tool \in Control!Sends \/ tool = "cancel" \/ tool \in Control!Decisions
        BY <1>4 DEF Control!Tools
    <3>3. /\ tool \in Control!Sends => tool # "cancel" /\ tool \notin Control!Decisions
          /\ tool \in Control!Decisions => tool # "cancel"
        BY DEF Control!Sends, Control!Decisions
    <3> HIDE DEF do, t
    <3> QED BY <3>1, <3>2, <3>3
  <2> HIDE DEF do, t
  <2>3. t \in Ids
      BY <2>1
  <2>4. do = Control!Refuse \/ Fits(do, t)
    <3>1. CASE tool \in Control!Sends /\ do = Control!Sent(tool, t)
        BY <2>3, <3>1, SentFits
    <3>2. CASE do = (IF Control!Live(t) THEN Control!Do("cancel", t) ELSE Control!Refuse)
      <4>1. Live(t) => Fits(Control!Do("cancel", t), t)
          BY <2>3 DEF Fits, Control!Do, Lasting
      <4>2. Control!Live(t) = Live(t)
          BY SameTerms
      <4> QED BY <3>2, <4>1, <4>2
    <3>3. CASE tool \in Control!Decisions /\ do = Control!Decided(tool, t)
      <4>1. \/ do = Control!Refuse
            \/ Live(t) /\ do = Control!Do(tool, t)
            \/ do = Control!Do("revoke", t)
          BY <3>3, SameTerms DEF Control!Decided
      <4>2. Live(t) => Fits(Control!Do(tool, t), t)
          BY <2>3, <3>3 DEF Fits, Control!Do, Lasting, Control!Decisions
      <4>3. Fits(Control!Do("revoke", t), t)
          BY DEF Fits, Control!Do, Lasting, Control!Decisions
      <4> QED BY <4>1, <4>2, <4>3
    <3> QED BY <2>2, <3>1, <3>2, <3>3
  <2>5. do = Control!Refuse \/ \E u \in Active \cup Recent(kept) : Fits(do, u)
      BY <2>1, <2>4
  <2> QED BY <2>5 DEF do
<1> QED BY <1>1, <1>2, <1>3, <1>4

\* What a call prunes, in the terms of the promises.
LEMMA PrunedOK ==
    LET gone == Control!Pruned IN
    /\ gone \subseteq Idle
    /\ \A g \in gone :
         Main(g) => g \in over \/ Cardinality(Newer(ended, KeptMain, g)) >= MaxTerminal
<1> DEFINE Kept(kind) == {t \in Idle \ over : tasks[t].kind = kind}
           Excess(kind) == {t \in Kept(kind) :
                              Cardinality(Newer(ended, Kept(kind), t)) >= MaxTerminal}
<1>1. Control!Prunable(undelivered) = Idle
    BY SameTerms DEF Control!Prunable, Idle
<1>2. Control!Pruned = (Idle \cap over) \cup Excess("main") \cup Excess("side")
  <2> DEFINE K(kind) == {t \in Control!Prunable(undelivered) \ over : tasks[t].kind = kind}
             E(kind) == {t \in K(kind) :
                           Control!Cardinality(Control!Newer(ended, K(kind), t)) >= MaxTerminal}
  <2>1. Control!Pruned = (Control!Prunable(undelivered) \cap over) \cup E("main") \cup E("side")
      BY DEF Control!Pruned
  <2>2. K("main") = Kept("main") /\ K("side") = Kept("side")
      BY <1>1
  <2>3. \A S : Control!Cardinality(S) = Cardinality(S)
      BY DEF Control!Cardinality, Cardinality
  <2> HIDE DEF K, Kept
  <2>4. E("main") = Excess("main") /\ E("side") = Excess("side")
      BY <2>2, <2>3, SameTerms
  <2> HIDE DEF E
  <2> QED BY <1>1, <2>1, <2>4
<1>3. Kept("main") = KeptMain
    BY DEF KeptMain, Main
<1>4. \A g \in Excess("side") : ~ Main(g)
    BY DEF Main
<1>5. \A g \in Excess("main") : Cardinality(Newer(ended, KeptMain, g)) >= MaxTerminal
    BY <1>3
<1>6. Excess("main") \subseteq Idle /\ Excess("side") \subseteq Idle
    OBVIOUS
<1> HIDE DEF Excess
<1> QED BY <1>2, <1>4, <1>5, <1>6

\* What is left of the tasks when some go.
LEMMA LeftIs ==
    ASSUME ControlTypes, NEW gone
    PROVE  LET s == Control!Left(gone) IN
           /\ s \in Seq(TaskRecords) /\ Len(s) = Len(tasks)
           /\ \A t \in Ids : s[t] = IF t \in gone THEN [tasks[t] EXCEPT !.status = "gone"]
                                    ELSE tasks[t]
<1> DEFINE s == [t \in Ids |-> IF t \in gone THEN [tasks[t] EXCEPT !.status = "gone"]
                               ELSE tasks[t]]
<1>1. Control!Left(gone) = s
    BY SameTerms DEF Control!Left
<1>2. /\ Ids = 1..Len(tasks) /\ Len(tasks) \in Nat
      /\ \A t \in Ids : tasks[t] \in TaskRecords
    BY IdsAre
<1>3. \A t \in Ids : [tasks[t] EXCEPT !.status = "gone"] \in TaskRecords
  <2>1. ASSUME NEW t \in Ids PROVE [tasks[t] EXCEPT !.status = "gone"] \in TaskRecords
    <3>1. tasks[t] \in TaskRecords
        BY <1>2
    <3> QED BY <3>1 DEF TaskRecords, Statuses
  <2> QED BY <2>1
<1> HIDE DEF TaskRecords
<1>4. s \in [1..Len(tasks) -> TaskRecords]
    BY <1>2, <1>3
<1>5. s \in Seq(TaskRecords)
    BY <1>2, <1>4, SeqDef
<1>6. Len(s) = Len(tasks)
  <2>1. Len(s) \in Nat /\ DOMAIN s = 1..Len(s)
    <3> HIDE DEF s
    <3> QED BY <1>5, LenProperties
  <2>2. DOMAIN s = 1..Len(tasks)
      BY <1>4
  <2> HIDE DEF s
  <2> QED BY <1>2, <2>1, <2>2
<1>7. \A t \in Ids : s[t] = IF t \in gone THEN [tasks[t] EXCEPT !.status = "gone"]
                            ELSE tasks[t]
    OBVIOUS
<1> HIDE DEF s
<1> QED BY <1>1, <1>5, <1>6, <1>7

\* The task a call creates, if it does.
LEMMA NewComes ==
    ASSUME ControlTypes, MaxTasks \in Nat, MaxAsks \in Nat, NEW gone,
           Nameable(gone) \subseteq Ids,
           NEW tool \in Control!Tools, NEW ref \in Control!Refs(tool), NEW do,
           \/ tool = "start" /\ do = Control!Do("start", 0)
           \/ do = [act |-> "all", tasks |-> Active]
           \/ do = Control!Refuse
           \/ \E t \in Nameable(gone) : Fits(do, t)
    PROVE  LET new == Control!New(do, Only(ended, Ids \ gone), ref) IN
           \/ new = << >>
           \/ /\ do.act \notin Control!Awaiting
              /\ \E r \in TaskRecords : new = << r >> /\ Comes(gone, r)
<1> DEFINE kept == Only(ended, Ids \ gone)
           new == Control!New(do, kept, ref)
           main(name) == Control!Record("main", Control!Named(kept, name), 0)
<1>1. ASSUME NEW name \in NameSeqs
      PROVE  main(name) \in TaskRecords /\ Comes(gone, main(name))
  <2>1. Active \cup Recent(kept) \subseteq Ids
      BY DEF Nameable
  <2> HIDE DEF kept
  <2>2. /\ Control!Named(kept, name) \in NameSeqs
        /\ \A t \in Active \cup Recent(kept) : tasks[t].name # Control!Named(kept, name)
      BY <2>1, NamedNew
  <2>3. main(name) = [kind |-> "main", status |-> "queued",
                      name |-> Control!Named(kept, name), parent |-> 0, q |-> 0, p |-> 0]
      BY DEF Control!Record
  <2> HIDE DEF main
  <2>4. main(name) \in TaskRecords
      BY <2>2, <2>3 DEF TaskRecords, Statuses
  <2>5. \A t \in Nameable(gone) : tasks[t].name # main(name).name
    <3>1. main(name).name = Control!Named(kept, name)
        BY <2>3
    <3>2. Nameable(gone) = Active \cup Recent(kept)
        BY DEF Nameable, kept
    <3> QED BY <2>2, <3>1, <3>2
  <2>6. main(name).status = "queued" /\ main(name).q + main(name).p <= MaxAsks
        /\ main(name).kind = "main" /\ main(name).parent = 0
      BY <2>3
  <2> QED BY <2>4, <2>5, <2>6 DEF Comes
<1>2. CASE tool = "start" /\ do = Control!Do("start", 0)
  <2>1. ref \in NameSeqs
    <3>1. PICK stem \in Stems : ref = << stem >>
        BY <1>2 DEF Control!Refs
    <3> QED BY <3>1 DEF NameSeqs, NoName
  <2>2. new = << main(ref) >> /\ do.act \notin Control!Awaiting
      BY <1>2 DEF Control!New, Control!Do, Control!Awaiting, Control!Decisions
  <2>3. main(ref) \in TaskRecords /\ Comes(gone, main(ref))
      BY <1>1, <2>1
  <2> HIDE DEF main
  <2> QED BY <2>2, <2>3
<1>3. CASE do = [act |-> "all", tasks |-> Active]
  <2>1. new = << >>
      BY <1>3 DEF Control!New
  <2> QED BY <2>1
<1>4. CASE do = Control!Refuse
  <2>1. new = << >>
      BY <1>4 DEF Control!New, Control!Refuse, Control!Do
  <2> QED BY <2>1
<1>5. CASE \E t \in Nameable(gone) : Fits(do, t)
  <2>1. PICK t \in Nameable(gone) : Fits(do, t)
      BY <1>5
  <2>2. /\ t \in Ids /\ tasks[t] \in TaskRecords /\ tasks[t].name \in NameSeqs
        /\ t \in Nat
      BY <2>1, IdsAre DEF TaskRecords
  <2>3. CASE do.act = "continue"
    <3>1. do.task = t
        BY <2>1, <2>3 DEF Fits
    <3>2. new = << main(tasks[t].name) >>
        BY <2>3, <3>1 DEF Control!New
    <3>3. do.act \notin Control!Awaiting
        BY <2>3 DEF Control!Awaiting, Control!Decisions
    <3>4. main(tasks[t].name) \in TaskRecords /\ Comes(gone, main(tasks[t].name))
        BY <1>1, <2>2
    <3> HIDE DEF main
    <3> QED BY <3>2, <3>3, <3>4
  <2>4. CASE do.act = "side"
    <3> DEFINE r == [kind |-> "side", status |-> "queued", name |-> tasks[t].name,
                     parent |-> t, q |-> 0, p |-> 0]
    <3>1. do.task = t
        BY <2>1, <2>4 DEF Fits
    <3>2. new = << r >>
        BY <2>4, <3>1 DEF Control!New, Control!Record
    <3>3. do.act \notin Control!Awaiting
        BY <2>4 DEF Control!Awaiting, Control!Decisions
    <3>4. r \in TaskRecords
        BY <2>2 DEF TaskRecords, Statuses
    <3>5. Comes(gone, r)
        BY <2>1 DEF Comes
    <3> HIDE DEF r
    <3> QED BY <3>2, <3>3, <3>4, <3>5
  <2>5. CASE do.act \notin {"continue", "side"}
    <3>1. do.act # "start"
        BY <2>1 DEF Fits
    <3>2. new = << >>
        BY <2>5, <3>1 DEF Control!New
    <3> QED BY <3>2
  <2> QED BY <2>3, <2>4, <2>5
<1> QED BY <1>2, <1>3, <1>4, <1>5

\* A tool call has the form of a call.
LEMMA CallForm ==
    ASSUME ControlInv, Control!TaskControlAssumption,
           NEW tool \in Control!Tools, NEW ref \in Control!Refs(tool), Control!Call(tool, ref)
    PROVE  Calls(Control!Pruned)
<1> DEFINE key == << tool, ref >>
           gone == Control!Pruned
           kept == Only(ended, Ids \ gone)
           do == IF key \in receipts THEN Control!Refuse ELSE Control!Chosen(kept, tool, ref)
           new == Control!New(do, kept, ref)
<1>1. ControlTypes /\ OrderOK /\ MaxTasks \in Nat /\ MaxAsks \in Nat
    BY DEF ControlInv, Control!TaskControlAssumption
<1>2. kept = Control!Only(ended, Control!Ids \ gone)
    BY SameTerms
<1>3. /\ hand = Control!Nobody
      /\ Control!Within(tasks \o new)
      /\ tasks' = Control!Left(gone) \o new
      /\ ended' = kept /\ late' = late \ gone /\ over' = over \ gone
      /\ undelivered' = undelivered
      /\ \/ /\ do.act \in Control!Awaiting
            /\ hand' = [act |-> do.act, key |-> key,
                        left |-> IF do.act = "all" THEN do.tasks ELSE {do.task}]
         \/ do.act \notin Control!Awaiting /\ hand' = hand
  <2> DEFINE k == Control!Only(ended, Control!Ids \ gone)
             d == IF key \in receipts THEN Control!Refuse ELSE Control!Chosen(k, tool, ref)
             n == Control!New(d, k, ref)
  <2>1. /\ hand = Control!Nobody
        /\ Control!Within(tasks \o n)
        /\ tasks' = Control!Left(gone) \o n
        /\ ended' = k /\ late' = late \ gone /\ over' = over \ gone
        /\ undelivered' = undelivered
        /\ \/ /\ d.act \in Control!Awaiting
              /\ hand' = [act |-> d.act, key |-> key,
                          left |-> IF d.act = "all" THEN d.tasks ELSE {d.task}]
           \/ d.act \notin Control!Awaiting /\ hand' = hand
      BY DEF Control!Call
  <2>2. k = kept /\ d = do /\ n = new
      BY <1>2
  <2> HIDE DEF k, d, n, kept, do, new, gone, key
  <2> QED BY <2>1, <2>2
<1>4. Goes(gone)
  <2>1. /\ gone \subseteq Idle
        /\ \A g \in gone :
             Main(g) => g \in over \/ Cardinality(Newer(ended, KeptMain, g)) >= MaxTerminal
      BY PrunedOK
  <2> HIDE DEF gone
  <2> QED BY <1>3, <2>1 DEF Goes, kept
<1> HIDE DEF gone
<1>5. Nameable(gone) = Active \cup Recent(kept) /\ Nameable(gone) \subseteq Ids
  <2>1. ended \in Seq(Nat)
      BY <1>1 DEF ControlTypes
  <2>2. ToSet(kept) = ToSet(ended) \cap (Ids \ gone)
      BY <2>1, OnlyOK
  <2>3. Recent(kept) \subseteq ToSet(kept)
      BY DEF Recent
  <2>4. Active \subseteq Ids
      BY DEF Active
  <2> QED BY <2>2, <2>3, <2>4 DEF Nameable
<1>6. \/ tool = "start" /\ do = Control!Do("start", 0)
      \/ do = [act |-> "all", tasks |-> Active]
      \/ do = Control!Refuse
      \/ \E t \in Nameable(gone) : Fits(do, t)
  <2> DEFINE d == Control!Chosen(kept, tool, ref)
  <2>1. \/ tool = "start" /\ d = Control!Do("start", 0)
        \/ d = [act |-> "all", tasks |-> Active]
        \/ d = Control!Refuse
        \/ \E t \in Active \cup Recent(kept) : Fits(d, t)
    <3> HIDE DEF kept
    <3> QED BY <1>5, ChosenFits
  <2>2. do = Control!Refuse \/ do = d
      OBVIOUS
  <2> HIDE DEF d, do, kept
  <2> QED BY <1>5, <2>1, <2>2
<1> HIDE DEF do
<1>7. \/ new = << >>
      \/ /\ do.act \notin Control!Awaiting
         /\ \E r \in TaskRecords : new = << r >> /\ Comes(gone, r)
    BY <1>1, <1>5, <1>6, NewComes
<1> HIDE DEF new, kept
<1> DEFINE s == Control!Left(gone)
<1>8. /\ s \in Seq(TaskRecords) /\ Len(s) = Len(tasks) /\ Len(tasks) \in Nat
      /\ Ids = 1..Len(tasks)
      /\ \A t \in Ids : s[t] = IF t \in gone THEN [tasks[t] EXCEPT !.status = "gone"]
                               ELSE tasks[t]
    BY <1>1, LeftIs, IdsAre
<1> HIDE DEF s, TaskRecords
<1>9. Grows(gone) /\ (new = << >> => Ids' = Ids)
  <2>1. tasks' = s \o new
      BY <1>3 DEF s
  <2>2. CASE new = << >>
    <3>1. tasks' = s
        BY <1>8, <2>1, <2>2, ConcatEmptySeq
    <3>2. Ids' = Ids
      <4>1. DOMAIN tasks' = 1..Len(tasks')
          BY <1>8, <3>1, Items
      <4> QED BY <1>8, <3>1, <4>1 DEF Ids
    <3> QED BY <1>1, <1>8, <3>1, <3>2 DEF Grows, ControlTypes
  <2>3. CASE \E r \in TaskRecords : new = << r >> /\ Comes(gone, r)
    <3>1. PICK r \in TaskRecords : new = << r >> /\ Comes(gone, r)
        BY <2>3
    <3>2. new \in Seq(TaskRecords) /\ Len(new) = 1 /\ new[1] = r
        BY <3>1
    <3>3. /\ s \o new \in Seq(TaskRecords)
          /\ Len(s \o new) = Len(tasks) + 1
          /\ \A i \in 1..(Len(tasks) + 1) :
               (s \o new)[i] = IF i <= Len(tasks) THEN s[i] ELSE new[i - Len(tasks)]
      <4>1. /\ s \o new \in Seq(TaskRecords)
            /\ Len(s \o new) = Len(s) + Len(new)
            /\ \A i \in 1..(Len(s) + Len(new)) :
                 (s \o new)[i] = IF i <= Len(s) THEN s[i] ELSE new[i - Len(s)]
          BY <1>8, <3>2, ConcatProperties
      <4> QED BY <1>8, <3>2, <4>1
    <3>4. Ids' = 1..(Len(tasks) + 1)
      <4>1. DOMAIN tasks' = 1..Len(tasks')
          BY <2>1, <3>3, Items
      <4> QED BY <2>1, <3>3, <4>1 DEF Ids
    <3>5. \A t \in Ids : tasks'[t] = s[t]
        BY <1>8, <2>1, <3>3
    <3>6. \A t \in Ids' \ Ids : tasks'[t] = r
      <4> SUFFICES ASSUME NEW t \in Ids', t \notin Ids PROVE tasks'[t] = r
          OBVIOUS
      <4>1. t = Len(tasks) + 1
          BY <1>8, <3>4
      <4>2. ~ (t <= Len(tasks)) /\ t - Len(tasks) = 1 /\ t \in 1..(Len(tasks) + 1)
          BY <1>8, <4>1
      <4> QED BY <2>1, <3>2, <3>3, <4>2
    <3>7. Len(tasks) + 1 <= MaxTasks
      <4>1. Len(tasks \o new) <= MaxTasks
          BY <1>3 DEF Control!Within
      <4>2. Len(tasks \o new) = Len(tasks) + 1
        <5>1. tasks \in Seq(TaskRecords)
            BY <1>1 DEF ControlTypes
        <5>2. Len(tasks \o new) = Len(tasks) + Len(new)
            BY <3>2, <5>1, ConcatProperties
        <5> QED BY <3>2, <5>2
      <4> QED BY <4>1, <4>2
    <3>8. new # << >>
      <4>1. Len(new) = 1 /\ Len(<< >>) = 0
          BY <3>2
      <4> HIDE DEF new
      <4> QED BY <4>1
    <3>9. /\ tasks' \in Seq(TaskRecords) /\ Len(tasks') <= MaxTasks
          /\ Len(tasks') \in {Len(tasks), Len(tasks) + 1}
        BY <2>1, <3>3, <3>7
    <3>10. \A t \in Ids : tasks'[t] = IF t \in gone THEN [tasks[t] EXCEPT !.status = "gone"]
                                      ELSE tasks[t]
        BY <1>8, <3>5
    <3>11. \A t \in Ids' \ Ids : Comes(gone, tasks'[t])
        BY <3>1, <3>6
    <3> QED BY <3>8, <3>9, <3>10, <3>11 DEF Grows
  <2> QED BY <1>7, <2>2, <2>3
<1>10. \/ hand' = Control!Nobody
       \/ /\ Ids' = Ids
          /\ \E a \in Control!Awaiting, S \in SUBSET {t \in Ids : Live(t)} :
               hand' = [act |-> a, key |-> hand'.key, left |-> S]
  <2>1. CASE do.act \notin Control!Awaiting
      BY <1>3, <2>1
  <2>2. CASE do.act \in Control!Awaiting
    <3> DEFINE S == IF do.act = "all" THEN do.tasks ELSE {do.task}
    <3>1. Ids' = Ids
        BY <1>7, <1>9, <2>2
    <3>2. S \in SUBSET {t \in Ids : Live(t)}
      <4>1. CASE do = [act |-> "all", tasks |-> Active]
          BY <4>1 DEF Active
      <4>2. CASE \E t \in Nameable(gone) : Fits(do, t)
        <5>1. do.act # "all" /\ do.act \in Lasting
            BY <2>2, <4>2 DEF Fits, Lasting, Control!Awaiting
        <5>2. do.task \in Ids /\ Live(do.task)
            BY <4>2, <5>1 DEF Fits
        <5> QED BY <5>1, <5>2
      <4>3. do # Control!Refuse /\ do # Control!Do("start", 0)
          BY <2>2 DEF Control!Refuse, Control!Do, Control!Awaiting, Control!Decisions
      <4> QED BY <1>6, <4>1, <4>2, <4>3
    <3>3. hand' = [act |-> do.act, key |-> key, left |-> S]
        BY <1>3, <2>2
    <3> HIDE DEF S, key
    <3>4. hand' = [act |-> do.act, key |-> hand'.key, left |-> S]
        BY <3>3
    <3> QED BY <2>2, <3>1, <3>2, <3>4
  <2> QED BY <2>1, <2>2
<1> QED BY <1>4, <1>9, <1>10 DEF Calls, gone

\* The strengthening holds at the start, ...
LEMMA ControlStarts ==
    ASSUME Control!TaskControlAssumption, Control!Init PROVE ControlInv
<1>1. tasks = << >> /\ ended = << >> /\ Ids = {} /\ ToSet(ended) = {} /\ Len(tasks) = 0
    BY DEF Control!Init, Ids, ToSet
<1>2. ControlTypes
    BY <1>1 DEF ControlTypes, Control!TaskControlAssumption
<1>3. OrderOK
    BY <1>1 DEF OrderOK, Before, Control!Init
<1>4. Needed /\ Apart /\ HandOK
    BY <1>1 DEF Needed, Apart, HandOK, Control!Init
<1> QED BY <1>2, <1>3, <1>4 DEF ControlInv

\* ... each step of the tools keeps it, ...
LEMMA ControlStep ==
    ASSUME Control!TaskControlAssumption, ControlInv, [Control!Next]_(Control!controlVars)
    PROVE  ControlInv'
<1>1. ControlTypes /\ MaxTerminal \in Nat /\ MaxAsks \in Nat
    BY DEF ControlInv, Control!TaskControlAssumption
<1>2. Control!Ids = Ids
    BY SameTerms
<1>3. CASE Control!Turn
  <2>1. tasks' = tasks /\ hand' = hand /\ UNCHANGED << ended, late, over, undelivered >>
      BY <1>3 DEF Control!Turn
  <2>2. Quiet
      BY <1>1, <2>1, SameTasks DEF Quiet, HandKept
  <2> QED BY <1>1, <2>2, QuietOK
<1>4. CASE Control!Proceed
    BY <1>1, <1>4, ProceedForm, QuietOK, TouchesOK, EndsOK
<1>5. CASE Control!Age
    BY <1>1, <1>5, AgeForm, AgesOK
<1>6. CASE \E tool \in Control!Tools : \E ref \in Control!Refs(tool) : Control!Call(tool, ref)
    BY <1>1, <1>6, CallForm, CallsOK
<1>7. CASE \E t \in Ids : Control!Start(t)
    BY <1>1, <1>7, StartQuiet, QuietOK
<1>8. CASE \E t \in Ids : Control!Finish(t)
  <2>1. PICK t \in Ids : Control!Finish(t)
      BY <1>8
  <2>2. Live(t) /\ Control!Ends(t) /\ hand' = hand
      BY <2>1 DEF Control!Finish, Live
  <2>3. EndsAt(t)
      BY <1>1, <2>2, EndsForm DEF HandKept
  <2> QED BY <1>1, <2>3, EndsOK
<1>9. CASE \E t \in Ids : Control!Delivered(t)
  <2>1. Told
      BY <1>9 DEF Control!Delivered, Told
  <2> QED BY <2>1, ToldOK
<1>10. CASE \E t \in Ids : Control!Ask(t, "q") \/ Control!Ask(t, "p")
    BY <1>1, <1>10, AskQuiet, QuietOK
<1>11. CASE UNCHANGED Control!controlVars
  <2>1. Told
      BY <1>11 DEF Control!controlVars, Told
  <2> QED BY <2>1, ToldOK
<1> QED BY <1>2, <1>3, <1>4, <1>5, <1>6, <1>7, <1>8, <1>9, <1>10, <1>11 DEF Control!Next

\* In view a name refers to one task, unless a side query has brought back a
\* task whose name had been given away.
LEMMA OneMeaning ==
    ASSUME MaxTerminal \in Nat, ControlInv, NEW t \in InView
    PROVE  Refers(tasks[t].name, t) \/ Borne(tasks[t].name)
<1> DEFINE n == tasks[t].name
<1>1. ControlTypes /\ OrderOK
    BY DEF ControlInv
<1>2. \A u \in InView : u \in Ids /\ Main(u)
    BY <1>1 DEF InView, Active, Recent, OrderOK
<1>3. ASSUME NEW x \in InView, NEW y \in InView, tasks[x].name = n, Namesakes(x, y)
      PROVE  Borne(n)
  <2>1. Passed(x)
      BY <1>2, <1>3 DEF ControlInv, Apart, Youngest
  <2>2. x \in Recent(ended)
      BY <1>3, <2>1 DEF InView, Active, Passed
  <2> DEFINE shown == {u \in ToSet(ended) : Main(u) /\ (u \notin late \/ Asked(u))}
  <2>3. Recent(ended) = {u \in shown : Cardinality(Newer(ended, shown, u)) < MaxTerminal}
      BY DEF Recent
  <2>4. x \in shown /\ Cardinality(Newer(ended, shown, x)) < MaxTerminal
      BY <2>2, <2>3
  <2>5. tasks[x].status = "ended"
      BY <1>1, <2>4 DEF OrderOK
  <2>6. CASE x \in late
      BY <1>3, <2>4, <2>6 DEF Borne
  <2>7. CASE x \notin late
    <3>1. \A u : Before(ended, x, u) => u \notin late
        BY <1>1, <2>7 DEF OrderOK
    <3>2. Newer(ended, shown, x) = Newer(ended, MainEnded, x)
        BY <3>1 DEF Newer, MainEnded
    <3>3. Cardinality(Newer(ended, MainEnded, x)) >= MaxTerminal
        BY <2>1, <2>5, <2>7 DEF Passed
    <3>4. Cardinality(Newer(ended, MainEnded, x)) \in Nat
        BY <1>1, NewerFinite
    <3> HIDE DEF shown
    <3> QED BY <2>4, <3>2, <3>3, <3>4
  <2> QED BY <2>6, <2>7
<1>4. ASSUME NEW u \in InView, u # t, tasks[u].name = n PROVE Borne(n)
  <2>1. t \in Nat /\ u \in Nat /\ t \in Ids /\ u \in Ids /\ Main(t) /\ Main(u)
      BY <1>1, <1>2, IdsAre
  <2>2. Namesakes(t, u) \/ Namesakes(u, t)
      BY <1>4, <2>1 DEF Namesakes
  <2> QED BY <1>3, <1>4, <2>2
<1>5. ASSUME Pool(ended, n) # {t} PROVE \E u \in InView : u # t /\ tasks[u].name = n
  <2> DEFINE act == {u \in Active : tasks[u].name = n}
             rec == {u \in Recent(ended) : tasks[u].name = n}
  <2>1. n # NoName
      BY <1>1, <1>2, IdsAre DEF TaskRecords, NameSeqs
  <2>2. Pool(ended, n) = IF act # {} THEN act ELSE rec
    <3>1. Pool(ended, n) = LET a == IF n = NoName THEN Active ELSE {u \in Active : tasks[u].name = n}
                           IN IF a # {} \/ n = NoName THEN a
                              ELSE {u \in Recent(ended) : tasks[u].name = n}
        BY DEF Pool
    <3> QED BY <2>1, <3>1
  <2>3. t \in act \/ t \in rec
      BY DEF InView
  <2> HIDE DEF n
  <2>4. act \subseteq InView /\ rec \subseteq InView
      BY DEF InView
  <2>5. \A u \in act \cup rec : tasks[u].name = n
      OBVIOUS
  <2> HIDE DEF act, rec
  <2>6. \E u \in act \cup rec : u # t
      BY <1>5, <2>2, <2>3
  <2> QED BY <2>4, <2>5, <2>6
<1> QED BY <1>4, <1>5 DEF Refers

NamesClear == \A t \in InView : Refers(tasks[t].name, t) \/ Borne(tasks[t].name)

\* ... so it holds always.
LEMMA ControlInvAlways ==
    ASSUME Control!TaskControlAssumption PROVE Control!Spec => []ControlInv
<1>1. Control!Init => ControlInv
    BY ControlStarts
<1>2. ControlInv /\ [Control!Next]_(Control!controlVars) => ControlInv'
    BY ControlStep
<1> QED BY <1>1, <1>2, PTL DEF Control!Spec

\* A finished task that somebody still needs, for its delivery or for a side query of
\* it, is never pruned (SupervisionStore.prune_terminal_tasks).
THEOREM NeededStays ==
    ASSUME Control!TaskControlAssumption PROVE Control!Spec => []NeededKept
<1>1. ControlInv => NeededKept
    BY DEF ControlInv, Needed, NeededKept
<1> QED BY <1>1, ControlInvAlways, PTL

\* Questions pending at a task stay within their bound, the order of the finished
\* tasks lists exactly those, and what is over its TTL is out of the window.
THEOREM ControlTyped ==
    ASSUME Control!TaskControlAssumption PROVE Control!Spec => []Control!TypeOK
<1>1. ControlInv => Control!TypeOK
    BY SameTerms DEF ControlInv, ControlTypes, OrderOK, Control!TypeOK
<1> QED BY <1>1, ControlInvAlways, PTL

\* A name the user has heard keeps its meaning (assign_frontbrain_task_name), unless
\* a side query has brought back a task whose name had been given away.
THEOREM NamesStay ==
    ASSUME Control!TaskControlAssumption PROVE Control!Spec => NamesStick
<1>1. ControlInv => NamesClear
    BY OneMeaning DEF NamesClear, Control!TaskControlAssumption
<1>2. NamesClear' =>
        \A t \in InView \cap InView' :
          Refers(tasks[t].name, t) => \/ Refers(tasks[t].name, t)'
                                      \/ Borne(tasks[t].name)'
    BY DEF NamesClear
<1> QED BY <1>1, <1>2, ControlInvAlways, PTL DEF NamesStick
=============================================================================
