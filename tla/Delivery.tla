------------------------------ MODULE Delivery ------------------------------
(***************************************************************************)
(* How the news of a background task reaches the user: DeliveryBroker's    *)
(* claims in the ledger, the coordinator's _delivery_loop that puts a      *)
(* claimed delivery into the live Thinker session, the websocket handler   *)
(* that sends the model event which consumed it and acknowledges the       *)
(* claim, and the life of the session: a dropped socket parks it, the same *)
(* client resumes it, anything else ends it.                               *)
(*                                                                         *)
(* A step is the code between two awaits; model calls run on a thread      *)
(* under the session's model lock.  A claim token is unique to its claim,  *)
(* so the number of the attempt stands for it.                             *)
(***************************************************************************)
EXTENDS Naturals, Sequences, FiniteSets, SequencesExt

CONSTANTS Deliveries,   \* dedupe keys of what the gateway may announce
          NoDelivery,
          Interrupts,   \* deliveries with timing "interrupt"; others safe_pause
          Questions,    \* deliveries that carry an interaction
          Malformed,    \* deliveries worker_delivery_response may refuse
          Lean,         \* the gateway runs without a coordinator model
          MaxAttempts,  \* bound: claims of one delivery
          MaxCalls,     \* bound: tool calls the model makes
          MaxDrops,     \* bound: sockets that drop
          MaxCrashes    \* bound: process deaths

ASSUME NoDeliveryAssumption == NoDelivery \notin Deliveries
ASSUME KindsAssumption == /\ Interrupts \subseteq Deliveries
                          /\ Questions \subseteq Deliveries
                          /\ Malformed \subseteq Deliveries
ASSUME BoundsAssumption == /\ Lean \in BOOLEAN
                           /\ MaxAttempts \in Nat \ {0}
                           /\ {MaxCalls, MaxDrops, MaxCrashes} \subseteq Nat

VARIABLES
    \* the ledger file
    record,      \* DeliveryRecord: state, and attempts standing for the token
    queue,       \* the pending ones in the order of updated_at_ms
    lapsed,      \* the claims whose lease has run out
    \* the gateway
    muted, subscribed,
    \* the coordinator
    loop,        \* _delivery_loop: its await and the delivery it holds
    awaiting,    \* _delivery_outputs_pending
    \* the live session
    inputs,      \* deliveries queued for a model unit, with their receipts
    calling,     \* a tool call: none, made by the model, seen by the handler
    \* the websocket
    handler,     \* the duplex handler and the claim it sends
    session,     \* "live", "parked" or "ended"
    \* observation and bounds
    heard,       \* how often the client was sent a delivery
    calls, drops, crashes

ledger == <<record, queue, lapsed>>
directives == <<muted, subscribed>>
bounds == <<calls, drops, crashes>>
vars == <<ledger, directives, loop, awaiting, inputs, calling, handler,
          session, heard, bounds>>

NoClaim == <<NoDelivery, 0>>
Claims == Deliveries \X (1..MaxAttempts)
States == {"absent", "pending", "claimed", "delivered", "cancelled"}

\* Every variable keeps its type: the queue lists every pending row once, and
\* only a claimed row has a lease to lose.
TypeOK ==
    /\ record \in [Deliveries -> [state : States, attempts : 0..MaxAttempts]]
    /\ queue \in Seq(Deliveries) /\ IsInjective(queue)
    /\ ToSet(queue) = {d \in Deliveries : record[d].state = "pending"}
    /\ lapsed \subseteq {d \in Deliveries : record[d].state = "claimed"}
    /\ muted \in BOOLEAN /\ subscribed \in BOOLEAN
    /\ loop \in [pc : {"off", "poll", "pause", "prepare", "feed"},
                 claim : Claims \cup {NoClaim}]
    /\ awaiting \subseteq Claims
    /\ inputs \in Seq(Claims)
    /\ calling \in {"no", "made", "seen"}
    /\ handler \in [pc : {"none", "reading", "sending", "sent"},
                    claim : Claims \cup {NoClaim}]
    /\ session \in {"live", "parked", "ended"}
    /\ heard \in [Deliveries -> Nat]
    /\ calls \in 0..MaxCalls /\ drops \in 0..MaxDrops /\ crashes \in 0..MaxCrashes

Polling == [pc |-> "poll", claim |-> NoClaim]
Reading == [pc |-> "reading", claim |-> NoClaim]
Gone == [pc |-> "none", claim |-> NoClaim]

Init ==
    /\ record = [d \in Deliveries |-> [state |-> "absent", attempts |-> 0]]
    /\ queue = <<>>
    /\ lapsed = {}
    /\ muted = FALSE /\ subscribed = FALSE
    /\ loop = Polling
    /\ awaiting = {}
    /\ inputs = <<>>
    /\ calling = "no"
    /\ handler = Reading
    /\ session = "live"
    /\ heard = [d \in Deliveries |-> 0]
    /\ calls = 0 /\ drops = 0 /\ crashes = 0

-----------------------------------------------------------------------------
(* The ledger's transactions *)

\* A row leaves the queue: it is listed there once, if it is.
Without(q, d) == IF d \in ToSet(q)
                 THEN RemoveAt(q, CHOOSE n \in DOMAIN q : q[n] = d) ELSE q

\* What a claim or an acknowledgement does to one row: a pending one goes to
\* the end of the queue, because its updated_at_ms is new.
SetState(d, s) ==
    /\ record' = [record EXCEPT ![d].state = s]
    /\ queue' = IF s = "pending" THEN Append(Without(queue, d), d)
                                 ELSE Without(queue, d)
    /\ lapsed' = lapsed \ {d}

\* Mutant: whoever acknowledges is believed.
MatchesAny(c) == record[c[1]].state # "delivered"

\* finish_delivery, and finish_expired_delivery behind it: the claim is still
\* held, or its lease ran out and nobody claimed the delivery since.
Matches(c) == /\ record[c[1]].state \in {"claimed", "pending"}
              /\ record[c[1]].attempts = c[2]

\* acknowledge_consumed(delivered=False) with its error caught and logged.
Release(c) == IF c # NoClaim /\ Matches(c)
              THEN SetState(c[1], "pending") ELSE UNCHANGED ledger

\* requeue_expired_delivery_claims
Requeued == queue \o SetToSeq(lapsed)

\* The order of claim_delivery: an interrupt goes first, then the oldest.
First(q, n) ==
    /\ \A m \in 1..(n - 1) : q[n] \in Interrupts /\ q[m] \notin Interrupts
    /\ \A m \in DOMAIN q : q[m] \in Interrupts => q[n] \in Interrupts

Claim(d) ==
    /\ record[d].attempts < MaxAttempts
    /\ record' = [e \in Deliveries |->
                    CASE e = d -> [state |-> "claimed",
                                   attempts |-> record[e].attempts + 1]
                      [] e \in lapsed \ {d} -> [record[e] EXCEPT !.state = "pending"]
                      [] OTHER -> record[e]]
    /\ queue' = Without(Requeued, d)
    /\ lapsed' = {}
    /\ loop' = [pc |-> "prepare", claim |-> <<d, record[d].attempts + 1>>]

ClaimFirst == \E n \in DOMAIN Requeued : First(Requeued, n) /\ Claim(Requeued[n])

-----------------------------------------------------------------------------
(* The gateway's side *)

Open == session # "ended"

\* DeliveryBroker.enqueue: once per dedupe key.
Enqueue(d) ==
    /\ Open
    /\ record[d].state = "absent"
    /\ SetState(d, "pending")
    /\ UNCHANGED <<directives, loop, awaiting, inputs, calling, handler,
                   session, heard, bounds>>

\* cancel_interaction_deliveries: the question was answered or its task ended.
CancelQuestion(d) ==
    /\ Open
    /\ d \in Questions
    /\ record[d].state \in {"pending", "claimed"}
    /\ SetState(d, "cancelled")
    /\ UNCHANGED <<directives, loop, awaiting, inputs, calling, handler,
                   session, heard, bounds>>

\* set_directive
Directive ==
    /\ Open
    /\ \/ muted' = ~muted /\ UNCHANGED subscribed
       \/ subscribed' = ~subscribed /\ UNCHANGED muted
    /\ UNCHANGED <<ledger, loop, awaiting, inputs, calling, handler, session,
                   heard, bounds>>

\* claim_expires_at_ms passes.
Lapse(d) ==
    /\ record[d].state = "claimed"
    /\ d \notin lapsed
    /\ lapsed' = lapsed \cup {d}
    /\ UNCHANGED <<record, queue, directives, loop, awaiting, inputs, calling,
                   handler, session, heard, bounds>>

-----------------------------------------------------------------------------
(* _delivery_loop *)

\* Mutant: a delivery the model has not spoken yet does not keep the loop from
\* injecting the next one.
BusyWithCall == calling = "seen"

\* _model_input_busy
Busy == calling = "seen" \/ awaiting # {}

\* The timing pending_deliveries shows the loop: outside lean mode an
\* interrupt the user did not subscribe to waits for a pause.
Preempts(d) == d \in Interrupts /\ (Lean \/ subscribed)

\* One round up to the first await that matters: nothing to do (the expired
\* claims are back in the queue all the same), an interrupt is claimed at
\* once, anything else first asks whether the Talker is silent.
Poll ==
    /\ loop.pc = "poll"
    /\ ~muted
    /\ \/ /\ Requeued = <<>> \/ Busy
          /\ record' = [d \in Deliveries |->
                          IF d \in lapsed THEN [record[d] EXCEPT !.state = "pending"]
                                          ELSE record[d]]
          /\ queue' = Requeued
          /\ lapsed' = {}
          /\ UNCHANGED loop
       \/ /\ Requeued # <<>> /\ ~Busy /\ Preempts(Head(Requeued))
          /\ ClaimFirst
       \/ /\ Requeued # <<>> /\ ~Busy /\ ~Preempts(Head(Requeued))
          /\ record' = [d \in Deliveries |->
                          IF d \in lapsed THEN [record[d] EXCEPT !.state = "pending"]
                                          ELSE record[d]]
          /\ queue' = Requeued
          /\ lapsed' = {}
          /\ loop' = [loop EXCEPT !.pc = "pause"]
    /\ UNCHANGED <<directives, awaiting, inputs, calling, handler, session,
                   heard, bounds>>

\* _safe_pause answers: the claim is of whatever is pending by then, and
\* neither the directives nor _model_input_busy are asked again.
Pause ==
    /\ loop.pc = "pause"
    /\ IF Requeued # <<>> THEN ClaimFirst
                          ELSE loop' = Polling /\ UNCHANGED ledger
    /\ UNCHANGED <<directives, awaiting, inputs, calling, handler, session,
                   heard, bounds>>

NoPause ==
    /\ loop.pc = "pause"
    /\ loop' = Polling
    /\ UNCHANGED <<ledger, directives, awaiting, inputs, calling, handler,
                   session, heard, bounds>>

\* Mutant: a delivery that cannot be prepared keeps its claim.
PrepareKeeps ==
    /\ loop.pc = "prepare"
    /\ \/ /\ loop.claim[1] \in Malformed
          /\ loop' = Polling
          /\ UNCHANGED awaiting
       \/ /\ loop' = [loop EXCEPT !.pc = "feed"]
          /\ awaiting' = awaiting \cup {loop.claim}
    /\ UNCHANGED <<ledger, directives, inputs, calling, handler, session, heard,
                   bounds>>

\* interrupt_output returned; worker_delivery_response builds the model's
\* input, or raises for a content it refuses, which releases the claim.
Prepare ==
    /\ loop.pc = "prepare"
    /\ \/ /\ loop.claim[1] \in Malformed
          /\ Release(loop.claim)
          /\ loop' = Polling
          /\ UNCHANGED awaiting
       \/ /\ loop' = [loop EXCEPT !.pc = "feed"]
          /\ awaiting' = awaiting \cup {loop.claim}
          /\ UNCHANGED ledger
    /\ UNCHANGED <<directives, inputs, calling, handler, session, heard, bounds>>

\* Mutant: a refused delivery still counts as awaiting its output.
FeedKeeps ==
    /\ loop.pc = "feed"
    /\ loop' = Polling
    /\ IF calling = "no"
       THEN inputs' = Append(inputs, loop.claim) /\ UNCHANGED ledger
       ELSE Release(loop.claim) /\ UNCHANGED inputs
    /\ UNCHANGED <<directives, awaiting, calling, handler, session, heard, bounds>>

\* feed_runtime_event: queued for the next unit, or refused while a tool
\* response is outstanding, which releases the claim.
Feed ==
    /\ loop.pc = "feed"
    /\ loop' = Polling
    /\ IF calling = "no"
       THEN /\ inputs' = Append(inputs, loop.claim)
            /\ UNCHANGED <<ledger, awaiting>>
       ELSE /\ Release(loop.claim)
            /\ awaiting' = awaiting \ {loop.claim}
            /\ UNCHANGED inputs
    /\ UNCHANGED <<directives, calling, handler, session, heard, bounds>>

-----------------------------------------------------------------------------
(* The session's unit and the websocket handler *)

\* Audio arrived: one unit consumes the first queued input and may call a
\* tool; model_output ties the event to the receipt of its claim.  A unit that
\* does neither changes nothing.
Unit ==
    /\ handler = Reading
    /\ \/ inputs # <<>> /\ UNCHANGED <<calling, calls>>
       \/ /\ calling = "no" /\ calls < MaxCalls
          /\ calling' = "made" /\ calls' = calls + 1
    /\ handler' = [pc |-> "sending",
                   claim |-> IF inputs = <<>> THEN NoClaim ELSE Head(inputs)]
    /\ inputs' = IF inputs = <<>> THEN inputs ELSE Tail(inputs)
    /\ UNCHANGED <<ledger, directives, loop, awaiting, session, heard, drops,
                   crashes>>

\* Mutant: the claim is acknowledged before the event is sent.
SendLate ==
    /\ handler.pc = "sending"
    /\ handler' = [handler EXCEPT !.pc = "sent"]
    /\ UNCHANGED heard
    /\ UNCHANGED <<ledger, directives, loop, awaiting, inputs, calling, session,
                   bounds>>

\* The outbox's writer sent the event.
Send ==
    /\ handler.pc = "sending"
    /\ handler' = [handler EXCEPT !.pc = "sent"]
    /\ heard' = IF handler.claim = NoClaim THEN heard
                ELSE [heard EXCEPT ![handler.claim[1]] = @ + 1]
    /\ UNCHANGED <<ledger, directives, loop, awaiting, inputs, calling, session,
                   bounds>>

\* The end of everything in memory: the loop gives its claim back, close
\* every other one.
End(c) ==
    /\ Release(c)
    /\ session' = "ended"
    /\ loop' = [pc |-> "off", claim |-> NoClaim]
    /\ handler' = Gone
    /\ awaiting' = {} /\ inputs' = <<>> /\ calling' = "no"
    /\ muted' = FALSE /\ subscribed' = FALSE
    /\ UNCHANGED heard

\* The claim held in memory: the loop's, or the one awaiting acknowledgement.
Held == IF loop.claim # NoClaim THEN loop.claim
        ELSE IF awaiting # {} THEN CHOOSE c \in awaiting : TRUE
        ELSE NoClaim

\* acknowledge_output, then observe_frontbrain.  A claim that no longer
\* matches raises in the handler, and the session ends with a fatal error.
Acknowledge ==
    /\ handler.pc = "sent"
    /\ IF handler.claim = NoClaim \/ Matches(handler.claim)
       THEN /\ IF handler.claim = NoClaim THEN UNCHANGED ledger
               ELSE SetState(handler.claim[1], "delivered")
            /\ awaiting' = awaiting \ {handler.claim}
            /\ calling' = IF calling = "made" THEN "seen" ELSE calling
            /\ handler' = Reading
            /\ UNCHANGED <<directives, loop, inputs, session, heard>>
       ELSE End(handler.claim)
    /\ UNCHANGED bounds

\* The task tool was executed and its response queued for the model.
CallAnswered ==
    /\ calling = "seen"
    /\ calling' = "no"
    /\ UNCHANGED <<ledger, directives, loop, awaiting, inputs, handler, session,
                   heard, bounds>>

\* Mutant: a socket may drop between the send and its acknowledgement.
DropLate ==
    /\ session = "live"
    /\ drops < MaxDrops
    /\ session' = "parked" /\ handler' = Gone /\ drops' = drops + 1
    /\ UNCHANGED <<ledger, directives, loop, awaiting, inputs, calling, heard,
                   calls, crashes>>

\* The socket drops: the handler finds out reading, or the writer sending.
Drop ==
    /\ session = "live"
    /\ drops < MaxDrops
    /\ handler.pc \in {"reading", "sending"}
    /\ session' = "parked" /\ handler' = Gone /\ drops' = drops + 1
    /\ UNCHANGED <<ledger, directives, loop, awaiting, inputs, calling, heard,
                   calls, crashes>>

\* The client is back within the grace period, with its token.
Resume ==
    /\ session = "parked"
    /\ session' = "live" /\ handler' = Reading
    /\ UNCHANGED <<ledger, directives, loop, awaiting, inputs, calling, heard,
                   bounds>>

\* An explicit Stop, and the end of the grace period.
Stop ==
    /\ session = "live" /\ handler = Reading
    /\ End(Held) /\ UNCHANGED bounds

GraceExpires ==
    /\ session = "parked"
    /\ End(Held) /\ UNCHANGED bounds

\* The process dies: claims stay claimed until their lease runs out.
Crash ==
    /\ Open
    /\ crashes < MaxCrashes
    /\ crashes' = crashes + 1
    /\ End(NoClaim)
    /\ UNCHANGED <<calls, drops>>

\* A new session on the ledger of the old one.
Reopen ==
    /\ session = "ended"
    /\ session' = "live" /\ handler' = Reading /\ loop' = Polling
    /\ UNCHANGED <<ledger, directives, awaiting, inputs, calling, heard, bounds>>

-----------------------------------------------------------------------------
LoopStep == Poll \/ Pause \/ NoPause \/ Prepare \/ Feed
HandlerStep == Unit \/ Send \/ Acknowledge

Next ==
    \/ \E d \in Deliveries : Enqueue(d) \/ CancelQuestion(d) \/ Lapse(d)
    \/ Directive
    \/ LoopStep
    \/ HandlerStep
    \/ CallAnswered
    \/ Drop \/ Resume \/ Stop \/ GraceExpires \/ Crash \/ Reopen

Spec == Init /\ [][Next]_vars

\* The event loop runs the loop and the handler, the client keeps sending
\* audio, tools answer, and the Talker is not found busy for ever.
Fairness ==
    /\ WF_vars(LoopStep) /\ SF_vars(Pause)
    /\ WF_vars(HandlerStep) /\ WF_vars(CallAnswered)

FairSpec == Spec /\ Fairness

-----------------------------------------------------------------------------
(* Properties *)

\* Nothing is committed as delivered before the client was sent it, whatever
\* became of its lease, the socket or the process in between.
DeliveredIsHeard ==
    \A d \in Deliveries : record[d].state = "delivered" => heard[d] > 0

\* Over expired leases, refused inputs, dropped sockets and new sessions the
\* user hears a delivery once; only a process that dies between the send and
\* its acknowledgement makes it repeat itself.
HeardOnce == \A d \in Deliveries : heard[d] <= 1 + crashes

\* One delivery at a time is on its way through the model, and the claim under
\* which it travels can still be acknowledged, unless it was cancelled.
InHand ==
    /\ Cardinality(awaiting) <= 1
    /\ ToSet(inputs) \subseteq awaiting
    /\ handler.claim \in awaiting \cup {NoClaim}
    /\ \A c \in awaiting : /\ record[c[1]].attempts = c[2]
                          /\ record[c[1]].state \in {"claimed", "pending", "cancelled"}

\* A claim is never forgotten by the process that made it: no news waits for
\* its lease to run out unless the process died.
ClaimAccounted ==
    crashes = 0 => \A d \in Deliveries :
        record[d].state = "claimed"
            => <<d, record[d].attempts>> \in awaiting \cup {loop.claim}

\* While the process lives, a claim is always somebody's: of the loop that
\* prepares it or of the one delivery the model is speaking, which nobody else
\* can claim in between (_delivery_loop, task_tools_online.py:777-880; finish_delivery,
\* supervision.py:1556-1609).
ClaimsHeld == InHand /\ ClaimAccounted

\* A delivered or cancelled delivery stays so: a late acknowledgement or the
\* release of its claim does not bring it back.
SettledStays ==
    [][\A d \in Deliveries : record[d].state \in {"delivered", "cancelled"}
                               => record'[d].state = record[d].state]_record

Over(d) == record[d].state \in {"delivered", "cancelled"}
BoundReached == \E d \in Deliveries : record[d].attempts = MaxAttempts

\* While the session lasts, keeps its socket and is not muted, pending news is
\* delivered or withdrawn in the end. After a resume it may not be: a claim
\* whose event was lost with the socket stays in awaiting for good.
EventuallyHeard ==
    \A d \in Deliveries : record[d].state = "pending"
        ~> (Over(d) \/ muted \/ session = "ended" \/ drops > 0 \/ BoundReached)
=============================================================================
