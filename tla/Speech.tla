------------------------------- MODULE Speech -------------------------------
(***************************************************************************)
(* The spoken output of a duplex session: the Thinker hands text to the    *)
(* Talker (DuplexLiveSession), a worker thread turns it into audio         *)
(* (AsyncTalkerWorker over DetachedTalkerRuntime), the pump of a           *)
(* connection moves the audio into that connection's outbox, and the       *)
(* outbox writes it to the socket.  Every cancellation opens a new         *)
(* generation; audio of an older one is stale.  A conversation reset       *)
(* builds a new session, with a new worker, under the same connection; a   *)
(* socket that drops leaves its pump behind until its detach has run.      *)
(***************************************************************************)
EXTENDS SpeechPromise

CONSTANTS
    MaxUnits,      \* units the Thinker speaks
    MaxEvents,     \* interruptions, resets and drops of the socket, together
    MaxChunks      \* audio chunks of one unit

\* Assumed by the module that instantiates this one.
SpeechAssumption == {MaxUnits, MaxEvents, MaxChunks} \subseteq Nat

Links == 1 .. MaxEvents + 1   \* connections that serve the session in turn
Nothing == [kind |-> "nothing"]

VARIABLES
    conn,      \* the current connection
    turn,      \* [open, renew]: _assistant_turn_open, _needs_new_output_generation
    shut,      \* whether the worker was closed without draining
    reqs,      \* the worker's queue of synthesis requests
    rgen,      \* _runtime_generation, 0 for None
    outs,      \* the worker's queue of outputs
    pump,      \* pump[c]: "off", "poll", "hold" or "drain"
    stop,      \* stop[c]: the stop event of the pump
    held,      \* held[c]: the outputs the pump has taken and not sent yet
    detach,    \* detach[c]: where detach_connection stands
    units,     \* units spoken so far, which also numbers them
    events     \* interruptions, resets and drops so far

speechVars == << phase, conn, sess, turn, gen, shut, reqs, job, rgen, cache,
                 outs, pump, stop, held, detach, box, units, events, told,
                 made, heard, lost >>

sessionVars == << phase, conn, sess, detach, units, events >>
outputVars  == << pump, stop, held, box, told, heard, lost >>

Audio(m) == m.kind \in {"chunk", "done", "error"}
Box(alive) == [alive |-> alive, floor |-> 0, model |-> << >>, audio |-> << >>]

Init ==
    /\ phase = "live" /\ conn = 1 /\ sess = 1
    /\ turn = [open |-> FALSE, renew |-> FALSE]
    /\ gen = 1 /\ shut = FALSE /\ reqs = << >> /\ job = Nothing
    /\ rgen = 0 /\ cache = NoCache /\ outs = << >>
    /\ pump = [c \in Links |-> IF c = 1 THEN "poll" ELSE "off"]
    /\ stop = [c \in Links |-> FALSE]
    /\ held = [c \in Links |-> << >>]
    /\ detach = [c \in Links |-> "none"]
    /\ box = [c \in Links |-> Box(c = 1)]
    /\ units = 0 /\ events = 0 /\ told = [c \in Links |-> 0]
    /\ made = {} /\ heard = {} /\ lost = {}

-----------------------------------------------------------------------------
(* The worker, seen from the session                                       *)

\* The cancel_event a request carries is set.
Cancelled(r) == r.gen < gen \/ shut

CancelEvent(g) == [kind |-> "cancel", sess |-> sess, gen |-> g, unit |-> 0,
                   part |-> 0]

\* AsyncTalkerWorker.cancel
Cancel ==
    /\ gen' = gen + 1
    /\ outs' = Append(outs, CancelEvent(gen + 1))

\* DuplexLiveSession.interrupt_output
InterruptOutput ==
    /\ Cancel
    /\ turn' = [open |-> FALSE, renew |-> FALSE]

\* _generate_event of a unit in which the model speaks.
Speak(final) ==
    /\ phase \in {"live", "draining"}
    /\ phase = "draining" => turn.open
    /\ units < MaxUnits
    /\ units' = units + 1
    /\ LET g == IF turn.renew THEN gen + 1 ELSE gen
       IN /\ gen' = g
          /\ outs' = IF turn.renew THEN Append(outs, CancelEvent(g)) ELSE outs
          /\ reqs' = Append(reqs, [gen |-> g, unit |-> units', final |-> final])
    /\ turn' = [open |-> ~final, renew |-> final]
    /\ UNCHANGED << phase, conn, sess, shut, job, rgen, cache, detach, events,
                    made >>
    /\ UNCHANGED outputVars

\* A unit in which the model interrupts itself, and the client's break,
\* which leaves the flags of the turn alone.
Interrupt ==
    /\ phase = "live" /\ events < MaxEvents
    /\ events' = events + 1
    /\ \/ InterruptOutput
       \/ Cancel /\ UNCHANGED turn
    /\ UNCHANGED << phase, conn, sess, shut, reqs, job, rgen, cache, detach,
                    units, made >>
    /\ UNCHANGED outputVars

-----------------------------------------------------------------------------
(* The worker thread: AsyncTalkerWorker._run and synthesize                *)

\* Mutant: the caches are not reset when the generation changes.
TakeKeepsCache ==
    /\ job = Nothing /\ reqs # << >>
    /\ reqs' = Tail(reqs)
    /\ LET r == Head(reqs) IN
       IF Cancelled(r)
       THEN UNCHANGED << job, rgen, cache >>
       ELSE /\ job' = [kind |-> "check", r |-> r, part |-> 0]
            /\ rgen' = r.gen
            /\ UNCHANGED cache
    /\ UNCHANGED << turn, gen, shut, outs, made >>
    /\ UNCHANGED sessionVars
    /\ UNCHANGED outputVars

Take ==
    /\ job = Nothing /\ reqs # << >>
    /\ reqs' = Tail(reqs)
    /\ LET r == Head(reqs) IN
       IF Cancelled(r)
       THEN UNCHANGED << job, rgen, cache >>
       ELSE /\ job' = [kind |-> "check", r |-> r, part |-> 0]
            /\ rgen' = r.gen
            /\ cache' = IF rgen # r.gen THEN NoCache ELSE cache
    /\ UNCHANGED << turn, gen, shut, outs, made >>
    /\ UNCHANGED sessionVars
    /\ UNCHANGED outputVars

\* SynthesisCancelled, at one of the checks of the event.
GiveUp ==
    /\ job.kind = "check" /\ Cancelled(job.r)
    /\ job' = Nothing /\ rgen' = 0 /\ cache' = NoCache
    /\ UNCHANGED << turn, gen, shut, reqs, outs, made >>
    /\ UNCHANGED sessionVars
    /\ UNCHANGED outputVars

\* What the Talker's caches hold once a request is spoken.
Kept(r) == IF r.final THEN NoCache ELSE << sess, r.gen >>

\* The last check before a chunk is put out, or before the caches are kept.
Check ==
    /\ job.kind = "check" /\ ~Cancelled(job.r)
    /\ \/ /\ job.part < MaxChunks
          /\ job' = [job EXCEPT !.kind = "put", !.part = @ + 1]
          /\ UNCHANGED cache
       \/ /\ job' = [job EXCEPT !.kind = "end"]
          /\ cache' = Kept(job.r)
    /\ UNCHANGED << turn, gen, shut, reqs, rgen, outs, made >>
    /\ UNCHANGED sessionVars
    /\ UNCHANGED outputVars

Output(kind) == [kind |-> kind, sess |-> sess, gen |-> job.r.gen,
                 unit |-> job.r.unit, part |-> job.part]

\* The chunk is put out, whatever became of its generation meanwhile; the
\* next one of the same codes follows without another check.
PutChunk ==
    /\ job.kind = "put"
    /\ outs' = Append(outs, Output("chunk"))
    /\ made' = made \cup {Output("chunk")}
    /\ job' \in {[job EXCEPT !.kind = "check"]} \cup
                {[job EXCEPT !.part = n] : n \in {job.part + 1} \cap 1 .. MaxChunks}
    /\ UNCHANGED << turn, gen, shut, reqs, rgen, cache >>
    /\ UNCHANGED sessionVars
    /\ UNCHANGED outputVars

Finish ==
    /\ job.kind = "end"
    /\ outs' = IF Cancelled(job.r) THEN outs ELSE Append(outs, Output("done"))
    /\ job' = Nothing
    /\ UNCHANGED << turn, gen, shut, reqs, rgen, cache, made >>
    /\ UNCHANGED sessionVars
    /\ UNCHANGED outputVars

\* The Talker fails: its positional context is exhausted, or the vocoder
\* raises.
Fail ==
    /\ job.kind = "check"
    /\ outs' = Append(outs, Output("error"))
    /\ job' = Nothing /\ rgen' = 0 /\ cache' = NoCache
    /\ UNCHANGED << turn, gen, shut, reqs, made >>
    /\ UNCHANGED sessionVars
    /\ UNCHANGED outputVars

-----------------------------------------------------------------------------
(* The pump of a connection and its outbox                                 *)

\* Mutant: a cancel overtakes the audio but does not raise the floor.
PushedNoFloor(b, m) ==
    IF m.kind \in {"cancel", "error"} THEN [b EXCEPT !.model = Append(@, m)]
    ELSE [b EXCEPT !.audio = Append(@, m)]

\* send_event: a cancel raises the floor when it is queued, and overtakes
\* the audio that is queued already.
Pushed(b, m) ==
    IF m.kind = "cancel"
    THEN [b EXCEPT !.floor = IF m.gen > @ THEN m.gen ELSE @,
                   !.model = Append(@, m)]
    ELSE IF m.kind = "error" THEN [b EXCEPT !.model = Append(@, m)]
         ELSE [b EXCEPT !.audio = Append(@, m)]

Chunks(s) == {m \in ToSet(s) : m.kind = "chunk"}

\* What the pump of a dropped connection takes is lost.
Taken(c, s) == lost' = IF box[c].alive THEN lost ELSE lost \cup Chunks(s)

Poll(c) ==
    /\ pump[c] = "poll" /\ outs # << >>
    /\ pump' = [pump EXCEPT ![c] = "hold"]
    /\ held' = [held EXCEPT ![c] = << Head(outs) >>]
    /\ outs' = Tail(outs)
    /\ Taken(c, << Head(outs) >>)
    /\ UNCHANGED << turn, gen, shut, reqs, job, rgen, cache, stop, box, told,
                    made, heard >>
    /\ UNCHANGED sessionVars

\* Mutant: a pump told to stop ends without what is buffered.
EndAtOnce(c) ==
    /\ held' = [held EXCEPT ![c] = << >>]
    /\ pump' = [pump EXCEPT ![c] = "off"]
    /\ UNCHANGED << outs, lost >>

\* drain_outputs: the pump takes what is buffered, sends it and ends.
TakeRest(c) ==
    /\ held' = [held EXCEPT ![c] = outs]
    /\ outs' = << >>
    /\ pump' = [pump EXCEPT ![c] = IF outs = << >> THEN "off" ELSE "drain"]
    /\ Taken(c, outs)

\* The pump is told to stop while nothing is polled.
Drain(c) ==
    /\ pump[c] = "poll" /\ stop[c]
    /\ TakeRest(c)
    /\ UNCHANGED << turn, gen, shut, reqs, job, rgen, cache, stop, box, told,
                    made, heard >>
    /\ UNCHANGED sessionVars

\* The next output is queued; once told to stop, the pump goes on with what
\* is buffered.  A dead outbox makes the pump fail.
Push(c) ==
    /\ pump[c] \in {"hold", "drain"}
    /\ \/ /\ ~box[c].alive
          /\ pump' = [pump EXCEPT ![c] = "off"]
          /\ held' = [held EXCEPT ![c] = << >>]
          /\ UNCHANGED << outs, lost, box >>
       \/ /\ box[c].alive
          /\ box' = [box EXCEPT ![c] = Pushed(@, Head(held[c]))]
          /\ \/ pump[c] = "hold" /\ stop[c] /\ TakeRest(c)
             \/ /\ ~(pump[c] = "hold" /\ stop[c])
                /\ held' = [held EXCEPT ![c] = Tail(@)]
                /\ pump' = [pump EXCEPT ![c] =
                              IF @ = "hold" THEN "poll"
                              ELSE IF Len(held[c]) = 1 THEN "off" ELSE "drain"]
                /\ UNCHANGED << outs, lost >>
    /\ UNCHANGED << turn, gen, shut, reqs, job, rgen, cache, stop, told, made,
                    heard >>
    /\ UNCHANGED sessionVars

\* What reaches the client through the socket.
Sent(c, m) ==
    /\ told' = CASE m.kind = "cancel" -> [told EXCEPT ![c] = m.gen]
                 [] m.kind = "reset.done" -> [told EXCEPT ![c] = 0]
                 [] OTHER -> told
    /\ heard' = IF m.kind = "chunk" THEN heard \cup {m} ELSE heard

\* _stale_audio
Stale(c, m) == Audio(m) /\ m.gen < box[c].floor

\* The writer takes the next entry, model events first, and discards stale
\* audio; it sends one entry at a time.
Write(c) ==
    /\ box[c].alive
    /\ LET urgent == box[c].model # << >>
           queue  == IF urgent THEN box[c].model ELSE box[c].audio
       IN /\ queue # << >>
          /\ box' = [box EXCEPT ![c].model = IF urgent THEN Tail(@) ELSE @,
                                ![c].audio = IF urgent THEN @ ELSE Tail(@)]
          /\ Sent(c, IF Stale(c, Head(queue)) THEN Nothing ELSE Head(queue))
    /\ UNCHANGED << turn, gen, shut, reqs, job, rgen, cache, outs, pump, stop,
                    held, made, lost >>
    /\ UNCHANGED sessionVars

-----------------------------------------------------------------------------
(* The handler of a connection                                             *)

\* The socket drops: the session is parked.
Drop ==
    /\ phase = "live" /\ events < MaxEvents
    /\ phase' = "parked" /\ events' = events + 1
    /\ box' = [box EXCEPT ![conn] = Box(FALSE)]
    /\ lost' = lost \cup Chunks(box[conn].audio \o held[conn])
    /\ detach' = [detach EXCEPT ![conn] = "begun"]
    /\ UNCHANGED << conn, sess, turn, gen, shut, reqs, job, rgen, cache, outs,
                    pump, stop, held, units, told, made, heard >>

\* detach_connection, in the grace timer of the dropped connection: it
\* interrupts whatever the session says by then, and stops its own pump.
Detach(c) ==
    /\ detach[c] = "begun" /\ ~shut
    /\ InterruptOutput
    /\ detach' = [detach EXCEPT ![c] = "over"]
    /\ stop' = [stop EXCEPT ![c] = TRUE]
    /\ UNCHANGED << phase, conn, sess, shut, reqs, job, rgen, cache, pump, held,
                    box, units, events, told, made, heard, lost >>

\* run_startup of a connection that resumes.
Resume ==
    /\ phase = "parked"
    /\ phase' = "live" /\ conn' = conn + 1
    /\ pump' = [pump EXCEPT ![conn'] = "poll"]
    /\ box' = [box EXCEPT ![conn'] = Box(TRUE)]
    /\ UNCHANGED << sess, turn, gen, shut, reqs, job, rgen, cache, outs, stop,
                    held, detach, units, events, told, made, heard, lost >>

\* reset: the output is interrupted and the pump told to stop.
Reset ==
    /\ phase = "live" /\ events < MaxEvents
    /\ events' = events + 1
    /\ InterruptOutput
    /\ stop' = [stop EXCEPT ![conn] = TRUE]
    /\ phase' = "resetting"
    /\ UNCHANGED << conn, sess, shut, reqs, job, rgen, cache, pump, held, detach,
                    box, units, told, made, heard, lost >>

\* The pump has drained: queued output is discarded and the session closed.
\* discard_pending leaves the floor of the outbox as it is.
CloseForReset ==
    /\ phase = "resetting" /\ pump[conn] = "off"
    /\ phase' = "closing" /\ shut' = TRUE
    /\ box' = [box EXCEPT ![conn].model = << >>, ![conn].audio = << >>]
    /\ UNCHANGED << conn, sess, turn, gen, reqs, job, rgen, cache, outs, pump,
                    stop, held, detach, units, events, told, made, heard, lost >>

\* The old worker has been joined: a new session, a new worker and a pump.
Reopen ==
    /\ phase = "closing" /\ job = Nothing /\ reqs = << >>
    /\ phase' = "live" /\ sess' = sess + 1
    /\ turn' = [open |-> FALSE, renew |-> FALSE]
    /\ gen' = 1 /\ shut' = FALSE /\ rgen' = 0 /\ outs' = << >>
    /\ pump' = [pump EXCEPT ![conn] = "poll"]
    /\ stop' = [stop EXCEPT ![conn] = FALSE]
    /\ box' = [box EXCEPT ![conn].model = Append(@,
                  [kind |-> "reset.done", sess |-> sess', gen |-> 1, unit |-> 0,
                   part |-> 0])]
    /\ UNCHANGED << conn, reqs, job, cache, held, detach, units, events, told,
                    made, heard, lost >>

\* stop: _drain lets the Thinker end its turn ...
Stop ==
    /\ phase = "live" /\ phase' = "draining"
    /\ UNCHANGED << conn, sess, turn, gen, shut, reqs, job, rgen, cache, outs,
                    detach, units, events, made >>
    /\ UNCHANGED outputVars

\* ... waits for the Talker, and closes the worker,
WaitForSpeech ==
    /\ phase = "draining"
    /\ turn.open => units = MaxUnits
    /\ reqs = << >> /\ job = Nothing
    /\ phase' = "stopping" /\ shut' = TRUE
    /\ stop' = [stop EXCEPT ![conn] = TRUE]
    /\ UNCHANGED << conn, sess, turn, gen, reqs, job, rgen, cache, outs, pump,
                    held, detach, box, units, events, told, made, heard, lost >>

\* the pump ends, and the outbox is written out before the farewell.
Farewell ==
    /\ phase = "stopping" /\ pump[conn] = "off"
    /\ box[conn].model = << >> /\ box[conn].audio = << >>
    /\ phase' = "done"
    /\ UNCHANGED << conn, sess, turn, gen, shut, reqs, job, rgen, cache, outs,
                    detach, units, events, made >>
    /\ UNCHANGED outputVars

Next ==
    \/ \E final \in BOOLEAN : Speak(final)
    \/ Interrupt \/ Take \/ GiveUp \/ Check \/ PutChunk \/ Finish \/ Fail
    \/ \E c \in Links : Poll(c) \/ Drain(c) \/ Push(c) \/ Write(c) \/ Detach(c)
    \/ Drop \/ Resume \/ Reset \/ CloseForReset \/ Reopen
    \/ Stop \/ WaitForSpeech \/ Farewell

Spec == Init /\ [][Next]_speechVars

-----------------------------------------------------------------------------
(* What is checked, with SpeechPromise                                     *)

\* All is heard after a conversation reset too, which drops "output queued
\* before" it (discard_pending, online_duplex.py:515).
ResetIsHeard == phase = "done" => AllIsHeard
=============================================================================
