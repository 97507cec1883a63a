------------------------------- MODULE Media -------------------------------
(***************************************************************************)
(* What the model hears and sees.  A browser sends its microphone as       *)
(* numbered frames on the duplex socket and the pictures it shares on      *)
(* /ws/screen.  The handler of the duplex socket gives each model unit the *)
(* time its first sample was captured (AudioCaptureTimeline), the session  *)
(* cuts the same bytes into units (Pcm16Chunker) and takes, for each, the  *)
(* picture of its moment from LatestScreenFrameBuffer.  A time is counted  *)
(* in samples.  The samples and the pictures are the times they were       *)
(* captured at.                                                            *)
(***************************************************************************)
EXTENDS MediaPromise, SequencesExt, FiniteSetsExt, SeqOrder

CONSTANTS
    UnitSamples,     \* samples of one model unit
    FrameSizes,      \* samples of one microphone frame
    ClientVideoMode, \* "omni" or "auto": what media.mode turns vision to
    MaxPending,      \* max_pending_frames of the screen buffer
    MinGap,          \* least time between two pictures kept for the worker
    MaxNow,          \* the clock stops here
    MaxShots,        \* pictures shared
    MaxChanges,      \* changes of mode, resets, drops and gaps, together
    MaxWire          \* messages on the socket

\* Assumed by the module that instantiates this one.
MediaAssumption ==
    /\ UnitSamples \in Nat \ {0}
    /\ FrameSizes \subseteq Nat \ {0}
    /\ ClientVideoMode \in {"omni", "auto"}
    /\ {MaxPending, MinGap} \subseteq Nat \ {0}
    /\ {MaxNow, MaxShots, MaxChanges, MaxWire} \subseteq Nat

VARIABLES
    now,        \* the clock of the capture
    wire,       \* messages of the duplex socket, oldest first
    header,     \* pending_audio_header, or NoHeader
    line,       \* the AudioCaptureTimeline of the connection
    parts,      \* parts of a frame still to be fed
    chunk,      \* the samples in the session's Pcm16Chunker
    mode,       \* config.media_mode of the session
    amode,      \* media_mode of the _ActiveSession
    pending,    \* published pictures, in the order of publication
    last,       \* _last of the screen buffer
    gate,       \* _last_accepted_ms of codex_frame_gate
    shots,      \* pictures on their way: [id, at, step]
    taken,      \* pictures captured so far
    kept,       \* pictures the coordinator remembers
    changes     \* changes of mode, resets, drops and gaps so far

mediaVars == << now, client, wire, at, header, line, parts, chunk, mode, amode,
                pending, last, gate, shots, taken, kept, unit, shown, changes,
                resumes >>
audioVars  == << header, line, parts, chunk, unit >>
screenVars == << gate, shots, taken, kept >>
modeVars   == << mode, amode >>
bufferVars == << pending, last, shown >>

NoHeader == [seq |-> 0, start |-> 0, size |-> 0, at |-> None]
NewLine == [seq |-> 1, sample |-> 0, unitStart |-> 0, origin |-> None]
Ended == {"failed", "done"}

Init ==
    /\ now = 0 /\ wire = << >> /\ at = "loop"
    /\ client \in [timed : BOOLEAN, seq : {0}, cap : {0}, paused : {FALSE}]
    /\ header = NoHeader /\ line = NewLine /\ parts = << >> /\ chunk = << >>
    /\ mode \in {"voice", ClientVideoMode} /\ amode = mode
    /\ pending = << >> /\ last = None /\ shown = << >>
    /\ gate = None /\ shots = {} /\ taken = 0 /\ kept = {}
    /\ unit = NoUnit /\ changes = 0 /\ resumes = 0

-----------------------------------------------------------------------------
(***************************************************************************)
(* The page.                                                               *)
(***************************************************************************)
Connected == at \notin Ended \union {"parked"} /\ ~ client.paused

Send(ms) ==
    /\ Len(wire) + Len(ms) <= MaxWire
    /\ wire' = wire \o ms

\* processMicFrame: a frame of n samples, headed when the server announced
\* the protocol.
Speak(n) ==
    LET pcm == [kind |-> "pcm", samples |-> [i \in 1 .. n |-> now + i - 1]]
        head == [kind |-> "header",
                 h |-> [seq |-> client.seq + 1, start |-> client.cap,
                        size |-> n, at |-> now]]
    IN /\ Connected /\ now + n <= MaxNow
       /\ now' = now + n
       /\ client' = [client EXCEPT !.cap = @ + n,
                                   !.seq = IF client.timed THEN @ + 1 ELSE @]
       /\ Send(IF client.timed THEN << head, pcm >> ELSE << pcm >>)
       /\ UNCHANGED << at, audioVars, modeVars, bufferVars, screenVars, changes,
                       resumes >>

\* A gap in the sound: a paused page drops its frames, a microphone is
\* suspended.
Gap ==
    /\ now < MaxNow /\ now' = now + 1
    /\ changes < MaxChanges /\ changes' = changes + 1
    /\ UNCHANGED << client, wire, at, audioVars, modeVars, bufferVars, screenVars, resumes >>

\* The buttons of the page: media.mode, reset (the page is silent until
\* reset.done) and stop.
Press(m) ==
    /\ Connected /\ changes < MaxChanges
    /\ Send(<< m >>)
    /\ changes' = changes + 1
    /\ client' = [client EXCEPT !.paused = m.kind \in {"reset", "stop"}]
    /\ UNCHANGED << now, at, audioVars, modeVars, bufferVars, screenVars, resumes >>

Buttons == [kind : {"reset", "stop"}]
           \union [kind : {"mode"}, video : BOOLEAN, known : BOOLEAN]

\* The connection breaks: some of what was sent never arrives.
Break(k) ==
    /\ Connected /\ changes < MaxChanges /\ k \in 0 .. Len(wire)
    /\ wire' = SubSeq(wire, 1, k) \o << [kind |-> "gone"] >>
    /\ client' = [client EXCEPT !.paused = TRUE]
    /\ changes' = changes + 1
    /\ UNCHANGED << now, at, audioVars, modeVars, bufferVars, screenVars, resumes >>

\* reconnectDuplex: the page keeps its counters, the handler of the new
\* connection has a new timeline, and the session is the one that was parked.
Resume ==
    /\ at = "parked"
    /\ at' = "loop"
    /\ header' = NoHeader /\ line' = NewLine /\ parts' = << >> /\ wire' = << >>
    /\ client' = [client EXCEPT !.paused = FALSE]
    /\ resumes' = resumes + 1
    /\ UNCHANGED << now, chunk, unit, modeVars, bufferVars, screenVars, changes >>

\* A picture is captured; it reaches the server when it is decoded.
Share ==
    /\ at \notin Ended /\ taken < MaxShots
    /\ taken' = taken + 1
    /\ shots' = shots \union {[id |-> taken + 1, at |-> now, step |-> "decode"]}
    /\ UNCHANGED << now, client, wire, at, audioVars, modeVars, bufferVars, gate,
                    kept, changes, resumes >>

-----------------------------------------------------------------------------
(***************************************************************************)
(* The timeline and the screen buffer.                                     *)
(***************************************************************************)
\* Mutant: the next unit begins with the next part, not inside this frame.
SplitPartLate(l, h, from, to) ==
    LET captured(s) == h.at + (s - h.start)
        begun == IF l.origin = None THEN captured(from) ELSE l.origin
        end == l.unitStart + UnitSamples
    IN IF end > to
         THEN [line |-> [l EXCEPT !.origin = begun], starts |-> << >>]
         ELSE [line |-> [l EXCEPT !.unitStart = end, !.origin = None],
               starts |-> << begun >>]

\* One part of AudioCaptureTimeline.split_frame, samples from .. to - 1 of a
\* frame headed h: when the unit ends in it, when did that unit begin?  A part
\* is no longer than a unit, so at most one unit ends in it.
SplitPart(l, h, from, to) ==
    LET captured(s) == h.at + (s - h.start)
        begun == IF l.origin = None /\ l.unitStart \in from .. to - 1
                   THEN captured(l.unitStart) ELSE l.origin
        end == l.unitStart + UnitSamples
    IN IF end > to
         THEN [line |-> [l EXCEPT !.origin = begun], starts |-> << >>]
         ELSE [line |-> [l EXCEPT !.unitStart = end,
                                  !.origin = IF end < h.start + h.size
                                               THEN captured(end) ELSE None],
               starts |-> << begun >>]

\* A message of n samples is cut in parts of a unit; the last may be shorter.
PartCount(n) == (n + UnitSamples - 1) \div UnitSamples
CutEnd(i, n) == IF i * UnitSamples < n THEN i * UnitSamples ELSE n
Part(samples, i) ==
    SubSeq(samples, (i - 1) * UnitSamples + 1, CutEnd(i, Len(samples)))

\* The line before the first part of a frame headed h, and after each.
Lines(h, n) ==
    LET after[i \in 0 .. PartCount(n)] ==
            IF i = 0 THEN [line |-> line, starts |-> << >>]
            ELSE SplitPart(after[i - 1].line, h, h.start + (i - 1) * UnitSamples,
                           h.start + CutEnd(i, n))
    IN after

Split(h, samples) ==
    LET n == Len(samples)
        after == Lines(h, n)
    IN [line |-> [after[PartCount(n)].line EXCEPT !.seq = @ + 1, !.sample = @ + n],
        parts |-> [i \in 1 .. PartCount(n) |->
                     [samples |-> Part(samples, i), named |-> TRUE,
                      starts |-> after[i].starts]]]

\* The parts of a message without a header: nothing is known of their time.
Unheaded(samples) ==
    [i \in 1 .. PartCount(Len(samples)) |->
       [samples |-> Part(samples, i), named |-> FALSE, starts |-> << None >>]]

\* consume_for_unit's candidate: the newest picture captured by then (the
\* last published for a unit without a time), None when there is none.
Candidate(start) ==
    LET eligible == { i \in DOMAIN pending : pending[i] <= start }
    IN CASE start = None /\ pending # << >> -> Last(pending)
         [] start # None /\ eligible # {}   -> Max({ pending[i] : i \in eligible })
         [] OTHER                           -> None

Left(start) ==
    IF start = None THEN << >>
    ELSE IF Candidate(start) = None THEN pending
    ELSE Only(pending, { p \in ToSet(pending) : p > start })

\* A unit without a new picture is shown the last one again in omni.
Again(start) ==
    IF mode = "omni" /\ (start = None \/ last <= start) THEN last ELSE None

\* Mutant: the newest picture wins over what was shown, whatever its time.
ChosenAny(start) ==
    LET new == Candidate(start)
    IN IF new # None THEN new ELSE Again(start)

\* A candidate older than the picture shown last is dropped.
Chosen(start) ==
    LET new == Candidate(start)
    IN IF new # None /\ new >= last THEN new ELSE Again(start)

\* _step for one unit of samples that began at start, as far as the handler
\* knows: _frames_for_unit, and the model.
Step(samples, start) ==
    /\ unit' = [first |-> samples[1], start |-> start]
    /\ IF mode = "voice"
         THEN UNCHANGED bufferVars
         ELSE LET p == Chosen(start)
              IN /\ pending' = Left(start)
                 /\ last' = IF p = None THEN last ELSE p
                 /\ shown' = IF p = None THEN shown
                             ELSE Append(shown, [picture |-> p, start |-> start])

ClearBuffer == pending' = << >> /\ last' = None /\ shown' = << >>
KeepScreen == UNCHANGED << screenVars, changes, resumes, now >>

-----------------------------------------------------------------------------
(***************************************************************************)
(* The handler of the duplex socket, one message at a time.                *)
(***************************************************************************)
Take(kind) == at = "loop" /\ wire # << >> /\ Head(wire).kind = kind /\ wire' = Tail(wire)

\* audio.frame: the header of the binary message that follows.  A second
\* header in a row is refused and the first is kept.
TakeHeader ==
    /\ Take("header")
    /\ header' = IF header = NoHeader THEN Head(wire).h ELSE header
    /\ UNCHANGED << client, at, line, parts, chunk, unit, modeVars, bufferVars >>
    /\ KeepScreen

\* split_frame takes the frames in order only, and wants to know when each
\* unit began; what it raises ends the session, which is not held.
InOrder(h, samples) ==
    h.size = Len(samples) /\ h.seq = line.seq /\ h.start = line.sample

Fail ==
    /\ at' = "failed" /\ parts' = << >> /\ chunk' = << >>
    /\ ClearBuffer
    /\ UNCHANGED << header, line, unit, modeVars >>

TakePcm ==
    /\ Take("pcm")
    /\ LET samples == Head(wire).samples
       IN IF header = NoHeader
            THEN /\ parts' = Unheaded(samples) /\ at' = "parts"
                 /\ UNCHANGED << header, line, chunk, unit, modeVars, bufferVars >>
            ELSE IF InOrder(header, samples)
            THEN LET cut == Split(header, samples)
                     lost == \E i \in DOMAIN cut.parts : cut.parts[i].starts = << None >>
                 IN IF lost
                      THEN Fail
                      ELSE /\ line' = cut.line /\ parts' = cut.parts /\ at' = "parts"
                           /\ header' = NoHeader
                           /\ UNCHANGED << chunk, unit, modeVars, bufferVars >>
            ELSE Fail
    /\ UNCHANGED client
    /\ KeepScreen

\* feed_pcm16 of one part: the chunker gives a unit when it has one, and the
\* handler must have named as many beginnings as there are units.
FeedPart ==
    /\ at = "parts" /\ parts # << >>
    /\ LET part == Head(parts)
           all == chunk \o part.samples
           full == Len(all) >= UnitSamples
       IN IF part.named /\ (Len(part.starts) = 1) # full
            THEN Fail
            ELSE /\ chunk' = IF full THEN SubSeq(all, UnitSamples + 1, Len(all)) ELSE all
                 /\ parts' = Tail(parts)
                 /\ IF full
                      THEN Step(SubSeq(all, 1, UnitSamples), part.starts[1])
                      ELSE UNCHANGED << unit, bufferVars >>
                 /\ at' = IF Len(parts) = 1 THEN "loop" ELSE "parts"
                 /\ UNCHANGED << header, line, modeVars >>
    /\ UNCHANGED << client, wire >>
    /\ KeepScreen

\* media.mode: _reject_media_mode, then set_media_mode in a thread, then the
\* mode of the _ActiveSession, which the screen handler reads.
TakeMode ==
    LET m == Head(wire)
        target == IF m.video THEN ClientVideoMode ELSE "voice"
    IN /\ Take("mode")
       /\ IF m.video /\ ~ m.known
            THEN UNCHANGED << at, mode, bufferVars >>
            ELSE /\ at' = "mode" /\ mode' = target
                 /\ IF target = mode THEN UNCHANGED bufferVars ELSE ClearBuffer
       /\ UNCHANGED << client, audioVars, amode >>
       /\ KeepScreen

ModeDone ==
    /\ at = "mode" /\ at' = "loop" /\ amode' = mode
    /\ UNCHANGED << client, wire, audioVars, mode, bufferVars >>
    /\ KeepScreen

\* reset: the timeline starts over, the screen buffer is cleared and shared
\* with the session that replaces this one.
TakeReset ==
    /\ Take("reset")
    /\ at' = "resetting"
    /\ header' = NoHeader /\ line' = NewLine
    /\ ClearBuffer
    /\ kept' = {}
    /\ UNCHANGED << client, parts, chunk, unit, modeVars, gate, shots, taken,
                    changes, resumes, now >>

ResetDone ==
    /\ at = "resetting" /\ at' = "loop"
    /\ chunk' = << >> /\ unit' = NoUnit
    /\ mode' = amode
    /\ client' = [client EXCEPT !.seq = 0, !.cap = 0, !.paused = FALSE]
    /\ UNCHANGED << wire, header, line, parts, amode, bufferVars >>
    /\ KeepScreen

\* stop: _drain gives the model the incomplete unit, padded, then silence
\* without a time, and closes the session.
TakeStop ==
    /\ Take("stop")
    /\ IF chunk = << >>
         THEN UNCHANGED << unit, bufferVars >>
         ELSE Step(chunk, line.origin)
    /\ chunk' = << >> /\ at' = "done"
    /\ UNCHANGED << client, header, line, parts, modeVars >>
    /\ KeepScreen

\* The drop of the socket, seen when it is read or when an event is sent.
TakeGone ==
    /\ \/ Take("gone")
       \/ /\ at = "parts" /\ client.paused /\ wire # << >> /\ Last(wire).kind = "gone"
          /\ wire' = << >>
    /\ at' = "parked" /\ parts' = << >>
    /\ UNCHANGED << client, header, line, chunk, unit, modeVars, bufferVars >>
    /\ KeepScreen

-----------------------------------------------------------------------------
(***************************************************************************)
(* The handler of /ws/screen: a picture is decoded in a thread, published, *)
(* and, when it is far enough from the last one, written to disk and       *)
(* remembered for the worker.  Two channels of one page may be open.       *)
(***************************************************************************)
OnlyScreen == UNCHANGED << now, client, wire, at, audioVars, modeVars, taken, changes,
                           resumes >>

Publish(p) ==
    LET all == Append(pending, p)
    IN IF Len(all) > MaxPending THEN Tail(all) ELSE all

Accepted(p) == gate = None \/ p - gate >= MinGap

Decoded(s) ==
    /\ s.step = "decode"
    /\ IF at \in Ended \/ amode = "voice"
         THEN shots' = shots \ {s} /\ UNCHANGED << gate, pending >>
         ELSE /\ pending' = Publish(s.at)
              /\ gate' = IF Accepted(s.at) THEN s.at ELSE gate
              /\ shots' = IF Accepted(s.at)
                            THEN (shots \ {s}) \union {[s EXCEPT !.step = "persist"]}
                            ELSE shots \ {s}
    /\ UNCHANGED << last, shown, kept >>
    /\ OnlyScreen

\* A picture that cannot be decoded is reported and dropped.
Undecodable(s) ==
    /\ s.step = "decode"
    /\ shots' = shots \ {s}
    /\ UNCHANGED << gate, kept, bufferVars >>
    /\ OnlyScreen

\* The coordinator is gone while a reset replaces it.
Persisted(s) ==
    /\ s.step = "persist"
    /\ shots' = shots \ {s}
    /\ kept' = IF at \in Ended \union {"resetting"} THEN kept
               ELSE kept \union {s.at}
    /\ UNCHANGED << gate, bufferVars >>
    /\ OnlyScreen

-----------------------------------------------------------------------------
Next ==
    \/ \E n \in FrameSizes : Speak(n)
    \/ Gap
    \/ \E m \in Buttons : Press(m)
    \/ \E k \in 0 .. MaxWire : Break(k)
    \/ Resume
    \/ Share
    \/ TakeHeader \/ TakePcm \/ FeedPart
    \/ TakeMode \/ ModeDone
    \/ TakeReset \/ ResetDone
    \/ TakeStop \/ TakeGone
    \/ \E s \in shots : Decoded(s) \/ Undecodable(s) \/ Persisted(s)

Spec == Init /\ [][Next]_mediaVars
\* A page that comes back to its parked session is heard: "Only the connection
\* is new, so nothing is reloaded and the conversation carries on where it left
\* off" (online_duplex.py:1373-1375).
ResumedIsHeard == at # "failed"
=============================================================================
