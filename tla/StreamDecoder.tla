---------------------------- MODULE StreamDecoder ----------------------------
(***************************************************************************)
(* protocol.rs: CotStreamDecoder, as read_events drives it. A peer's bytes *)
(* arrive in chunks of any size; push appends each chunk to the buffer and *)
(* takes the complete frames out of it, one per turn of its loop. A push   *)
(* that fails ends the session, and the frames it had decoded are lost.    *)
(*                                                                         *)
(* The markers <event and </event> are parameters: what is said of frames  *)
(* holds for any two, if the end marker is not the shorter one.            *)
(***************************************************************************)
EXTENDS Naturals, Sequences, FiniteSetsExt

CONSTANTS
    Byte,           \* u8
    StartMark,      \* <event
    EndMark,        \* </event>
    Malformed,      \* a byte that makes a frame invalid XML
    MaxEvent,       \* max_event_bytes
    Streams         \* what the peer may send

ASSUME DecoderAssumption ==
    /\ StartMark \in Seq(Byte) /\ EndMark \in Seq(Byte)
    /\ 0 < Len(StartMark) /\ Len(StartMark) <= Len(EndMark)
    /\ MaxEvent \in Nat
    /\ Streams \subseteq Seq(Byte)

VARIABLES
    stream,     \* all that the peer sends
    taken,      \* how much of it was read from the socket
    before,     \* how much of it before the present push
    buffer,     \* CotStreamDecoder.buffer
    events,     \* frames decoded by the present push
    received,   \* frames the reader has counted
    push        \* "idle", "scanning", or "failed": push returned an Err

vars == <<stream, taken, before, buffer, events, received, push>>

Init ==
    /\ stream \in Streams
    /\ taken = 0 /\ before = 0
    /\ buffer = << >> /\ events = << >> /\ received = << >>
    /\ push = "idle"

-----------------------------------------------------------------------------
(* windows(n).position(..) *)

Places(mark, s) == {i \in 1..(Len(s) + 1 - Len(mark)) : SubSeq(s, i, i + Len(mark) - 1) = mark}

Drop(s, n) == SubSeq(s, n + 1, Len(s))

Starts == Places(StartMark, buffer)

\* Where the first complete frame ends, if the buffer begins with one.
Ends == {i + Len(EndMark) - 1 : i \in Places(EndMark, buffer)}

\* validate_xml
Valid(frame) == \A i \in DOMAIN frame : frame[i] # Malformed

AtFrame == push = "scanning" /\ 1 \in Starts

\* The socket yields some bytes, which are pushed.
Read ==
    /\ push = "idle" /\ taken < Len(stream)
    /\ push' = "scanning"
    /\ \E n \in 1..(Len(stream) - taken) :
        /\ buffer' = buffer \o SubSeq(stream, taken + 1, taken + n)
        /\ taken' = taken + n
    /\ before' = taken
    /\ UNCHANGED <<stream, events, received>>

\* push returns Ok: the reader counts its events.
Yield ==
    /\ push' = "idle"
    /\ received' = received \o events
    /\ events' = << >>

\* push returns Err, and what it had decoded is dropped.
Fail ==
    /\ push' = "failed"
    /\ events' = << >>
    /\ UNCHANGED received

\* (slip: a preamble is stepped over, but stays in the buffer)
SkipNothing ==
    /\ push = "scanning" /\ Starts # {} /\ 1 \notin Starts
    /\ UNCHANGED vars

\* What is before the first marker is no part of an event.
SkipPreamble ==
    /\ push = "scanning" /\ Starts # {} /\ 1 \notin Starts
    /\ buffer' = Drop(buffer, Min(Starts) - 1)
    /\ UNCHANGED <<stream, taken, before, events, received, push>>

\* (slip: a preamble is dropped whole, with the beginning of a split marker)
KeepNothing ==
    /\ push = "scanning" /\ Starts = {}
    /\ buffer' = << >>
    /\ Yield
    /\ UNCHANGED <<stream, taken, before>>

\* No marker: its beginning may still be at the end of the buffer.
KeepTail ==
    /\ push = "scanning" /\ Starts = {}
    /\ buffer' = Drop(buffer, IF Len(buffer) > Len(StartMark) - 1
                              THEN Len(buffer) - (Len(StartMark) - 1) ELSE 0)
    /\ Yield
    /\ UNCHANGED <<stream, taken, before>>

\* (slip: only complete frames are held against the limit)
AwaitEndAlways ==
    /\ AtFrame /\ Ends = {}
    /\ Yield
    /\ UNCHANGED <<stream, taken, before, buffer>>

\* A frame without its end waits for more, unless it is too long already.
AwaitEnd ==
    /\ AtFrame /\ Ends = {}
    /\ IF Len(buffer) > MaxEvent THEN Fail ELSE Yield
    /\ UNCHANGED <<stream, taken, before, buffer>>

Frame == SubSeq(buffer, 1, Min(Ends))

\* (slip: a failing push hands over what it had decoded, as if it could return both)
TakeDelivering ==
    /\ AtFrame /\ Ends # {}
    /\ buffer' = Drop(buffer, Len(Frame))
    /\ IF Len(Frame) > MaxEvent \/ ~Valid(Frame)
       THEN push' = "failed" /\ received' = received \o events /\ UNCHANGED events
       ELSE /\ events' = Append(events, Frame)
            /\ UNCHANGED <<push, received>>
    /\ UNCHANGED <<stream, taken, before>>

\* A complete frame leaves the buffer; too long or malformed, it fails the push.
TakeFrame ==
    /\ AtFrame /\ Ends # {}
    /\ buffer' = Drop(buffer, Len(Frame))
    /\ IF Len(Frame) > MaxEvent \/ ~Valid(Frame)
       THEN Fail
       ELSE /\ events' = Append(events, Frame)
            /\ UNCHANGED <<push, received>>
    /\ UNCHANGED <<stream, taken, before>>

Scan == SkipPreamble \/ KeepTail \/ AwaitEnd \/ TakeFrame

Terminated == (push = "failed" \/ (push = "idle" /\ taken = Len(stream))) /\ UNCHANGED vars

Next == Read \/ Scan \/ Terminated

\* push is a loop without an await.
Fairness == WF_vars(Scan)

Safety == Init /\ [][Next]_vars

Spec == Safety /\ Fairness

-----------------------------------------------------------------------------
(* What the stream contains, however it is cut. *)

\* Where a marker begins next after position i; past the stream if nowhere.
Following(mark, i) == Min({x \in Places(mark, stream) : x > i} \cup {Len(stream) + 1})

\* The next frame after position i, from a start marker to the first end marker
\* that begins there or later, as <<first, last>>; without one, last is past the stream.
NextFrame(i) ==
    LET first == Following(StartMark, i)
    IN  <<first, Following(EndMark, first - 1) + Len(EndMark) - 1>>

\* The frames of the stream by their number.
Framing[k \in 0..Len(stream)] ==
    IF k = 0 THEN <<0, 0>> ELSE NextFrame(Framing[k - 1][2])

Content(k) == SubSeq(stream, Framing[k][1], Framing[k][2])

\* The frames that are complete in the first t bytes.
FramesBy(t) == [k \in {j \in 1..Len(stream) : Framing[j][2] <= t} |-> Content(k)]

\* A frame that cannot be accepted once t bytes are there: it is complete and
\* malformed, or begun and its byte MaxEvent + 1 is among them.
Bad(k, t) ==
    LET first == Framing[k][1]
        last  == Framing[k][2]
    IN  \/ last <= t /\ ~Valid(Content(k))
        \/ /\ first + Len(StartMark) - 1 <= t
           /\ first + MaxEvent <= last /\ first + MaxEvent <= t

BadBy(t) == \E k \in 1..Len(stream) : Bad(k, t)

-----------------------------------------------------------------------------
\* Between pushes the reader has received exactly the frames of what has arrived,
\* wherever the reads cut the stream and whatever is between the frames.
CutsDoNotMatter ==
    push = "idle" => ~BadBy(taken) /\ received = FramesBy(taken)

\* A push fails only for a frame that no cut could have made acceptable, and the
\* loss is what it had decoded itself: the frames of earlier pushes stay received.
FailureLosesOnePush ==
    push = "failed" => BadBy(taken) /\ received = FramesBy(before)

\* However long a peer goes on without ending a frame, the decoder keeps at most
\* one frame of the allowed size, or the beginning of a marker.
BufferBounded ==
    push = "idle" => Len(buffer) <= MaxEvent \/ Len(buffer) < Len(StartMark)

\* A push returns.
PushReturns == push = "scanning" ~> push # "scanning"
===============================================================================
