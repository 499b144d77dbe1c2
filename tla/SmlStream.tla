----------------------------- MODULE SmlStream -----------------------------
(***************************************************************************)
(* SmlStreamParser of sml/parser.py at the end of a line on which a meter  *)
(* sends frames, some of them cut short, with noise between them.  The     *)
(* parser gets the bytes in chunks of any of some sizes.  What is sent is  *)
(* chosen before the first chunk: the parser cannot tell when a byte was   *)
(* sent, only in which chunk it comes.                                     *)
(***************************************************************************)
EXTENDS SmlCodec

CONSTANTS
    Readings,     \* what a meter may send
    CutReadings,  \* what may be cut short,
    CutLengths,   \* and after how many bytes
    Noises,       \* byte strings between frames
    Flood,        \* a noise longer than the buffer may become
    ChunkSizes,   \* how many bytes a read may return
    MaxBuffer,    \* max_buffer
    MaxSegments   \* frames and noises on the line (bound)

ASSUME StreamAssumption ==
    /\ Readings \subseteq MeterReadings /\ CutReadings \subseteq Readings
    /\ Noises \cup {Flood} \subseteq Seq(Byte)
    /\ ChunkSizes \subseteq Nat \ {0}
    /\ CutLengths \subseteq Nat /\ {MaxBuffer, MaxSegments} \subseteq Nat

VARIABLES
    verify,    \* verify_crc
    line,      \* bytes sent and not yet read
    read,      \* history: bytes read
    buffer,    \* _buffer
    results,   \* history: what feed has returned, by the frame it came from
    trimmed,   \* history: has feed cut the buffer back?
    segments,  \* frames and noises sent
    sent,      \* history: the result of each frame sent, and whether the frame
               \* is whole and cannot be hidden by what came before it
    open,      \* history: a frame has been cut short and none sent whole since
    hidden     \* history: what was sent last may hide the frame that follows

sending == <<line, segments, sent, open, hidden>>
vars == <<verify, sending, read, buffer, results, trimmed>>

\* The result a reading should give.
Expected(reading) ==
    LET number(v) == IF v = Null THEN <<>> ELSE <<v[2]>> IN
    [server |-> reading.server,
     values |-> [i \in DOMAIN reading.entries |->
        LET e == reading.entries[i] IN
        [code |-> IF Len(e.code) = 5 THEN Append(e.code, 255) ELSE e.code,
         status |-> number(e.status), time |-> number(e.time),
         unit |-> IF e.unit = Null THEN 255 ELSE e.unit[2], scaler |-> e.scaler, value |-> e.value]]]

Results == {Expected(r) : r \in Readings}

\* What the meter sends for a reading.
FrameOf == [r \in Readings |-> BuildMeterFrame(r)]

\* Every variable has its type.
StreamTypeOK ==
    /\ verify \in BOOLEAN
    /\ {line, read, buffer} \subseteq Seq(Byte)
    /\ segments \in 0..MaxSegments
    /\ {trimmed, open, hidden} \subseteq BOOLEAN
    /\ sent \in Seq([result : Results, clear : BOOLEAN])

Init ==
    /\ verify \in BOOLEAN
    /\ line = <<>> /\ segments = 0 /\ sent = <<>> /\ open = FALSE /\ hidden = FALSE
    /\ read = <<>> /\ buffer = <<>> /\ results = <<>> /\ trimmed = FALSE

-----------------------------------------------------------------------------
(* The line.                                                               *)

\* The line may get one more segment.
Sending == read = <<>> /\ segments < MaxSegments

\* It gets one, made of these bytes.
Send(bytes) ==
    /\ Sending
    /\ segments' = segments + 1
    /\ line' = line \o bytes
    /\ UNCHANGED <<verify, read, buffer, results, trimmed>>

SendWhole(reading) ==
    /\ Send(FrameOf[reading])
    /\ sent' = Append(sent, [result |-> Expected(reading), clear |-> ~hidden])
    /\ open' = FALSE
    /\ hidden' = FALSE

\* Only the first n bytes of a frame arrive.  The next start escape is not seen
\* if these end in the byte escapes are made of, or inside the end block, which
\* takes its missing bytes from whatever follows.
SendCut(reading, n) ==
    /\ Sending
    /\ LET frame == FrameOf[reading]
           inEndBlock == n >= Len(frame) - 3
       IN /\ n \in 1..(Len(frame) - 1)
          /\ Send(SubSeq(frame, 1, n))
          /\ open' = (open \/ n >= Len(Start))
          /\ hidden' = (hidden \/ inEndBlock \/ (open' /\ frame[n] = Escape[1]))
          /\ sent' = IF inEndBlock
                       THEN Append(sent, [result |-> Expected(reading), clear |-> FALSE])
                       ELSE sent

SendNoise(noise) ==
    /\ Send(noise)
    /\ hidden' = (hidden \/ (open /\ Last(noise) = Escape[1]))
    /\ UNCHANGED <<sent, open>>

-----------------------------------------------------------------------------
(* The parser.                                                             *)

From(s, i) == SubSeq(s, i, Len(s))

\* Where pattern begins in data, from i on.
Places(data, pattern, i) == {p \in i..Len(data) : At(data, p, pattern)}

\* The first such place, 0 if there is none.
Find(data, pattern, i) ==
    LET places == Places(data, pattern, i) IN IF places = {} THEN 0 ELSE Min(places)

\* The last place where pattern begins, 0 if there is none.
FindLast(data, pattern) ==
    LET places == Places(data, pattern, 1) IN IF places = {} THEN 0 ELSE Max(places)

\* Mistake: the checksum is not waited for.
EndBlockThereSoon(buf, esc) == esc + 5 <= Len(buf)

\* The end block whose escape is at esc has been received.
EndBlockThere(buf, esc) == esc + 7 <= Len(buf)

\* The outcomes of a scan.
Wait(rest) == [kind |-> "wait", rest |-> rest]
Rescan(rest) == [kind |-> "rescan", rest |-> rest]
Found(body, rest) == [kind |-> "frame", body |-> body, rest |-> rest]

Unpad(body, pad) == IF pad <= Len(body) THEN SubSeq(body, 1, Len(body) - pad) ELSE body

\* The frame in buf that ends with the end block at esc.
CloseFrame(buf, esc, check) ==
    IF check /\ ~At(buf, esc + 6, Crc16Sml(SubSeq(buf, 1, esc + 5)))
      THEN Found(<<>>, From(buf, esc + 8))
      ELSE Found(Unpad(Deframe(SubSeq(buf, Len(Start) + 1, esc - 1)), buf[esc + 5]),
                 From(buf, esc + 8))

\* The search for the end of the frame buf begins with.
ScanBody(buf, search, check) ==
    LET scan[i \in Nat \ {0}] ==
        LET esc == Find(buf, Escape, i) IN
        IF esc = 0 \/ esc + 4 > Len(buf) THEN Wait(buf)
        ELSE IF At(buf, esc, Start) THEN Rescan(From(buf, esc))
        ELSE IF At(buf, esc, Escape \o Escape) THEN scan[esc + 8]
        ELSE IF buf[esc + 4] # EndMarker THEN scan[esc + 4]
        ELSE IF EndBlockThere(buf, esc) THEN CloseFrame(buf, esc, check)
        ELSE Wait(buf)
    IN scan[search]

\* _scan_one
ScanOne(buf, check) ==
    LET start == Find(buf, Start, 1)
    IN IF start = 0 THEN Wait(buf) ELSE ScanBody(From(buf, start), Len(Start) + 1, check)

\* What one turn of the loop of feed makes of a scan and of all turns after it.
Taken(scan, after) ==
    IF scan.kind = "wait" THEN [buffer |-> scan.rest, results |-> <<>>]
    ELSE IF scan.kind = "rescan" THEN after
    ELSE [buffer |-> after.buffer, results |-> <<ExtractResults(scan.body)>> \o after.results]

\* The loop of feed, with _take_frame: what is left of buf, and the results of
\* each frame in it.
TakeFrames(buf, check) ==
    LET take[rest \in Seq(Byte)] ==
            LET scan == ScanOne(rest, check) IN Taken(scan, take[scan.rest])
    IN take[buf]

\* Mistake: the buffer is kept although its only escape is at its beginning.
TrimKeeping(buf) ==
    LET keep == FindLast(buf, Escape)
    IN IF Len(buf) <= MaxBuffer THEN buf ELSE IF keep > 0 THEN From(buf, keep) ELSE <<>>

\* The buffer is cut back to its last escape, or emptied.
Trim(buf) ==
    LET keep == FindLast(buf, Escape)
    IN IF Len(buf) <= MaxBuffer THEN buf ELSE IF keep > 1 THEN From(buf, keep) ELSE <<>>

\* What feed does with the frames it has taken, and with the rest.
Keep(taken) ==
    /\ results' = results \o taken.results
    /\ buffer' = Trim(taken.buffer)
    /\ trimmed' = (trimmed \/ buffer' # taken.buffer)

\* feed, with the next n bytes of the line or what there is.
Feed(n) ==
    LET size == IF n <= Len(line) THEN n ELSE Len(line)
        chunk == SubSeq(line, 1, size)
    IN /\ line # <<>>
       /\ line' = From(line, size + 1)
       /\ read' = read \o chunk
       /\ Keep(TakeFrames(buffer \o chunk, verify))
       /\ UNCHANGED <<verify, segments, sent, open, hidden>>

Next ==
    \/ \E r \in Readings : SendWhole(r)
    \/ \E r \in CutReadings, n \in CutLengths : SendCut(r, n)
    \/ \E noise \in Noises \cup {Flood} : SendNoise(noise)
    \/ \E n \in ChunkSizes : Feed(n)

Spec == Init /\ [][Next]_vars

-----------------------------------------------------------------------------
AllRead == line = <<>> /\ ~trimmed

\* Every frame that is sent whole comes out, decoded to what was measured and
\* in the order sent, and nothing else does, whatever came before it: noise,
\* a frame cut short, its end.  A frame that follows a cut which hides it, and
\* one cut inside its end block, may come out or not (sml/parser.py:208-301).
WholeFramesArrive ==
    AllRead =>
        \E shown \in SUBSET DOMAIN sent :
            /\ \A i \in DOMAIN sent \ shown : ~sent[i].clear
            /\ FlattenSeq(results) = FlattenSeq([i \in DOMAIN sent |->
                            IF i \in shown THEN <<sent[i].result>> ELSE <<>>])

\* However the bytes are split into chunks, the results are those of one chunk
\* with all of them (sml/parser.py:211-213).
ChunkingInvisible == AllRead => results = TakeFrames(read, verify).results

\* The buffer stays within its limit and one chunk, whatever the line brings
\* (sml/parser.py:236-240).
BufferBounded == \A n \in ChunkSizes : (\A k \in ChunkSizes : k <= n) => Len(buffer) <= MaxBuffer + n

\* What every frame that cannot be hidden arriving rests on: a reading names its
\* registers by object names, its status fits the eight bytes it is sent in, and
\* no noise looks like an escape or its end.
Readable(reading) ==
    \A i \in DOMAIN reading.entries :
        LET e == reading.entries[i] IN
        Len(e.code) \in {5, 6} /\ (e.status # Null => UintSize(e.status[2]) <= 8)
ReadableReadings == \A r \in Readings : Readable(r)
Dull(noise) ==
    /\ noise # <<>> /\ noise[1] \notin {1, 27}
    /\ \A p \in 1..Len(noise) : ~At(noise, p, Escape)
DullNoises == \A noise \in Noises \cup {Flood} : Dull(noise)
=============================================================================
