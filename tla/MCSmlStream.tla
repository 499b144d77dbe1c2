---------------------------- MODULE MCSmlStream ----------------------------
(* A line on which a meter sends three kinds of readings.                  *)
EXTENDS SmlStream

Entry(code, value, unit, scaler, status, time) ==
    [code |-> code, value |-> value, unit |-> unit, scaler |-> scaler, status |-> status, time |-> time]

\* Plain: one register with two bytes, a scaler and a unit.
Plain == [server |-> <<1>>, entries |->
    << Entry(<<1, 0, 1, 8, 0, 255>>, <<"uint", 300>>, <<"uint", 30>>, -1, Null, Null) >>]

\* Escapes in the payload, more than one in a row, and before an end marker.
Escaped == [server |-> <<27, 27, 27, 27, 27, 26>>, entries |->
    << Entry(<<1, 0, 27, 7, 0>>, <<"int", -129>>, Null, 0, <<"uint", 27>>, Null) >>]

\* A string of fifteen bytes, whose length no longer fits one TL byte; the
\* start escape in the payload; a time; a text and a flag for values.
Long == [server |-> Start \o <<2, 3, 4, 5, 6, 7, 8>>, entries |->
    << Entry(<<1, 0, 96, 1, 0, 255>>, <<"octet", <<76>> >>, Null, 0, Null, <<"uint", 5>>),
       Entry(<<1, 0, 96, 2, 0, 255>>, <<"bool", TRUE>>, Null, 0, Null, Null) >>]

MCReadings == {Plain, Escaped, Long}
MCCutReadings == {Escaped}
\* In and after the start escape, in and after the escapes of the payload,
\* after a single byte of an escape, and everywhere in the end block.
MCCutLengths == {4, 8, 25, 30, 33, 51} \cup 65..71
MCNoises == {<<7>>, <<7, 27, 27>>}
MCFlood == [i \in 1..210 |-> 7]

\* The check value of the checksum (tests/test_crc.py:5).
ASSUME Crc16Sml(<<49, 50, 51, 52, 53, 54, 55, 56, 57>>) = <<110, 144>>

\* What the theorem about frames that arrive assumes of these values.
ASSUME ReadableReadings /\ DullNoises
=============================================================================
