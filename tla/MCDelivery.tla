----------------------------- MODULE MCDelivery -----------------------------
(***************************************************************************)
(* One meter with two mapped readings.  Two decimals and four digits stand *)
(* for ten and 28, doubles of six bits for those of 53, and a factor of    *)
(* ten for the thousand of the kilo units, so that rounding, a number that *)
(* is too long and one that no double is happen with small integers.       *)
(***************************************************************************)
EXTENDS Delivery, TLC

CONSTANTS e1, e2, d1, t1, t2

MCUnitOptions ==
    [Wh |-> << [label |-> "kWh", power |-> -1], [label |-> "Wh", power |-> 0] >>,
     none |-> << [label |-> "", power |-> 0] >>]

Maps(obis, topic, enabled, unit) ==
    [obis |-> obis, topic |-> topic, enabled |-> enabled, unit |-> unit]

\* The second configuration maps one code twice: what the page shows in kWh is
\* published in Wh.
MCMappings ==
    e1 :> << Maps("total", t1, TRUE, "Wh") >> @@
    e2 :> << Maps("total", t2, TRUE, "Wh"), Maps("id", t1, TRUE, NoLabel),
             Maps("total", t2, FALSE, NoLabel) >> @@
    d1 :> << >>

\* Readings of a register: 26.05 Wh, which is no double and a half of a last
\* place in kWh; -0.015 Wh, a half below zero; 260 Wh, too long in Wh only.
\* A status word that is too long in any unit, and a text.
Imported == Numeric("total", 2605, -2, "Wh")
Exported == Numeric("total", -15, -3, "Wh")
Large == Numeric("total", 2600, -1, "Wh")
Word == Numeric("word", 100, 0, "none")
Id == Octets("id", 7, "none")
MCValues == {Imported, Exported, Large, Word, Id}
MCChunks == { << <<Imported, Id>> >>, << <<Exported, Word, Id>>, <<Imported>> >>, << <<Large>> >> }
=============================================================================
