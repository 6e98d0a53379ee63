----------------------------- MODULE MCRecords ------------------------------
(* Values at the ends of each width, and texts of no byte, of one, and of   *)
(* so many that two bytes of their type are not zero.                       *)
EXTENDS Records

LongText == [i \in 1 .. 60 |-> (i * 37) % 256]

MCValues ==
    {NullValue}
      \cup {IntValue("int8", n) : n \in {-128, -1, 127}}
      \cup {IntValue("int16", n) : n \in {-32768, 255}}
      \cup {IntValue("int32", n) : n \in {-2147483647 - 1, -65536, 16777217}}
      \cup {TextValue(chars) : chars \in {<<>>, <<200>>, LongText}}
=============================================================================
