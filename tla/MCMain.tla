------------------------------- MODULE MCMain -------------------------------
(* Main with three devices and three properties, one of them protected and  *)
(* one that does not exist.                                                 *)
EXTENDS Main

Keys3 == 0..2
Given == [k \in Keys3 |-> IF k = 2 THEN Absent ELSE "old"]

Arguments == {Get(k) : k \in Keys3} \cup {Set(0, "a"), Set(0, "b"), Set(1, "a")}
ArgumentLists == UNION {[1..size -> Arguments] : size \in 0..3}

Line(d, m, a) == [dev |-> d, number |-> m, args |-> a]
Lines ==
    {NoArguments}
    \cup {Line("n", m, <<>>) : m \in -1..3}
    \cup {Line(d, NaN, <<>>) : d \in {"usb:003.1", "usb:009.9"}}
    \cup {Line("usb:003.1", NaN, a) : a \in ArgumentLists}
=============================================================================
