------------------------------- MODULE MCBRCode -------------------------------
(* Requests at the edges of each field, one field at a time, and every length *)
(* of description against every length of key.                                *)
EXTENDS BRCode

Base ==
    [original |-> <<49, 48, Dot, 48, 48>>, key |-> Times(5, 107), description |-> <<>>,
     name |-> <<>>, city |-> <<>>, txid |-> Times(26, 120)]

Wholes == {Times(n, 57) : n \in 0..11} \cup {<<49>> \o Times(n, 48) : n \in 0..10}
          \cup {Times(n, 48) \o <<55>> : n \in 0..10} \cup {<<45, 49>>}
Cents == {<<>>, <<53>>, <<48, 48>>, <<48, 53>>, <<53, 48>>, <<57, 57>>, <<48, 48, 49>>, <<43, 49>>}

Originals ==
    {w \o <<Dot>> \o f : w \in Wholes, f \in Cents} \cup {<<49, 48>>}
    \cup {<<49, Dot, 48, 48, Dot, 48, 48>>}

\* Letters of one byte, then one of two bytes, and so on.
Described(n, start) == [i \in 1..n |-> IF i < start THEN 97 ELSE IF (i - start) % 2 = 0 THEN 195 ELSE 163]

Names ==
    UNION {[1..n -> {97, 66, 195, 33, Space}] : n \in 0..3}
    \cup {Times(n, 97) \o <<Space>> \o Times(4, 98) : n \in 13..26}

MCRequest ==
    {[Base EXCEPT !.original = o] : o \in Originals}
    \cup {[Base EXCEPT !.key = Times(k, 48)] : k \in 0..79}
    \cup {[Base EXCEPT !.key = Times(k, 107), !.description = Described(n, s)] :
             k \in {1, 2, 36}, n \in {1, 2, 36, 37, 38, 39, 70, 71, 72, 73, 74, 140}, s \in {1, 2}}
    \cup {[Base EXCEPT !.name = m, !.city = m] : m \in Names}
    \cup {[Base EXCEPT !.txid = Times(n, 84)] : n \in 0..35}

\* The published check value of the CRC, 0x29B1 for "123456789" (emv_test.go).
ASSUME CheckValue == CRC16([i \in 1..9 |-> 48 + i]) = {0, 4, 5, 7, 8, 11, 13}

\* Every character of one code is read as each other byte, and every two neighbours
\* of two codes are swapped.
MCNext ==
    \/ Smudge /\ request.key = Times(36, 48)
    \/ Swap /\ request.key \in {Times(36, 48), Times(77, 48)}

MCSpec == Init /\ [][MCNext]_codecVars
=============================================================================
