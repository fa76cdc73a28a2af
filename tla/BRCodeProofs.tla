----------------------------- MODULE BRCodeProofs -----------------------------
(***************************************************************************)
(* For every request, of texts of any length: what the code of a charge    *)
(* carries to its reader, and what its CRC tells of any character changed  *)
(* and any two neighbours swapped.                                         *)
(***************************************************************************)
EXTENDS BRCode, SequenceTheorems, WellFoundedInduction, TLAPS

-----------------------------------------------------------------------------
(***************************************************************************)
(* The register. A clock is linear and one to one, and eight of them move  *)
(* eight bits out.                                                         *)
(***************************************************************************)
Reg == SUBSET (0..15)

Eight(c) == Twice(Twice(Twice(Twice(c))))

High(byte) == {b + 8 : b \in Bits(byte)}

\* One clock, bit by bit: the shift, and the bits of the polynomial when one falls out.
LEMMA ClockBits ==
    ASSUME NEW c \in Reg
    PROVE  /\ Clocked(c) \in Reg
           /\ 0 \in Clocked(c) <=> 15 \in c
           /\ 1 \in Clocked(c) <=> 0 \in c
           /\ 2 \in Clocked(c) <=> 1 \in c
           /\ 3 \in Clocked(c) <=> 2 \in c
           /\ 4 \in Clocked(c) <=> 3 \in c
           /\ 5 \in Clocked(c) <=> ~(4 \in c <=> 15 \in c)
           /\ 6 \in Clocked(c) <=> 5 \in c
           /\ 7 \in Clocked(c) <=> 6 \in c
           /\ 8 \in Clocked(c) <=> 7 \in c
           /\ 9 \in Clocked(c) <=> 8 \in c
           /\ 10 \in Clocked(c) <=> 9 \in c
           /\ 11 \in Clocked(c) <=> 10 \in c
           /\ 12 \in Clocked(c) <=> ~(11 \in c <=> 15 \in c)
           /\ 13 \in Clocked(c) <=> 12 \in c
           /\ 14 \in Clocked(c) <=> 13 \in c
           /\ 15 \in Clocked(c) <=> 14 \in c
    <1>1. Shifted(c) \in Reg /\ 0 \notin Shifted(c) /\ \A b \in 1..15 : b \in Shifted(c) <=> b - 1 \in c
        BY DEF Reg, Shifted
    <1>2. CASE 15 \notin c
        BY <1>1, <1>2 DEF Clocked, Reg
    <1>3. CASE 15 \in c
        <2> DEFINE s == Shifted(c)
        <2>1. /\ Clocked(c) \in Reg
              /\ \A b \in 0..15 : b \in Clocked(c) <=> ~(b \in s <=> b \in Polynomial)
            BY <1>1, <1>3 DEF Clocked, Xor, Polynomial, Reg
        <2> HIDE DEF s
        <2>2. s \in Reg /\ 0 \notin s /\ \A b \in 1..15 : b \in s <=> b - 1 \in c
            BY <1>1 DEF s
        <2> QED
            BY <1>3, <2>1, <2>2 DEF Polynomial
    <1> QED
        BY <1>2, <1>3

LEMMA RegEqual ==
    ASSUME NEW c \in Reg, NEW d \in Reg,
           0 \in c <=> 0 \in d, 1 \in c <=> 1 \in d, 2 \in c <=> 2 \in d, 3 \in c <=> 3 \in d,
           4 \in c <=> 4 \in d, 5 \in c <=> 5 \in d, 6 \in c <=> 6 \in d, 7 \in c <=> 7 \in d,
           8 \in c <=> 8 \in d, 9 \in c <=> 9 \in d, 10 \in c <=> 10 \in d, 11 \in c <=> 11 \in d,
           12 \in c <=> 12 \in d, 13 \in c <=> 13 \in d, 14 \in c <=> 14 \in d, 15 \in c <=> 15 \in d
    PROVE  c = d
    <1>1. \A b \in 0..15 : b \in c <=> b \in d
        OBVIOUS
    <1> QED
        BY <1>1 DEF Reg

\* No clock forgets: two registers stay two.
LEMMA ClockInjective ==
    ASSUME NEW c \in Reg, NEW d \in Reg, Clocked(c) = Clocked(d)
    PROVE  c = d
    BY ClockBits, RegEqual

\* A clock of a difference is the difference of the clocks.
LEMMA ClockLinear ==
    ASSUME NEW c \in Reg, NEW d \in Reg
    PROVE  Xor(c, d) \in Reg /\ Clocked(Xor(c, d)) = Xor(Clocked(c), Clocked(d))
    <1>1. Xor(c, d) \in Reg
        BY DEF Xor, Reg
    <1>2. Clocked(c) \in Reg /\ Clocked(d) \in Reg /\ Clocked(Xor(c, d)) \in Reg
        BY <1>1, ClockBits
    <1>3. Xor(Clocked(c), Clocked(d)) \in Reg
        BY <1>2 DEF Xor, Reg
    <1>4. \A b : /\ b \in Xor(c, d) <=> ~(b \in c <=> b \in d)
                 /\ b \in Xor(Clocked(c), Clocked(d)) <=> ~(b \in Clocked(c) <=> b \in Clocked(d))
        BY DEF Xor
    <1>5. \A b \in 0..15 : b \in Clocked(Xor(c, d)) <=> b \in Xor(Clocked(c), Clocked(d))
        <2> DEFINE x == Xor(c, d)
        <2>1. x \in Reg /\ \A b : b \in x <=> ~(b \in c <=> b \in d)
            BY <1>1, <1>4
        <2> HIDE DEF x
        <2> SUFFICES ASSUME NEW b \in 0..15
                     PROVE  b \in Clocked(x) <=> ~(b \in Clocked(c) <=> b \in Clocked(d))
            BY <1>4 DEF x
        <2> QED
            BY <2>1, ClockBits
    <1> QED
        BY <1>1, <1>2, <1>3, <1>5 DEF Reg

\* Eight clocks move eight bits out: what is left of the lower byte is gone.
LEMMA NoByteStays ==
    ASSUME NEW c0 \in Reg, c0 \subseteq 8..15, Eight(c0) = c0
    PROVE  c0 = {}
    <1> DEFINE c1 == Clocked(c0)
               c2 == Clocked(c1)
               c3 == Clocked(c2)
               c4 == Clocked(c3)
               c5 == Clocked(c4)
               c6 == Clocked(c5)
               c7 == Clocked(c6)
               c8 == Clocked(c7)
    <1>1. c8 = c0
        BY DEF Eight, Twice
    <1>2. /\ c1 = Clocked(c0) /\ c2 = Clocked(c1) /\ c3 = Clocked(c2) /\ c4 = Clocked(c3)
          /\ c5 = Clocked(c4) /\ c6 = Clocked(c5) /\ c7 = Clocked(c6) /\ c8 = Clocked(c7)
        OBVIOUS
    <1> HIDE DEF c1, c2, c3, c4, c5, c6, c7, c8
    <1>3. c1 \in Reg /\ c2 \in Reg /\ c3 \in Reg /\ c4 \in Reg
        BY <1>2, ClockBits
    <1>4. c5 \in Reg /\ c6 \in Reg /\ c7 \in Reg
        BY <1>2, <1>3, ClockBits
    <1>5. /\ 0 \notin c8 /\ 1 \notin c8 /\ 2 \notin c8 /\ 3 \notin c8 /\ 4 \notin c8
          /\ 5 \notin c8 /\ 6 \notin c8 /\ 7 \notin c8
        BY <1>1
    <1>6. 15 \notin c7 /\ 15 \notin c6 /\ 15 \notin c5 /\ 15 \notin c4 /\ 15 \notin c3
        BY <1>2, <1>3, <1>4, <1>5, ClockBits
    <1>7. 15 \notin c2 /\ 15 \notin c1 /\ 15 \notin c0
        BY <1>2, <1>3, <1>4, <1>5, <1>6, ClockBits
    <1>8. /\ 15 \notin c0 /\ 14 \notin c0 /\ 13 \notin c0 /\ 12 \notin c0 /\ 11 \notin c0
          /\ 10 \notin c0 /\ 9 \notin c0 /\ 8 \notin c0
        BY <1>2, <1>3, <1>4, <1>6, <1>7, ClockBits
    <1> QED
        BY <1>8 DEF Reg

-----------------------------------------------------------------------------
(***************************************************************************)
(* One byte into the register.                                             *)
(***************************************************************************)
LEMMA EightIs ==
    ASSUME NEW c \in Reg, NEW d \in Reg
    PROVE  /\ Eight(c) \in Reg
           /\ Eight(c) = Eight(d) => c = d
           /\ Eight(Xor(c, d)) = Xor(Eight(c), Eight(d))
    <1> DEFINE T(e) == Twice(e)
    <1>1. \A a, b \in Reg : /\ Twice(a) \in Reg
                            /\ Twice(a) = Twice(b) => a = b
                            /\ Twice(Xor(a, b)) = Xor(Twice(a), Twice(b))
        BY ClockBits, ClockInjective, ClockLinear DEF Twice
    <1>2. \A a, b \in Reg : Xor(a, b) \in Reg
        BY ClockLinear
    <1>3. \A a, b \in Reg : /\ Twice(Twice(a)) \in Reg
                            /\ Twice(Twice(a)) = Twice(Twice(b)) => a = b
                            /\ Twice(Twice(Xor(a, b))) = Xor(Twice(Twice(a)), Twice(Twice(b)))
        BY <1>1, <1>2
    <1> QED
        BY <1>3, <1>2 DEF Eight

LEMMA HighIs ==
    ASSUME NEW x
    PROVE  /\ High(x) \in Reg /\ High(x) \subseteq 8..15
           /\ \A b \in 0..7 : b + 8 \in High(x) <=> (x \div 2 ^ b) % 2 = 1
    <1>1. \A b \in 0..7 : b \in Bits(x) <=> (x \div 2 ^ b) % 2 = 1
        BY DEF Bits
    <1>2. Bits(x) \subseteq 0..7
        BY DEF Bits
    <1> QED
        BY <1>1, <1>2 DEF High, Reg

\* A byte is the bits that Fed brings in.
LEMMA HighOne ==
    ASSUME NEW x \in 0..255, NEW y \in 0..255, High(x) = High(y)
    PROVE  x = y
    <1>1. \A b \in 0..7 : (x \div 2 ^ b) % 2 = 1 <=> (y \div 2 ^ b) % 2 = 1
        BY HighIs
    <1>2. /\ 2 ^ 0 = 1 /\ 2 ^ 1 = 2 /\ 2 ^ 2 = 4 /\ 2 ^ 3 = 8 /\ 2 ^ 4 = 16 /\ 2 ^ 5 = 32
          /\ 2 ^ 6 = 64 /\ 2 ^ 7 = 128
        OBVIOUS
    <1>3. /\ x % 2 = 1 <=> y % 2 = 1
          /\ (x \div 2) % 2 = 1 <=> (y \div 2) % 2 = 1
          /\ (x \div 4) % 2 = 1 <=> (y \div 4) % 2 = 1
          /\ (x \div 8) % 2 = 1 <=> (y \div 8) % 2 = 1
          /\ (x \div 16) % 2 = 1 <=> (y \div 16) % 2 = 1
          /\ (x \div 32) % 2 = 1 <=> (y \div 32) % 2 = 1
          /\ (x \div 64) % 2 = 1 <=> (y \div 64) % 2 = 1
          /\ (x \div 128) % 2 = 1 <=> (y \div 128) % 2 = 1
        BY <1>1, <1>2
    <1>4. x \div 128 = y \div 128
        BY <1>3
    <1>5. x \div 64 = y \div 64
        <2>1. /\ x \div 64 = 2 * (x \div 128) + ((x \div 64) % 2)
              /\ y \div 64 = 2 * (y \div 128) + ((y \div 64) % 2)
            OBVIOUS
        <2>2. (x \div 64) % 2 = (y \div 64) % 2
            BY <1>3
        <2> QED
            BY <1>4, <2>1, <2>2
    <1>6. x \div 32 = y \div 32
        <2>1. /\ x \div 32 = 2 * (x \div 64) + ((x \div 32) % 2)
              /\ y \div 32 = 2 * (y \div 64) + ((y \div 32) % 2)
            OBVIOUS
        <2>2. (x \div 32) % 2 = (y \div 32) % 2
            BY <1>3
        <2> QED
            BY <1>5, <2>1, <2>2
    <1>7. x \div 16 = y \div 16
        <2>1. /\ x \div 16 = 2 * (x \div 32) + ((x \div 16) % 2)
              /\ y \div 16 = 2 * (y \div 32) + ((y \div 16) % 2)
            OBVIOUS
        <2>2. (x \div 16) % 2 = (y \div 16) % 2
            BY <1>3
        <2> QED
            BY <1>6, <2>1, <2>2
    <1>8. x \div 8 = y \div 8
        <2>1. /\ x \div 8 = 2 * (x \div 16) + ((x \div 8) % 2)
              /\ y \div 8 = 2 * (y \div 16) + ((y \div 8) % 2)
            OBVIOUS
        <2>2. (x \div 8) % 2 = (y \div 8) % 2
            BY <1>3
        <2> QED
            BY <1>7, <2>1, <2>2
    <1>9. x \div 4 = y \div 4
        <2>1. /\ x \div 4 = 2 * (x \div 8) + ((x \div 4) % 2)
              /\ y \div 4 = 2 * (y \div 8) + ((y \div 4) % 2)
            OBVIOUS
        <2>2. (x \div 4) % 2 = (y \div 4) % 2
            BY <1>3
        <2> QED
            BY <1>8, <2>1, <2>2
    <1>10. x \div 2 = y \div 2
        <2>1. /\ x \div 2 = 2 * (x \div 4) + ((x \div 2) % 2)
              /\ y \div 2 = 2 * (y \div 4) + ((y \div 2) % 2)
            OBVIOUS
        <2>2. (x \div 2) % 2 = (y \div 2) % 2
            BY <1>3
        <2> QED
            BY <1>9, <2>1, <2>2
    <1> QED
        BY <1>3, <1>10

LEMMA FedIs ==
    ASSUME NEW c, NEW x
    PROVE  Fed(c, x) = Eight(Xor(c, High(x)))
    BY DEF Fed, Eight, High

LEMMA XorIs ==
    ASSUME NEW a \in Reg, NEW b \in Reg, NEW c \in Reg
    PROVE  /\ Xor(a, b) \in Reg
           /\ Xor(a, b) = Xor(b, a)
           /\ Xor(a, b) = Xor(a, c) => b = c
           /\ Xor(Xor(a, b), c) = Xor(a, Xor(b, c))
    BY DEF Xor, Reg

\* Registers that differ stay apart through one byte, and one register tells two bytes apart.
LEMMA FedKeepsApart ==
    ASSUME NEW c \in Reg, NEW d \in Reg, NEW x, NEW y
    PROVE  /\ Fed(c, x) \in Reg
           /\ Fed(c, x) = Fed(d, x) => c = d
           /\ Fed(c, x) = Fed(c, y) => High(x) = High(y)
    <1>1. High(x) \in Reg /\ High(y) \in Reg
        BY HighIs
    <1>2. Xor(c, High(x)) \in Reg /\ Xor(d, High(x)) \in Reg /\ Xor(c, High(y)) \in Reg
        BY <1>1, XorIs
    <1>3. Fed(c, x) = Fed(d, x) => Xor(c, High(x)) = Xor(d, High(x))
        BY <1>2, EightIs, FedIs
    <1>4. Fed(c, x) = Fed(c, y) => Xor(c, High(x)) = Xor(c, High(y))
        BY <1>2, EightIs, FedIs
    <1>5. Fed(c, x) \in Reg
        BY <1>2, EightIs, FedIs
    <1>6. Xor(c, High(x)) = Xor(d, High(x)) => c = d
        BY <1>1, XorIs
    <1>7. Xor(c, High(x)) = Xor(c, High(y)) => High(x) = High(y)
        BY <1>1, XorIs
    <1> QED
        BY <1>3, <1>4, <1>5, <1>6, <1>7

\* Two bytes in either order lead to one register only when they are one byte.
LEMMA SwapShows ==
    ASSUME NEW c \in Reg, NEW x, NEW y, Fed(Fed(c, x), y) = Fed(Fed(c, y), x)
    PROVE  High(x) = High(y)
    <1> DEFINE A == High(x)
               B == High(y)
    <1>1. A \in Reg /\ A \subseteq 8..15 /\ B \in Reg /\ B \subseteq 8..15
        BY HighIs
    <1>2. Fed(Fed(c, x), y) = Eight(Xor(Eight(Xor(c, A)), B))
          /\ Fed(Fed(c, y), x) = Eight(Xor(Eight(Xor(c, B)), A))
        BY FedIs
    <1> HIDE DEF A, B
    <1> DEFINE EC == Eight(c)
               EA == Eight(A)
               EB == Eight(B)
    <1>3. EC \in Reg /\ EA \in Reg /\ EB \in Reg
        BY <1>1, EightIs
    <1>4. Eight(Xor(c, A)) = Xor(EC, EA) /\ Eight(Xor(c, B)) = Xor(EC, EB)
        BY <1>1, EightIs
    <1>5. Eight(Xor(A, B)) = Xor(EA, EB) /\ Xor(A, B) \in Reg
        BY <1>1, EightIs, XorIs
    <1> HIDE DEF EC, EA, EB
    <1>6. Xor(Xor(EC, EA), B) \in Reg /\ Xor(Xor(EC, EB), A) \in Reg
        BY <1>1, <1>3, XorIs
    <1>70. Eight(Xor(Xor(EC, EA), B)) = Eight(Xor(Xor(EC, EB), A))
        BY <1>2, <1>4
    <1>7. Xor(Xor(EC, EA), B) = Xor(Xor(EC, EB), A)
        BY <1>6, <1>70, EightIs
    <1>8. Xor(EC, Xor(EA, B)) = Xor(EC, Xor(EB, A))
        BY <1>1, <1>3, <1>7, XorIs
    <1>9. Xor(EA, B) = Xor(EB, A)
        BY <1>1, <1>3, <1>8, XorIs
    <1>10. Xor(EA, EB) = Xor(A, B)
        BY <1>9 DEF Xor
    <1>11. Xor(A, B) \subseteq 8..15
        BY <1>1 DEF Xor
    <1>12. Xor(A, B) = {}
        BY <1>5, <1>10, <1>11, NoByteStays
    <1>13. A = B
        BY <1>12 DEF Xor
    <1> QED
        BY <1>13 DEF A, B
-----------------------------------------------------------------------------
(***************************************************************************)
(* Recursive definitions: a least number instead of an induction, and the  *)
(* function that a recursion from 0 to n defines.                          *)
(***************************************************************************)
LEMMA HasLeast ==
    ASSUME NEW T \in SUBSET Nat, T # {}
    PROVE  \E m \in T : \A y \in T : m <= y
    <1>1. \E x \in T : \A y \in T : ~(<<y, x>> \in OpToRel(<, Nat))
        BY NatLessThanWellFounded, WFMin
    <1>2. PICK x \in T : \A y \in T : ~(<<y, x>> \in OpToRel(<, Nat))
        BY <1>1
    <1>3. \A y \in T : ~(y < x)
        BY <1>2 DEF OpToRel
    <1>4. x \in Nat /\ \A y \in T : y \in Nat
        OBVIOUS
    <1> QED
        BY <1>3, <1>4

\* f over 0..n: the first value, and each next one from F.
Recursion(f, D, first, n, F) ==
    /\ f \in [0..n -> D]
    /\ f[0] = first
    /\ \A i \in 1..n : f[i] = F[i][f[i - 1]]

\* Such an f exists: the least length without one would have one.
LEMMA RecursionExists ==
    ASSUME NEW D, NEW first \in D, NEW n \in Nat, NEW F \in [1..n -> [D -> D]]
    PROVE  \E f : Recursion(f, D, first, n, F)
    <1> DEFINE Upto(m) == \E f \in [0..m -> D] :
                              f[0] = first /\ \A i \in 1..m : f[i] = F[i][f[i - 1]]
               Bad == {m \in 0..n : ~Upto(m)}
    <1>1. SUFFICES ASSUME Bad # {}
                   PROVE  FALSE
        <2>1. n \in 0..n
            OBVIOUS
        <2>2. Bad = {} => Upto(n)
            BY <2>1
        <2> QED
            BY <2>2 DEF Recursion
    <1>2. Bad \in SUBSET Nat
        OBVIOUS
    <1> HIDE DEF Bad
    <1>3. PICK m \in Bad : \A y \in Bad : m <= y
        BY <1>1, <1>2, HasLeast
    <1>4. m \in 0..n /\ ~Upto(m)
        BY <1>3 DEF Bad
    <1>5. m # 0
        <2>1. Upto(0)
            <3>1. [i \in 0..0 |-> first] \in [0..0 -> D]
                OBVIOUS
            <3>2. [i \in 0..0 |-> first][0] = first
                OBVIOUS
            <3>3. 1..0 = {}
                OBVIOUS
            <3> QED
                BY <3>1, <3>2, <3>3
        <2> QED
            BY <1>4, <2>1
    <1>6. Upto(m - 1)
        <2>1. m - 1 \in 0..n /\ m - 1 \notin Bad
            BY <1>2, <1>3, <1>4, <1>5
        <2> HIDE DEF Upto
        <2> QED
            BY <2>1 DEF Bad
    <1>7. PICK f \in [0..(m - 1) -> D] :
              f[0] = first /\ \A i \in 1..(m - 1) : f[i] = F[i][f[i - 1]]
        BY <1>6
    <1> DEFINE next == F[m][f[m - 1]]
               g == [i \in 0..m |-> IF i = m THEN next ELSE f[i]]
    <1>8. next \in D
        <2>1. f[m - 1] \in D /\ m \in 1..n
            BY <1>4, <1>5, <1>7
        <2>2. F[m] \in [D -> D]
            BY <2>1
        <2> QED
            BY <2>1, <2>2
    <1> HIDE DEF next
    <1>9. g \in [0..m -> D] /\ g[0] = first
        BY <1>4, <1>5, <1>7, <1>8
    <1>10. ASSUME NEW i \in 1..m
           PROVE  g[i] = F[i][g[i - 1]]
        <2>1. CASE i = m
            <3>1. g[i] = next /\ g[i - 1] = f[i - 1]
                BY <1>4, <2>1
            <3> QED
                BY <2>1, <3>1 DEF next
        <2>2. CASE i # m
            <3>1. g[i] = f[i] /\ g[i - 1] = f[i - 1] /\ i \in 1..(m - 1)
                BY <1>4, <2>2
            <3> QED
                BY <1>7, <3>1
        <2> QED
            BY <2>1, <2>2
    <1> HIDE DEF g
    <1> QED
        BY <1>4, <1>9, <1>10

\* An induction over 0..n: T holds the rungs that are reached.
LEMMA Ladder ==
    ASSUME NEW n \in Nat, NEW T, 0 \in T, \A k \in 1..n : k - 1 \in T => k \in T
    PROVE  \A k \in 0..n : k \in T
    <1> DEFINE Bad == {k \in 0..n : k \notin T}
    <1> SUFFICES ASSUME Bad # {}
                 PROVE  FALSE
        OBVIOUS
    <1>1. Bad \in SUBSET Nat
        OBVIOUS
    <1> HIDE DEF Bad
    <1>2. PICK m \in Bad : \A y \in Bad : m <= y
        BY <1>1, HasLeast
    <1>3. m \in 1..n /\ m \notin T
        BY <1>2 DEF Bad
    <1>4. m - 1 \in T
        BY <1>2, <1>3 DEF Bad
    <1> QED
        BY <1>3, <1>4

LEMMA MinOfTwo ==
    ASSUME NEW a \in Int, NEW b \in Int
    PROVE  Min({a, b}) = IF a <= b THEN a ELSE b
    <1> DEFINE low == IF a <= b THEN a ELSE b
    <1>1. low \in {a, b} /\ low \in Int /\ \A y \in {a, b} : low <= y
        OBVIOUS
    <1>2. \A x \in {a, b} : (\A y \in {a, b} : x <= y) => x = low
        OBVIOUS
    <1> HIDE DEF low
    <1>3. Min({a, b}) \in {a, b} /\ \A y \in {a, b} : Min({a, b}) <= y
        BY <1>1 DEF Min
    <1>4. Min({a, b}) = low
        BY <1>2, <1>3
    <1> QED
        BY <1>4 DEF low

-----------------------------------------------------------------------------
(***************************************************************************)
(* The register through a text.                                            *)
(***************************************************************************)
Registers(reg, text) ==
    /\ reg \in [0..Len(text) -> Reg]
    /\ reg[0] = 0..15
    /\ \A i \in 1..Len(text) : reg[i] = Fed(reg[i - 1], text[i])

\* A register through a text, byte by byte.
LEMMA ThroughBytes ==
    ASSUME NEW start \in Reg, NEW text, Len(text) \in Nat
    PROVE  \E reg \in [0..Len(text) -> Reg] :
              /\ reg[0] = start
              /\ \A i \in 1..Len(text) : reg[i] = Fed(reg[i - 1], text[i])
              /\ Through(Fed, start, text) = reg[Len(text)]
    <1> DEFINE n == Len(text)
               Rec(f) == [k \in 0..n |->
                             IF k = 0 THEN start
                             ELSE CHOOSE next \in {Fed(before, text[k]) : before \in {f[k - 1]}} : TRUE]
               F == [i \in 1..n |-> [c \in Reg |-> Fed(c, text[i])]]
    <1>1. F \in [1..n -> [Reg -> Reg]]
        BY FedKeepsApart
    <1>2. \A c \in Reg, i \in 1..n : F[i][c] = Fed(c, text[i])
        OBVIOUS
    <1>3. n \in Nat
        OBVIOUS
    <1> HIDE DEF F, n
    <1>4. PICK f : Recursion(f, Reg, start, n, F)
        BY <1>1, <1>3, RecursionExists
    <1>5. f \in [0..n -> Reg] /\ f[0] = start /\ \A i \in 1..n : f[i] = F[i][f[i - 1]]
        BY <1>4 DEF Recursion
    <1>6. f[0] = start /\ \A i \in 1..n : f[i] = Fed(f[i - 1], text[i])
        <2>1. \A i \in 1..n : f[i - 1] \in Reg
            BY <1>3, <1>5
        <2> QED
            BY <1>2, <1>5, <2>1, Zenon
    <1>7. \A h, k : (CHOOSE next \in {Fed(before, text[k]) : before \in {h[k - 1]}} : TRUE)
                    = Fed(h[k - 1], text[k])
        OBVIOUS
    <1>8. f = Rec(f)
        BY <1>5, <1>6, <1>7
    <1>9. Through(Fed, start, text) = (CHOOSE h : h = Rec(h))[n]
        BY DEF Through, n
    <1> DEFINE reg == CHOOSE h : h = Rec(h)
    <1>10. reg = Rec(reg)
        BY <1>8
    <1>11. Through(Fed, start, text) = reg[n]
        BY <1>9
    <1>12. reg = [k \in 0..n |-> IF k = 0 THEN start ELSE Fed(reg[k - 1], text[k])]
        BY <1>10, <1>7
    <1> HIDE DEF reg
    <1>13. reg[0] = start /\ \A i \in 1..n : reg[i] = Fed(reg[i - 1], text[i])
        BY <1>3, <1>12
    <1>14. \A i \in 0..n : reg[i] \in Reg
        <2> DEFINE T == {i \in 0..n : reg[i] \in Reg}
        <2>1. 0 \in T
            BY <1>3, <1>13
        <2>2. \A i \in 1..n : i - 1 \in T => i \in T
            <3> SUFFICES ASSUME NEW i \in 1..n, reg[i - 1] \in Reg
                         PROVE  reg[i] \in Reg
                BY <1>3
            <3>1. reg[i] = Fed(reg[i - 1], text[i])
                BY <1>13
            <3>2. Fed(reg[i - 1], text[i]) \in Reg
                BY FedKeepsApart
            <3> QED
                BY <3>1, <3>2
        <2> HIDE DEF T
        <2>3. \A i \in 0..n : i \in T
            BY <1>3, <2>1, <2>2, Ladder
        <2> QED
            BY <2>3 DEF T
    <1>15. reg \in [0..n -> Reg]
        BY <1>12, <1>14
    <1> QED
        BY <1>11, <1>13, <1>15 DEF n

LEMMA ThroughTyped ==
    ASSUME NEW start \in Reg, NEW text, Len(text) \in Nat
    PROVE  Through(Fed, start, text) \in Reg
    <1>1. PICK reg \in [0..Len(text) -> Reg] : Through(Fed, start, text) = reg[Len(text)]
        BY ThroughBytes
    <1>2. Len(text) \in 0..Len(text)
        OBVIOUS
    <1> QED
        BY <1>1, <1>2

\* A chunk is the next sixteen bytes, the last one what is left.
LEMMA ChunksAre ==
    ASSUME NEW text, Len(text) \in Nat
    PROVE  /\ Len(Chunks(text)) = (Len(text) + 15) \div 16
           /\ \A k \in 1..((Len(text) + 15) \div 16) :
                 LET end == IF 16 * k <= Len(text) THEN 16 * k ELSE Len(text)
                 IN  16 * k - 16 <= end /\ Len(Chunks(text)[k]) = end - (16 * k - 16)
           /\ \A k \in 1..((Len(text) + 15) \div 16) : \A j \in 1..Len(Chunks(text)[k]) :
                 Chunks(text)[k][j] = text[16 * k - 16 + j]
    <1> DEFINE n == Len(text)
               m == (n + 15) \div 16
    <1>1. n \in Nat /\ m \in Nat /\ 16 * m <= n + 15 /\ n <= 16 * m
        OBVIOUS
    <1> DEFINE Part(k) == SubSeq(text, 16 * k - 15, Min({16 * k, n}))
               End(k) == IF 16 * k <= n THEN 16 * k ELSE n
    <1> HIDE DEF m
    <1>2. Chunks(text) = [k \in 1..m |-> Part(k)]
        BY DEF Chunks, m
    <1>3. \A k \in 1..m : Chunks(text)[k] = Part(k)
        <2> HIDE DEF Part
        <2> QED
            BY <1>2
    <1>4. Len(Chunks(text)) = m
        <2> HIDE DEF Part
        <2>1. DOMAIN Chunks(text) = 1..m
            BY <1>2
        <2>2. Chunks(text) \in Seq({Part(k) : k \in 1..m})
            <3>1. Chunks(text) \in [1..m -> {Part(k) : k \in 1..m}]
                BY <1>2
            <3> QED
                BY <1>1, <3>1, SeqDef
        <2> QED
            BY <1>1, <2>1, <2>2, LenProperties
    <1>5. ASSUME NEW k \in 1..m
          PROVE  /\ 16 * k - 16 <= End(k) /\ Len(Part(k)) = End(k) - (16 * k - 16)
                 /\ \A j \in 1..Len(Part(k)) : Part(k)[j] = text[16 * k - 16 + j]
        <2>1. k \in Int /\ 16 * k - 16 < n
            BY <1>1
        <2>2. Min({16 * k, n}) = End(k)
            BY <1>1, <2>1, MinOfTwo
        <2> DEFINE lo == 16 * k - 15
                   hi == End(k)
        <2>3. lo \in Int /\ hi \in Int /\ lo <= hi /\ hi - lo + 1 = hi - (16 * k - 16)
            BY <1>1, <2>1
        <2>4. Part(k) = SubSeq(text, lo, hi)
            BY <2>2
        <2>5. \A j \in Int : lo + j - 1 = 16 * k - 16 + j
            BY <2>1
        <2> DEFINE S == {text[i] : i \in lo..hi}
        <2>6. \A i \in lo..hi : text[i] \in S
            OBVIOUS
        <2> HIDE DEF lo, hi, S, Part, n
        <2>7. /\ Len(SubSeq(text, lo, hi)) = hi - lo + 1
              /\ \A j \in 1..(hi - lo + 1) : SubSeq(text, lo, hi)[j] = text[lo + j - 1]
            BY <2>3, <2>6, SubSeqProperties
        <2>8. 16 * k - 16 <= hi /\ Len(Part(k)) = hi - (16 * k - 16)
            BY <2>1, <2>3, <2>4, <2>7 DEF lo
        <2>9. \A j \in 1..Len(Part(k)) : Part(k)[j] = text[16 * k - 16 + j]
            BY <2>3, <2>4, <2>5, <2>7
        <2> QED
            BY <2>8, <2>9 DEF hi
    <1> HIDE DEF Part
    <1>6. \A k \in 1..m : /\ 16 * k - 16 <= End(k) /\ Len(Chunks(text)[k]) = End(k) - (16 * k - 16)
                          /\ \A j \in 1..Len(Chunks(text)[k]) :
                                Chunks(text)[k][j] = text[16 * k - 16 + j]
        BY <1>3, <1>5
    <1> QED
        BY <1>4, <1>6 DEF m

\* A register through the chunks of a text.
LEMMA ThroughChunks ==
    ASSUME NEW text, Len(text) \in Nat
    PROVE  LET m == Len(Chunks(text)) IN
           \E reg \in [0..m -> Reg] :
              /\ reg[0] = 0..15
              /\ \A i \in 1..m : reg[i] = Through(Fed, reg[i - 1], Chunks(text)[i])
              /\ CRC16(text) = reg[m]
    <1> DEFINE chunks == Chunks(text)
               n == Len(chunks)
               start == 0..15
               Run(c, chunk) == Through(Fed, c, chunk)
               Rec(f) == [k \in 0..n |->
                             IF k = 0 THEN start
                             ELSE CHOOSE next \in {Run(before, chunks[k]) : before \in {f[k - 1]}} : TRUE]
               F == [i \in 1..n |-> [c \in Reg |-> Run(c, chunks[i])]]
    <1>1. n \in Nat /\ start \in Reg /\ \A i \in 1..n : Len(chunks[i]) \in Nat
        <2>0. (Len(text) + 15) \div 16 \in Nat
            OBVIOUS
        <2>1. n = (Len(text) + 15) \div 16 /\ n \in Nat
            <3>1. n = (Len(text) + 15) \div 16
                BY ChunksAre
            <3> QED
                BY <2>0, <3>1
        <2>2. \A i \in 1..n : Len(chunks[i]) \in Nat
            <3> SUFFICES ASSUME NEW i \in 1..n
                         PROVE  Len(chunks[i]) \in Nat
                OBVIOUS
            <3> DEFINE end == IF 16 * i <= Len(text) THEN 16 * i ELSE Len(text)
            <3>1. 16 * i - 16 <= end /\ Len(chunks[i]) = end - (16 * i - 16)
                BY <2>1, ChunksAre
            <3>2. end \in Nat
                OBVIOUS
            <3> HIDE DEF end, chunks
            <3> QED
                BY <3>1, <3>2
        <2> QED
            BY <2>1, <2>2 DEF Reg
    <1>9. CRC16(text) = (CHOOSE h : h = Rec(h))[n]
        BY DEF CRC16, Through
    <1> HIDE DEF chunks, n, start
    <1>2. \A c \in Reg, i \in 1..n : Run(c, chunks[i]) \in Reg
        BY <1>1, ThroughTyped
    <1> HIDE DEF Run
    <1>3. F \in [1..n -> [Reg -> Reg]] /\ \A c \in Reg, i \in 1..n : F[i][c] = Run(c, chunks[i])
        BY <1>2
    <1> HIDE DEF F
    <1>4. PICK f : Recursion(f, Reg, start, n, F)
        BY <1>1, <1>3, RecursionExists
    <1>5. f \in [0..n -> Reg] /\ f[0] = start /\ \A i \in 1..n : f[i] = F[i][f[i - 1]]
        BY <1>4 DEF Recursion
    <1>6. f[0] = start /\ \A i \in 1..n : f[i] = Run(f[i - 1], chunks[i])
        <2>1. \A i \in 1..n : f[i - 1] \in Reg
            BY <1>1, <1>5
        <2> QED
            BY <1>3, <1>5, <2>1, Zenon
    <1>7. \A h, k : (CHOOSE next \in {Run(before, chunks[k]) : before \in {h[k - 1]}} : TRUE)
                    = Run(h[k - 1], chunks[k])
        OBVIOUS
    <1>8. f = Rec(f)
        BY <1>5, <1>6, <1>7
    <1> DEFINE reg == CHOOSE h : h = Rec(h)
    <1>10. reg = Rec(reg)
        BY <1>8
    <1>11. CRC16(text) = reg[n]
        BY <1>9
    <1>12. reg = [k \in 0..n |-> IF k = 0 THEN start ELSE Run(reg[k - 1], chunks[k])]
        BY <1>10, <1>7
    <1> HIDE DEF reg
    <1>13. reg[0] = start /\ \A i \in 1..n : reg[i] = Run(reg[i - 1], chunks[i])
        BY <1>1, <1>12
    <1>14. \A i \in 0..n : reg[i] \in Reg
        <2> DEFINE T == {i \in 0..n : reg[i] \in Reg}
        <2>1. 0 \in T
            BY <1>1, <1>13
        <2>2. \A i \in 1..n : i - 1 \in T => i \in T
            BY <1>1, <1>2, <1>13
        <2> HIDE DEF T
        <2>3. \A i \in 0..n : i \in T
            BY <1>1, <2>1, <2>2, Ladder
        <2> QED
            BY <2>3 DEF T
    <1>15. reg \in [0..n -> Reg]
        BY <1>12, <1>14
    <1> QED
        BY <1>11, <1>13, <1>15 DEF n, chunks, start, Run

\* The chunks make no difference.
LEMMA CRC16Steps ==
    ASSUME NEW text, Len(text) \in Nat
    PROVE  \E reg : Registers(reg, text) /\ CRC16(text) = reg[Len(text)]
    <1> DEFINE n == Len(text)
               m == Len(Chunks(text))
               End(k) == IF 16 * k <= n THEN 16 * k ELSE n
    <1>1. 0..15 \in Reg
        BY DEF Reg
    <1>2. PICK reg \in [0..n -> Reg] :
              reg[0] = 0..15 /\ \A i \in 1..n : reg[i] = Fed(reg[i - 1], text[i])
        <2>1. \A start \in Reg : \E reg \in [0..n -> Reg] :
                  reg[0] = start /\ \A i \in 1..n : reg[i] = Fed(reg[i - 1], text[i])
            <3> SUFFICES ASSUME NEW start \in Reg
                         PROVE  \E reg \in [0..n -> Reg] :
                                   reg[0] = start /\ \A i \in 1..n : reg[i] = Fed(reg[i - 1], text[i])
                OBVIOUS
            <3>1. PICK reg \in [0..Len(text) -> Reg] :
                      /\ reg[0] = start
                      /\ \A i \in 1..Len(text) : reg[i] = Fed(reg[i - 1], text[i])
                      /\ Through(Fed, start, text) = reg[Len(text)]
                BY ThroughBytes
            <3> QED
                BY <3>1, Zenon
        <2> QED
            BY <1>1, <2>1, Zenon
    <1>3. PICK out \in [0..m -> Reg] :
              /\ out[0] = 0..15
              /\ \A i \in 1..m : out[i] = Through(Fed, out[i - 1], Chunks(text)[i])
              /\ CRC16(text) = out[m]
        BY ThroughChunks
    <1>4. n \in Nat /\ m = (n + 15) \div 16 /\ m \in Nat
        <2>1. (n + 15) \div 16 \in Nat /\ n \in Nat
            OBVIOUS
        <2>2. m = (n + 15) \div 16
            BY ChunksAre
        <2> QED
            BY <2>1, <2>2
    <1> DEFINE T == {k \in 0..m : out[k] = reg[End(k)]}
    <1>5. 0 \in T
        <2>1. End(0) = 0 /\ 0 \in 0..m
            BY <1>4
        <2> QED
            BY <1>2, <1>3, <2>1
    <1>6. ASSUME NEW k \in 1..m, k - 1 \in T
          PROVE  k \in T
        <2> DEFINE chunk == Chunks(text)[k]
                   lo == 16 * k - 16
        <2>1. /\ lo <= End(k) /\ Len(chunk) = End(k) - lo
              /\ \A j \in 1..Len(chunk) : chunk[j] = text[lo + j]
            <3>1. k \in 1..((Len(text) + 15) \div 16)
                BY <1>4
            <3>2. lo <= IF 16 * k <= Len(text) THEN 16 * k ELSE Len(text)
                BY <3>1, ChunksAre
            <3>3. Len(chunk) = (IF 16 * k <= Len(text) THEN 16 * k ELSE Len(text)) - lo
                BY <3>1, ChunksAre
            <3>4. \A j \in 1..Len(Chunks(text)[k]) : Chunks(text)[k][j] = text[16 * k - 16 + j]
                BY <3>1, ChunksAre
            <3> QED
                BY <3>2, <3>3, <3>4
        <2>2. lo \in Nat /\ End(k) \in Nat /\ End(k) <= n /\ lo < n /\ End(k - 1) = lo
            BY <1>4
        <2>3. out[k - 1] = reg[lo] /\ out[k - 1] \in Reg
            BY <1>6, <2>2
        <2> HIDE DEF chunk, lo, End, m
        <2>4. Len(chunk) \in Nat
            BY <2>1, <2>2
        <2>5. PICK s \in [0..Len(chunk) -> Reg] :
                  /\ s[0] = out[k - 1]
                  /\ \A j \in 1..Len(chunk) : s[j] = Fed(s[j - 1], chunk[j])
                  /\ Through(Fed, out[k - 1], chunk) = s[Len(chunk)]
            BY <2>3, <2>4, ThroughBytes
        <2> DEFINE U == {j \in 0..Len(chunk) : s[j] = reg[lo + j]}
        <2>6. 0 \in U
            BY <2>2, <2>3, <2>4, <2>5
        <2>7. ASSUME NEW j \in 1..Len(chunk), j - 1 \in U
              PROVE  j \in U
            <3>1. s[j - 1] = reg[lo + j - 1]
                BY <2>2, <2>4, <2>7
            <3>2. lo + j \in 1..n
                BY <1>4, <2>1, <2>2, <2>4
            <3>3. reg[lo + j] = Fed(reg[lo + j - 1], text[lo + j])
                <4>1. reg[lo + j] = Fed(reg[(lo + j) - 1], text[lo + j])
                    BY <1>2, <3>2
                <4>2. (lo + j) - 1 = lo + j - 1
                    BY <2>2
                <4> QED
                    BY <4>1, <4>2
            <3>4. s[j] = Fed(s[j - 1], chunk[j]) /\ chunk[j] = text[lo + j]
                BY <2>1, <2>5
            <3>5. s[j] = reg[lo + j]
                BY <3>1, <3>3, <3>4
            <3> QED
                BY <2>4, <3>5
        <2> HIDE DEF U
        <2>8. \A j \in 0..Len(chunk) : j \in U
            BY <2>4, <2>6, <2>7, Ladder
        <2>9. s[Len(chunk)] = reg[lo + Len(chunk)] /\ lo + Len(chunk) = End(k)
            BY <2>1, <2>2, <2>4, <2>8 DEF U
        <2>10. out[k] = Through(Fed, out[k - 1], chunk)
            BY <1>3 DEF chunk, m
        <2> QED
            BY <2>5, <2>9, <2>10
    <1>7. \A k \in 0..m : k \in T
        <2> HIDE DEF T, m
        <2> QED
            BY <1>4, <1>5, <1>6, Ladder
    <1>8. out[m] = reg[End(m)] /\ End(m) = n
        BY <1>4, <1>7
    <1> QED
        BY <1>2, <1>3, <1>8 DEF Registers

\* Texts that agree up to m have one register there.
LEMMA EqualSoFar ==
    ASSUME NEW x, NEW y, Len(x) \in Nat, Len(y) = Len(x),
           NEW r, NEW s, Registers(r, x), Registers(s, y),
           NEW m \in 0..Len(x), \A i \in 1..m : x[i] = y[i]
    PROVE  r[m] = s[m]
    <1> DEFINE Bad == {k \in 0..m : r[k] # s[k]}
    <1> SUFFICES ASSUME Bad # {}
                 PROVE  FALSE
        OBVIOUS
    <1>1. Bad \in SUBSET Nat
        OBVIOUS
    <1> HIDE DEF Bad
    <1>2. PICK k \in Bad : \A l \in Bad : k <= l
        BY <1>1, HasLeast
    <1>3. k \in 0..m /\ r[k] # s[k]
        BY <1>2 DEF Bad
    <1>4. k # 0
        BY <1>3 DEF Registers
    <1>5. r[k - 1] = s[k - 1]
        BY <1>2, <1>3, <1>4 DEF Bad
    <1>6. k \in 1..m /\ k \in 1..Len(x) /\ k \in 1..Len(y)
        BY <1>3, <1>4
    <1>7. r[k] = Fed(r[k - 1], x[k]) /\ s[k] = Fed(s[k - 1], y[k])
        BY <1>6 DEF Registers
    <1> QED
        BY <1>3, <1>5, <1>6, <1>7

\* Registers apart at m are apart at the end, when the rest agrees.
LEMMA ApartFromThere ==
    ASSUME NEW x, NEW y, Len(x) \in Nat, Len(y) = Len(x),
           NEW r, NEW s, Registers(r, x), Registers(s, y),
           NEW m \in 0..Len(x), r[m] # s[m], \A i \in (m + 1)..Len(x) : x[i] = y[i]
    PROVE  r[Len(x)] # s[Len(x)]
    <1> DEFINE Bad == {k \in m..Len(x) : r[k] = s[k]}
    <1> SUFFICES ASSUME Bad # {}
                 PROVE  FALSE
        OBVIOUS
    <1>1. Bad \in SUBSET Nat
        OBVIOUS
    <1> HIDE DEF Bad
    <1>2. PICK k \in Bad : \A l \in Bad : k <= l
        BY <1>1, HasLeast
    <1>3. k \in m..Len(x) /\ r[k] = s[k] /\ k # m
        BY <1>2 DEF Bad
    <1>4. r[k - 1] # s[k - 1]
        BY <1>2, <1>3 DEF Bad
    <1>5. k \in (m + 1)..Len(x) /\ k \in 1..Len(x) /\ k \in 1..Len(y)
          /\ k - 1 \in 0..Len(x) /\ k - 1 \in 0..Len(y)
        BY <1>3
    <1>6. r[k] = Fed(r[k - 1], x[k]) /\ s[k] = Fed(s[k - 1], y[k]) /\ x[k] = y[k]
        BY <1>5 DEF Registers
    <1>7. r[k - 1] \in Reg /\ s[k - 1] \in Reg
        BY <1>5 DEF Registers
    <1>8. Fed(r[k - 1], x[k]) = Fed(s[k - 1], x[k]) => r[k - 1] = s[k - 1]
        BY <1>7, FedKeepsApart
    <1> QED
        BY <1>3, <1>4, <1>6, <1>8

\* One byte changed changes the CRC of every text.
LEMMA ChangedByteShows ==
    ASSUME NEW x, NEW y, Len(x) \in Nat, Len(y) = Len(x),
           NEW i \in 1..Len(x), High(x[i]) # High(y[i]),
           \A k \in 1..Len(x) : k # i => x[k] = y[k]
    PROVE  CRC16(x) # CRC16(y)
    <1>1. PICK r : Registers(r, x) /\ CRC16(x) = r[Len(x)]
        BY CRC16Steps
    <1>2. PICK s : Registers(s, y) /\ CRC16(y) = s[Len(x)]
        BY CRC16Steps
    <1>3. i - 1 \in 0..Len(x) /\ i \in 0..Len(x) /\ i \in 1..Len(y)
        OBVIOUS
    <1>4. r[i - 1] = s[i - 1]
        <2>1. \A k \in 1..(i - 1) : x[k] = y[k]
            OBVIOUS
        <2> QED
            BY <1>1, <1>2, <1>3, <2>1, EqualSoFar
    <1>5. r[i] # s[i]
        <2>1. r[i] = Fed(r[i - 1], x[i]) /\ s[i] = Fed(r[i - 1], y[i])
            BY <1>1, <1>2, <1>3, <1>4 DEF Registers
        <2>2. r[i - 1] \in Reg
            BY <1>1, <1>3 DEF Registers
        <2> QED
            BY <2>1, <2>2, FedKeepsApart
    <1>6. \A k \in (i + 1)..Len(x) : x[k] = y[k]
        OBVIOUS
    <1> QED
        BY <1>1, <1>2, <1>3, <1>5, <1>6, ApartFromThere

\* Two neighbours swapped change the CRC of every text.
LEMMA SwappedBytesShow ==
    ASSUME NEW x, NEW y, Len(x) \in Nat, Len(y) = Len(x),
           NEW i \in 1..(Len(x) - 1), High(x[i]) # High(x[i + 1]),
           y[i] = x[i + 1], y[i + 1] = x[i],
           \A k \in 1..Len(x) : k # i /\ k # i + 1 => x[k] = y[k]
    PROVE  CRC16(x) # CRC16(y)
    <1>1. PICK r : Registers(r, x) /\ CRC16(x) = r[Len(x)]
        BY CRC16Steps
    <1>2. PICK s : Registers(s, y) /\ CRC16(y) = s[Len(x)]
        BY CRC16Steps
    <1>3. /\ i - 1 \in 0..Len(x) /\ i + 1 \in 0..Len(x) /\ i \in 1..Len(x) /\ i + 1 \in 1..Len(x)
          /\ i \in 1..Len(y) /\ i + 1 \in 1..Len(y) /\ (i + 1) - 1 = i
        OBVIOUS
    <1>4. r[i - 1] = s[i - 1]
        <2>1. \A k \in 1..(i - 1) : x[k] = y[k]
            OBVIOUS
        <2> QED
            BY <1>1, <1>2, <1>3, <2>1, EqualSoFar
    <1>5. r[i + 1] # s[i + 1]
        <2>1. r[i] = Fed(r[i - 1], x[i]) /\ s[i] = Fed(r[i - 1], x[i + 1])
            BY <1>1, <1>2, <1>3, <1>4 DEF Registers
        <2>2. r[i + 1] = Fed(r[i], x[i + 1]) /\ s[i + 1] = Fed(s[i], x[i])
            BY <1>1, <1>2, <1>3 DEF Registers
        <2>3. r[i - 1] \in Reg
            BY <1>1, <1>3 DEF Registers
        <2> QED
            BY <2>1, <2>2, <2>3, SwapShows
    <1>6. \A k \in ((i + 1) + 1)..Len(x) : x[k] = y[k]
        OBVIOUS
    <1> QED
        BY <1>1, <1>2, <1>3, <1>5, <1>6, ApartFromThere

-----------------------------------------------------------------------------
(***************************************************************************)
(* The digits of the CRC.                                                  *)
(***************************************************************************)
Bit(crc, b, weight) == IF b \in crc THEN weight ELSE 0

Nibble(crc, n) ==
    Bit(crc, 4 * n + 3, 8) + Bit(crc, 4 * n + 2, 4) + Bit(crc, 4 * n + 1, 2) + Bit(crc, 4 * n, 1)

LEMMA ChecksumIs ==
    ASSUME NEW text
    PROVE  checksum(text) = << HexDigit(Nibble(CRC16(text), 3)), HexDigit(Nibble(CRC16(text), 2)),
                               HexDigit(Nibble(CRC16(text), 1)), HexDigit(Nibble(CRC16(text), 0)) >>
    BY DEF checksum, Nibble, Bit

LEMMA HexIs ==
    ASSUME NEW v \in 0..15, NEW w \in 0..15
    PROVE  /\ HexDigit(v) \in 48..70
           /\ Upper(HexDigit(v)) = HexDigit(v)
           /\ HexDigit(v) = HexDigit(w) => v = w
    BY DEF HexDigit, Upper

LEMMA NibbleIs ==
    ASSUME NEW c \in Reg, NEW d \in Reg, NEW n \in 0..3
    PROVE  /\ Nibble(c, n) \in 0..15
           /\ Nibble(c, n) = Nibble(d, n) =>
                 \A b \in 0..3 : 4 * n + b \in c <=> 4 * n + b \in d
    <1>1. \A e : Bit(e, 4 * n + 3, 8) \in {0, 8} /\ Bit(e, 4 * n + 2, 4) \in {0, 4}
                 /\ Bit(e, 4 * n + 1, 2) \in {0, 2} /\ Bit(e, 4 * n, 1) \in {0, 1}
        BY DEF Bit
    <1>2. Nibble(c, n) \in 0..15
        BY <1>1 DEF Nibble
    <1>3. ASSUME Nibble(c, n) = Nibble(d, n)
          PROVE  /\ Bit(c, 4 * n + 3, 8) = Bit(d, 4 * n + 3, 8)
                 /\ Bit(c, 4 * n + 2, 4) = Bit(d, 4 * n + 2, 4)
                 /\ Bit(c, 4 * n + 1, 2) = Bit(d, 4 * n + 1, 2)
                 /\ Bit(c, 4 * n, 1) = Bit(d, 4 * n, 1)
        BY <1>1, <1>3 DEF Nibble
    <1>4. ASSUME Nibble(c, n) = Nibble(d, n)
          PROVE  \A b \in 0..3 : 4 * n + b \in c <=> 4 * n + b \in d
        <2>1. /\ 4 * n + 3 \in c <=> 4 * n + 3 \in d
              /\ 4 * n + 2 \in c <=> 4 * n + 2 \in d
              /\ 4 * n + 1 \in c <=> 4 * n + 1 \in d
              /\ 4 * n \in c <=> 4 * n \in d
            BY <1>3, <1>4 DEF Bit
        <2> QED
            BY <2>1
    <1> QED
        BY <1>2, <1>4

\* Four upper case digits, and as many of them as there are registers.
LEMMA ChecksumTells ==
    ASSUME NEW x, NEW y, CRC16(x) \in Reg, CRC16(y) \in Reg
    PROVE  /\ checksum(x) \in [1..4 -> 48..70]
           /\ \A i \in 1..4 : Upper(checksum(x)[i]) = checksum(x)[i]
           /\ checksum(x) = checksum(y) => CRC16(x) = CRC16(y)
    <1> DEFINE c == CRC16(x)
               d == CRC16(y)
    <1>1. c \in Reg /\ d \in Reg
        OBVIOUS
    <1>2. checksum(x) = << HexDigit(Nibble(c, 3)), HexDigit(Nibble(c, 2)),
                         HexDigit(Nibble(c, 1)), HexDigit(Nibble(c, 0)) >>
        BY ChecksumIs
    <1>3. checksum(y) = << HexDigit(Nibble(d, 3)), HexDigit(Nibble(d, 2)),
                         HexDigit(Nibble(d, 1)), HexDigit(Nibble(d, 0)) >>
        BY ChecksumIs
    <1> HIDE DEF c, d
    <1>4. \A n \in 0..3 : Nibble(c, n) \in 0..15 /\ Nibble(d, n) \in 0..15
        BY <1>1, NibbleIs
    <1>5. \A n \in 0..3 : /\ HexDigit(Nibble(c, n)) \in 48..70
                          /\ Upper(HexDigit(Nibble(c, n))) = HexDigit(Nibble(c, n))
        BY <1>4, HexIs
    <1>6. checksum(x) \in [1..4 -> 48..70] /\ \A i \in 1..4 : Upper(checksum(x)[i]) = checksum(x)[i]
        BY <1>2, <1>5
    <1>7. ASSUME checksum(x) = checksum(y)
          PROVE  c = d
        <2>1. \A n \in 0..3 : HexDigit(Nibble(c, n)) = HexDigit(Nibble(d, n))
            <3>1. /\ HexDigit(Nibble(c, 0)) = HexDigit(Nibble(d, 0))
                  /\ HexDigit(Nibble(c, 1)) = HexDigit(Nibble(d, 1))
                  /\ HexDigit(Nibble(c, 2)) = HexDigit(Nibble(d, 2))
                  /\ HexDigit(Nibble(c, 3)) = HexDigit(Nibble(d, 3))
                BY <1>2, <1>3, <1>7
            <3> QED
                BY <3>1
        <2>2. \A n \in 0..3 : Nibble(c, n) = Nibble(d, n)
            BY <1>4, <2>1, HexIs
        <2>3. \A n \in 0..3, b \in 0..3 : 4 * n + b \in c <=> 4 * n + b \in d
            BY <1>1, <2>2, NibbleIs
        <2>4. \A k \in 0..15 : k = 4 * (k \div 4) + (k % 4) /\ k \div 4 \in 0..3 /\ k % 4 \in 0..3
            OBVIOUS
        <2>5. \A k \in 0..15 : k \in c <=> k \in d
            BY <2>3, <2>4
        <2> QED
            BY <1>1, <2>5 DEF Reg
    <1> QED
        BY <1>6, <1>7 DEF c, d

-----------------------------------------------------------------------------
(***************************************************************************)
(* Texts of bytes.                                                         *)
(***************************************************************************)
LEMMA ByteIs ==
    Text = Seq(Byte)
    BY DEF Text, Byte

-----------------------------------------------------------------------------
(***************************************************************************)
(* A sealed text and its reader.                                           *)
(***************************************************************************)
Covered(text) == SubSeq(text, 1, Len(text) - 4)

IsSealed(text) ==
    /\ Len(text) >= 8
    /\ \A i \in 1..4 : text[Len(text) - 8 + i] = CRCHeader[i]
    /\ \A i \in 1..4 : text[Len(text) - 4 + i] = checksum(Covered(text))[i]

LEMMA PartIs ==
    ASSUME NEW S, NEW s \in Seq(S), NEW m \in Int, NEW n \in Int, 1 <= m, m <= n + 1, n <= Len(s)
    PROVE  /\ SubSeq(s, m, n) \in Seq(S)
           /\ Len(SubSeq(s, m, n)) = n - m + 1
           /\ \A i \in 1..(n - m + 1) : SubSeq(s, m, n)[i] = s[m + i - 1]
    <1>1. \A i \in m..n : s[i] \in S
        BY ElementOfSeq, LenProperties
    <1> QED
        BY <1>1, SubSeqProperties

LEMMA ConcatIs ==
    ASSUME NEW S, NEW s \in Seq(S), NEW t \in Seq(S)
    PROVE  /\ s \o t \in Seq(S)
           /\ Len(s \o t) = Len(s) + Len(t)
           /\ \A i \in 1..Len(s) : (s \o t)[i] = s[i]
           /\ \A i \in 1..Len(t) : (s \o t)[Len(s) + i] = t[i]
    <1> DEFINE u == s \o t
    <1>1. Len(s) \in Nat /\ Len(t) \in Nat
        BY LenProperties
    <1>2. /\ u \in Seq(S) /\ Len(u) = Len(s) + Len(t)
          /\ \A i \in 1..(Len(s) + Len(t)) :
                u[i] = IF i <= Len(s) THEN s[i] ELSE t[i - Len(s)]
        BY ConcatProperties
    <1> HIDE DEF u
    <1>3. \A i \in 1..Len(s) : u[i] = s[i]
        BY <1>1, <1>2
    <1>4. \A i \in 1..Len(t) : u[Len(s) + i] = t[i]
        <2> SUFFICES ASSUME NEW i \in 1..Len(t)
                     PROVE  u[Len(s) + i] = t[i]
            OBVIOUS
        <2>1. Len(s) + i \in 1..(Len(s) + Len(t)) /\ ~(Len(s) + i <= Len(s)) /\ Len(s) + i - Len(s) = i
            BY <1>1
        <2> QED
            BY <1>2, <2>1
    <1> QED
        BY <1>2, <1>3, <1>4 DEF u

LEMMA TextIs ==
    ASSUME NEW text \in Text
    PROVE  text \in Seq(Nat) /\ Len(text) \in Nat /\ \A i \in 1..Len(text) : text[i] \in Byte
    <1>1. Len(text) \in Nat /\ text \in [1..Len(text) -> Byte]
        BY LenProperties, ByteIs
    <1>2. Byte \subseteq Nat
        BY DEF Byte
    <1>3. text \in [1..Len(text) -> Nat]
        BY <1>1, <1>2
    <1>4. text \in Seq(Nat)
        BY <1>1, <1>3, SeqDef
    <1> QED
        BY <1>1, <1>4

LEMMA JoinIs ==
    ASSUME NEW s \in Text, NEW t \in Text
    PROVE  /\ s \o t \in Text
           /\ Len(s \o t) = Len(s) + Len(t)
           /\ \A i \in 1..Len(s) : (s \o t)[i] = s[i]
           /\ \A i \in 1..Len(t) : (s \o t)[Len(s) + i] = t[i]
    BY ConcatIs, ByteIs

LEMMA RowIs ==
    ASSUME NEW S, NEW n \in Nat, NEW f \in [1..n -> S]
    PROVE  f \in Seq(S) /\ Len(f) = n
    <1>1. f \in Seq(S)
        BY SeqDef
    <1> QED
        BY <1>1, LenProperties

LEMMA MadeOf ==
    ASSUME NEW n \in Nat, NEW f \in [1..n -> Byte]
    PROVE  f \in Text /\ Len(f) = n
    BY RowIs, ByteIs

LEMMA HeaderIs ==
    CRCHeader \in Text /\ CRCHeader \in Seq(Nat) /\ Len(CRCHeader) = 4
    <1>1. CRCHeader \in [1..4 -> Byte]
        BY DEF CRCHeader, Byte
    <1>2. CRCHeader \in Text /\ Len(CRCHeader) = 4
        BY <1>1, MadeOf
    <1>3. CRCHeader \in Seq(Nat)
        BY <1>2, TextIs
    <1> QED
        BY <1>2, <1>3

LEMMA CRC16Typed ==
    ASSUME NEW text, Len(text) \in Nat
    PROVE  CRC16(text) \in Reg
    <1>1. PICK r : Registers(r, text) /\ CRC16(text) = r[Len(text)]
        BY CRC16Steps
    <1>2. Len(text) \in 0..Len(text)
        OBVIOUS
    <1> QED
        BY <1>1, <1>2 DEF Registers

LEMMA CoveredIs ==
    ASSUME NEW S, NEW text \in Seq(S), Len(text) >= 4
    PROVE  /\ Covered(text) \in Seq(S)
           /\ Len(Covered(text)) = Len(text) - 4
           /\ \A i \in 1..(Len(text) - 4) : Covered(text)[i] = text[i]
           /\ CRC16(Covered(text)) \in Reg
    <1>1. /\ Covered(text) \in Seq(S)
          /\ Len(Covered(text)) = Len(text) - 4
          /\ \A i \in 1..(Len(text) - 4) : Covered(text)[i] = text[i]
        <2> DEFINE n == Len(text)
        <2>1. n \in Nat /\ n >= 4
            BY LenProperties
        <2> HIDE DEF n
        <2>2. /\ SubSeq(text, 1, n - 4) \in Seq(S)
              /\ Len(SubSeq(text, 1, n - 4)) = (n - 4) - 1 + 1
              /\ \A i \in 1..((n - 4) - 1 + 1) : SubSeq(text, 1, n - 4)[i] = text[1 + i - 1]
            <3>1. 1 \in Int /\ n - 4 \in Int /\ 1 <= 1 /\ 1 <= (n - 4) + 1 /\ n - 4 <= Len(text)
                BY <2>1 DEF n
            <3> QED
                BY <3>1, PartIs
        <2>3. (n - 4) - 1 + 1 = n - 4 /\ \A i \in Int : 1 + i - 1 = i
            BY <2>1
        <2> QED
            BY <2>1, <2>2, <2>3 DEF Covered, n
    <1>2. Len(Covered(text)) \in Nat
        BY <1>1, LenProperties
    <1>4. CRC16(Covered(text)) \in Reg
        BY <1>2, CRC16Typed
    <1> QED
        BY <1>1, <1>4

\* Verify, position by position.
LEMMA VerifyIs ==
    ASSUME NEW text \in Seq(Nat), Len(text) >= 8
    PROVE  Verify(text) <=>
              /\ \A i \in 1..4 : text[Len(text) - 8 + i] = CRCHeader[i]
              /\ \A i \in 1..4 : Upper(text[Len(text) - 4 + i]) = checksum(Covered(text))[i]
    <1> DEFINE n == Len(text)
               header == SubSeq(text, n - 7, n - 4)
               tail == SubSeq(text, n - 3, n)
               sum == checksum(Covered(text))
    <1>1. n \in Nat /\ n >= 8
        OBVIOUS
    <1>2. header \in Seq(Nat) /\ Len(header) = 4 /\ \A i \in 1..4 : header[i] = text[n - 8 + i]
        OBVIOUS
    <1>3. tail \in Seq(Nat) /\ Len(tail) = 4 /\ \A i \in 1..4 : tail[i] = text[n - 4 + i]
        OBVIOUS
    <1>4. header = CRCHeader <=> \A i \in 1..4 : header[i] = CRCHeader[i]
        BY <1>2, HeaderIs, SeqEqual
    <1>5. sum \in [1..4 -> 48..70]
        <2>1. CRC16(Covered(text)) \in Reg
            BY <1>1, CoveredIs
        <2> QED
            BY <2>1, ChecksumTells
    <1>6. Verify(text) <=> header = CRCHeader /\ [i \in 1..4 |-> Upper(tail[i])] = sum
        BY <1>1 DEF Verify, Covered
    <1> HIDE DEF header, tail, sum, n
    <1>7. [i \in 1..4 |-> Upper(tail[i])] = sum <=> \A i \in 1..4 : Upper(tail[i]) = sum[i]
        BY <1>5
    <1> QED
        BY <1>2, <1>3, <1>4, <1>6, <1>7 DEF n, sum

\* What Sealed appends is what Verify looks for.
LEMMA SealedIs ==
    ASSUME NEW body \in Text
    PROVE  Sealed(body) \in Text /\ IsSealed(Sealed(body))
    <1> DEFINE head == body \o CRCHeader
               sum == checksum(head)
               n == Len(Sealed(body))
    <1>1. Len(body) \in Nat /\ body \in Seq(Byte)
        BY TextIs, ByteIs
    <1>2. /\ head \in Seq(Byte) /\ Len(head) = Len(body) + 4
          /\ \A i \in 1..4 : head[Len(body) + i] = CRCHeader[i]
        <2>1. CRCHeader \in Seq(Byte) /\ Len(CRCHeader) = 4
            BY HeaderIs, ByteIs
        <2>2. /\ body \o CRCHeader \in Text
              /\ Len(body \o CRCHeader) = Len(body) + Len(CRCHeader)
              /\ \A i \in 1..Len(CRCHeader) : (body \o CRCHeader)[Len(body) + i] = CRCHeader[i]
            BY HeaderIs, JoinIs
        <2> QED
            BY <2>1, <2>2, ByteIs
    <1>3. sum \in Seq(Byte) /\ Len(sum) = 4
        <2>1. Len(head) \in Nat
            BY <1>1, <1>2
        <2>2. sum \in [1..4 -> 48..70]
            BY <2>1, CRC16Typed, ChecksumTells
        <2> HIDE DEF sum
        <2>3. sum \in [1..4 -> Byte]
            BY <2>2 DEF Byte
        <2> QED
            BY <2>3, RowIs
    <1>4. Sealed(body) = head \o sum
        <2>1. CRCHeader \in Seq(Byte)
            BY HeaderIs, ByteIs
        <2> HIDE DEF sum
        <2>2. body \o CRCHeader \o sum = head \o sum
            OBVIOUS
        <2> QED
            BY <2>2 DEF Sealed, sum
    <1> HIDE DEF head
    <1>5. /\ head \o sum \in Seq(Byte) /\ Len(head \o sum) = Len(head) + 4
          /\ \A i \in 1..Len(head) : (head \o sum)[i] = head[i]
          /\ \A i \in 1..4 : (head \o sum)[Len(head) + i] = sum[i]
        <2> HIDE DEF sum
        <2>0. head \in Text /\ sum \in Text
            BY <1>2, <1>3, ByteIs
        <2>1. /\ head \o sum \in Text /\ Len(head \o sum) = Len(head) + Len(sum)
              /\ \A i \in 1..Len(head) : (head \o sum)[i] = head[i]
              /\ \A i \in 1..Len(sum) : (head \o sum)[Len(head) + i] = sum[i]
            BY <2>0, JoinIs
        <2> QED
            BY <1>3, <2>1, ByteIs
    <1>6. /\ Sealed(body) \in Seq(Byte) /\ n = Len(body) + 8 /\ Len(head) = n - 4
          /\ \A i \in 1..(n - 4) : Sealed(body)[i] = head[i]
          /\ \A i \in 1..4 : Sealed(body)[n - 4 + i] = sum[i]
        <2> HIDE DEF sum
        <2>1. n = Len(head) + 4
            BY <1>4, <1>5
        <2>2. n = Len(body) + 8 /\ Len(head) = n - 4 /\ n - 4 + 0 = Len(head)
            BY <1>1, <1>2, <2>1
        <2> HIDE DEF n
        <2> QED
            BY <1>4, <1>5, <2>2
    <1>7. Covered(Sealed(body)) = head
        <2>1. n \in Nat /\ n >= 4
            BY <1>1, <1>6
        <2>2. /\ Covered(Sealed(body)) \in Seq(Byte) /\ Len(Covered(Sealed(body))) = n - 4
              /\ \A i \in 1..(n - 4) : Covered(Sealed(body))[i] = Sealed(body)[i]
            BY <1>6, <2>1, CoveredIs
        <2> DEFINE x == Covered(Sealed(body))
        <2>3. \A i \in 1..(n - 4) : x[i] = head[i]
            BY <1>6, <2>2
        <2>4. x \in Seq(Byte) /\ head \in Seq(Byte) /\ Len(x) = Len(head)
            BY <1>2, <1>6, <2>2
        <2>5. \A i \in 1..Len(x) : x[i] = head[i]
            BY <2>2, <2>3
        <2> HIDE DEF x
        <2>6. x = head
            BY <2>4, <2>5, SeqEqual
        <2> QED
            BY <2>6 DEF x
    <1> HIDE DEF n
    <1>8. \A i \in 1..4 : Sealed(body)[n - 8 + i] = CRCHeader[i]
        <2>1. \A i \in 1..4 : n - 8 + i = Len(body) + i /\ n - 8 + i \in 1..(n - 4)
            BY <1>1, <1>6
        <2> QED
            BY <1>2, <1>6, <2>1
    <1>9. n >= 8
        BY <1>1, <1>6
    <1> QED
        BY <1>6, <1>7, <1>8, <1>9, ByteIs DEF IsSealed, n

-----------------------------------------------------------------------------
(***************************************************************************)
(* A damaged text and its reader.                                          *)
(***************************************************************************)
Smudged(read, built) ==
    \E i \in DOMAIN built : \E c \in Byte \ {built[i]} : read = [built EXCEPT ![i] = c]

Swapped(read, built) ==
    \E i \in 1..(Len(built) - 1) : read = [built EXCEPT ![i] = built[i + 1], ![i + 1] = built[i]]

SameButCase(read, built) ==
    LET n == Len(built) IN
    /\ SubSeq(read, 1, n - 4) = SubSeq(built, 1, n - 4)
    /\ \A i \in (n - 3)..n : Upper(read[i]) = Upper(built[i])

\* Damage behind what the CRC covers: the digits are compared as they are.
LEMMA DigitsTell ==
    ASSUME NEW built \in Text, IsSealed(built), NEW read \in Seq(Nat), Len(read) = Len(built),
           Covered(read) = Covered(built)
    PROVE  Verify(read) <=> SameButCase(read, built)
    <1> DEFINE n == Len(built)
               sum == checksum(Covered(built))
    <1>1. n \in Nat /\ n >= 8 /\ built \in Seq(Nat)
        BY TextIs DEF IsSealed
    <1>2. \A i \in 1..4 : sum[i] = built[n - 4 + i] /\ Upper(sum[i]) = sum[i]
        <2>1. CRC16(Covered(built)) \in Reg
            BY <1>1, CoveredIs
        <2> QED
            BY <2>1, ChecksumTells DEF IsSealed
    <1>3. \A i \in 1..4 : read[n - 8 + i] = CRCHeader[i]
        <2>1. \A i \in 1..(n - 4) : read[i] = Covered(read)[i] /\ built[i] = Covered(built)[i]
            <3>1. Len(read) >= 4 /\ Len(built) >= 4
                BY <1>1
            <3>2. \A i \in 1..(Len(read) - 4) : Covered(read)[i] = read[i]
                BY <3>1, CoveredIs, Zenon
            <3>3. \A i \in 1..(Len(built) - 4) : Covered(built)[i] = built[i]
                BY <1>1, <3>1, CoveredIs, Zenon
            <3> QED
                BY <3>2, <3>3
        <2>2. \A i \in 1..4 : n - 8 + i \in 1..(n - 4)
            BY <1>1
        <2>3. \A i \in 1..4 : built[n - 8 + i] = CRCHeader[i]
            BY DEF IsSealed
        <2> QED
            BY <2>1, <2>2, <2>3
    <1>4. Verify(read) <=> \A i \in 1..4 : Upper(read[n - 4 + i]) = sum[i]
        BY <1>1, <1>3, VerifyIs
    <1> HIDE DEF sum, n
    <1>5. SameButCase(read, built) <=> \A i \in (n - 3)..n : Upper(read[i]) = Upper(built[i])
        BY DEF SameButCase, Covered, n
    <1>6. (\A i \in (n - 3)..n : Upper(read[i]) = Upper(built[i]))
          <=> \A i \in 1..4 : Upper(read[n - 4 + i]) = Upper(built[n - 4 + i])
        <2>1. \A i \in (n - 3)..n : i - (n - 4) \in 1..4 /\ n - 4 + (i - (n - 4)) = i
            BY <1>1
        <2>2. \A i \in 1..4 : n - 4 + i \in (n - 3)..n
            BY <1>1
        <2> QED
            BY <2>1, <2>2
    <1> QED
        BY <1>2, <1>4, <1>5, <1>6

\* A reader whose CRC differs, over the digits as they were issued.
LEMMA RegisterTells ==
    ASSUME NEW built \in Text, IsSealed(built), NEW read \in Seq(Nat), Len(read) = Len(built),
           CRC16(Covered(read)) # CRC16(Covered(built)),
           \A i \in 1..4 : read[Len(built) - 4 + i] = built[Len(built) - 4 + i]
    PROVE  ~Verify(read)
    <1>1. Len(built) \in Nat /\ Len(built) >= 8 /\ built \in Seq(Nat)
        BY TextIs DEF IsSealed
    <1>2. CRC16(Covered(read)) \in Reg /\ CRC16(Covered(built)) \in Reg
        <2>1. Len(built) >= 4 /\ Len(read) >= 4
            BY <1>1
        <2>2. CRC16(Covered(read)) \in Reg
            BY <2>1, CoveredIs
        <2>3. CRC16(Covered(built)) \in Reg
            BY <1>1, <2>1, CoveredIs
        <2> QED
            BY <2>2, <2>3
    <1> DEFINE a == checksum(Covered(built))
               b == checksum(Covered(read))
    <1>3. a # b /\ a \in [1..4 -> 48..70] /\ b \in [1..4 -> 48..70]
          /\ \A i \in 1..4 : Upper(a[i]) = a[i]
        BY <1>2, ChecksumTells
    <1>4. \A i \in 1..4 : built[Len(built) - 4 + i] = a[i]
        BY DEF IsSealed
    <1> SUFFICES ASSUME Verify(read)
                 PROVE  FALSE
        OBVIOUS
    <1>5. \A i \in 1..4 : Upper(read[Len(built) - 4 + i]) = b[i]
        BY <1>1, VerifyIs
    <1> HIDE DEF a, b
    <1>6. \A i \in 1..4 : b[i] = a[i]
        BY <1>3, <1>4, <1>5
    <1> QED
        BY <1>3, <1>6

LEMMA SameCovered ==
    ASSUME NEW built \in Text, IsSealed(built), NEW read \in Seq(Nat), Len(read) = Len(built),
           \A i \in 1..(Len(built) - 4) : read[i] = built[i]
    PROVE  Covered(read) = Covered(built)
    <1>1. Len(built) \in Nat /\ Len(built) >= 4 /\ Len(read) >= 4 /\ built \in Seq(Nat)
        BY TextIs DEF IsSealed
    <1>2. /\ Covered(read) \in Seq(Nat) /\ Len(Covered(read)) = Len(read) - 4
          /\ \A i \in 1..(Len(read) - 4) : Covered(read)[i] = read[i]
        BY <1>1, CoveredIs
    <1>3. /\ Covered(built) \in Seq(Nat) /\ Len(Covered(built)) = Len(built) - 4
          /\ \A i \in 1..(Len(built) - 4) : Covered(built)[i] = built[i]
        BY <1>1, CoveredIs
    <1>4. \A i \in 1..Len(Covered(read)) : Covered(read)[i] = Covered(built)[i]
        BY <1>2, <1>3
    <1>5. Len(Covered(read)) = Len(Covered(built))
        BY <1>2, <1>3
    <1> QED
        BY <1>2, <1>3, <1>4, <1>5, SeqEqual

\* Damage in what the CRC covers.
LEMMA CoveredDamage ==
    ASSUME NEW built \in Text, IsSealed(built), NEW read \in Seq(Nat), Len(read) = Len(built),
           CRC16(Covered(read)) # CRC16(Covered(built)),
           \A i \in 1..4 : read[Len(built) - 4 + i] = built[Len(built) - 4 + i]
    PROVE  Verify(read) <=> SameButCase(read, built)
    <1>1. ~Verify(read)
        BY RegisterTells
    <1>2. ~SameButCase(read, built)
        <2>1. Covered(read) # Covered(built)
            OBVIOUS
        <2> QED
            BY <2>1 DEF SameButCase, Covered
    <1> QED
        BY <1>1, <1>2

\* One character changed, in the CRC or in what it covers.
LEMMA SmudgeTold ==
    ASSUME NEW built \in Text, IsSealed(built), NEW read, Smudged(read, built)
    PROVE  Verify(read) <=> SameButCase(read, built)
    <1> DEFINE n == Len(built)
    <1>1. /\ n \in Nat /\ n >= 8 /\ built \in Seq(Nat) /\ DOMAIN built = 1..n
          /\ built \in [1..n -> Nat] /\ \A k \in 1..n : built[k] \in Byte
        BY TextIs, LenProperties DEF IsSealed
    <1>2. PICK i \in DOMAIN built : \E c \in Byte \ {built[i]} : read = [built EXCEPT ![i] = c]
        BY DEF Smudged
    <1>3. PICK c \in Byte \ {built[i]} : read = [built EXCEPT ![i] = c]
        BY <1>2
    <1>4. i \in 1..n /\ built[i] \in Byte /\ c \in Byte /\ c # built[i] /\ c \in Nat
        <2>1. i \in 1..n
            BY <1>1, <1>2
        <2>2. c \in Byte /\ c # built[i]
            BY <1>3
        <2>3. c \in Nat
            BY <2>2 DEF Byte
        <2> QED
            BY <1>1, <2>1, <2>2, <2>3
    <1>5. /\ read \in Seq(Nat) /\ Len(read) = n
          /\ \A k \in 1..n : read[k] = IF k = i THEN c ELSE built[k]
        BY <1>1, <1>3, <1>4, ExceptSeq
    <1> HIDE DEF n
    <1>6. CASE i > n - 4
        <2>1. \A k \in 1..(n - 4) : read[k] = built[k]
            BY <1>1, <1>5, <1>6
        <2>2. Covered(read) = Covered(built)
            BY <1>5, <2>1, SameCovered DEF n
        <2> QED
            BY <1>5, <2>2, DigitsTell DEF n
    <1>7. CASE i <= n - 4
        <2> DEFINE x == Covered(built)
                   y == Covered(read)
        <2>1. Len(x) = n - 4 /\ \A k \in 1..(n - 4) : x[k] = built[k]
            <3>1. Len(built) >= 4 /\ Len(built) - 4 = n - 4
                BY <1>1 DEF n
            <3>2. /\ Len(Covered(built)) = Len(built) - 4
                  /\ \A k \in 1..(Len(built) - 4) : Covered(built)[k] = built[k]
                BY <1>1, <3>1, CoveredIs
            <3> QED
                BY <1>1, <3>1, <3>2
        <2>2. Len(y) = n - 4 /\ \A k \in 1..(n - 4) : y[k] = read[k]
            <3>1. Len(read) >= 4 /\ Len(read) - 4 = n - 4
                BY <1>1, <1>5
            <3>2. /\ Len(Covered(read)) = Len(read) - 4
                  /\ \A k \in 1..(Len(read) - 4) : Covered(read)[k] = read[k]
                <4>1. read \in Seq(Nat)
                    BY <1>5
                <4> QED
                    BY <3>1, <4>1, CoveredIs
            <3> QED
                BY <1>5, <3>1, <3>2
        <2>3. i \in 1..(n - 4) /\ n - 4 \in Nat
            BY <1>1, <1>7, <1>4
        <2>4. High(x[i]) # High(y[i])
            <3>1. x[i] = built[i] /\ y[i] = c
                BY <1>5, <1>4, <2>1, <2>2, <2>3
            <3>2. High(built[i]) # High(c)
                BY <1>4, HighOne DEF Byte
            <3> QED
                BY <3>1, <3>2
        <2>5. \A k \in 1..(n - 4) : k # i => x[k] = y[k]
            BY <1>1, <1>5, <2>1, <2>2
        <2>6. CRC16(x) # CRC16(y)
            <3> HIDE DEF x, y
            <3> QED
                BY <2>1, <2>2, <2>3, <2>4, <2>5, ChangedByteShows
        <2>7. \A k \in 1..4 : read[n - 4 + k] = built[n - 4 + k]
            BY <1>1, <1>5, <1>7
        <2> QED
            BY <1>5, <2>6, <2>7, CoveredDamage DEF n
    <1> QED
        BY <1>1, <1>6, <1>7, <1>4

\* Two neighbours swapped: in the CRC, in what it covers, or across its header.
LEMMA SwapTold ==
    ASSUME NEW built \in Text, IsSealed(built), NEW read, Swapped(read, built)
    PROVE  Verify(read) <=> SameButCase(read, built)
    <1> DEFINE n == Len(built)
    <1>1. /\ n \in Nat /\ n >= 8 /\ built \in Seq(Nat) /\ DOMAIN built = 1..n
          /\ built \in [1..n -> Nat] /\ \A k \in 1..n : built[k] \in Byte
        BY TextIs, LenProperties DEF IsSealed
    <1>2. PICK i \in 1..(n - 1) : read = [built EXCEPT ![i] = built[i + 1], ![i + 1] = built[i]]
        BY DEF Swapped
    <1> DEFINE a == built[i]
               b == built[i + 1]
    <1>3. i \in 1..n /\ i + 1 \in 1..n /\ a \in Byte /\ b \in Byte /\ a \in Nat /\ b \in Nat
        BY <1>1, <1>2
    <1>4. /\ read \in Seq(Nat) /\ Len(read) = n
          /\ \A k \in 1..n : read[k] = IF k = i THEN b ELSE IF k = i + 1 THEN a ELSE built[k]
        <2> DEFINE half == [built EXCEPT ![i] = b]
        <2>1. /\ half \in Seq(Nat) /\ Len(half) = n
              /\ \A k \in 1..n : half[k] = IF k = i THEN b ELSE built[k]
            BY <1>1, <1>3, ExceptSeq
        <2>2. read = [half EXCEPT ![i + 1] = a]
            BY <1>2
        <2> HIDE DEF half, a, b, n
        <2>3. /\ read \in Seq(Nat) /\ Len(read) = Len(half)
              /\ \A k \in 1..Len(half) : read[k] = IF k = i + 1 THEN a ELSE half[k]
            BY <1>3, <2>1, <2>2, ExceptSeq
        <2>4. i + 1 # i
            BY <1>3
        <2>5. \A k \in 1..n : read[k] = IF k = i THEN b ELSE IF k = i + 1 THEN a ELSE built[k]
            BY <2>1, <2>3, <2>4
        <2> QED
            BY <2>1, <2>3, <2>5
    <1> HIDE DEF n
    <1>5. CASE i > n - 4
        <2>1. \A k \in 1..(n - 4) : read[k] = built[k]
            BY <1>1, <1>2, <1>4, <1>5
        <2>2. Covered(read) = Covered(built)
            BY <1>4, <2>1, SameCovered DEF n
        <2> QED
            BY <1>4, <2>2, DigitsTell DEF n
    <1>6. CASE a = b
        <2>1. \A k \in 1..(n - 4) : read[k] = built[k]
            BY <1>1, <1>2, <1>4, <1>6
        <2>2. Covered(read) = Covered(built)
            BY <1>4, <2>1, SameCovered DEF n
        <2> QED
            BY <1>4, <2>2, DigitsTell DEF n
    <1>7. CASE i = n - 4 /\ a # b
        <2>1. built[n - 4] = 52
            <3>1. built[n - 8 + 4] = CRCHeader[4] /\ CRCHeader[4] = 52
                BY DEF IsSealed, n, CRCHeader
            <3>2. n - 8 + 4 = n - 4
                BY <1>1
            <3> QED
                BY <3>1, <3>2
        <2>2. read[n - 4] = b /\ a = 52
            BY <1>1, <1>3, <1>4, <1>7, <2>1
        <2>3. ~Verify(read)
            <3>1. Verify(read) => read[n - 8 + 4] = CRCHeader[4]
                <4>1. Len(read) >= 8
                    BY <1>1, <1>4
                <4>2. Verify(read) => \A k \in 1..4 : read[Len(read) - 8 + k] = CRCHeader[k]
                    BY <1>4, <4>1, VerifyIs
                <4> QED
                    BY <1>4, <4>2
            <3>2. n - 8 + 4 = n - 4 /\ CRCHeader[4] = 52
                BY <1>1 DEF CRCHeader
            <3> QED
                BY <1>7, <2>2, <3>1, <3>2
        <2>4. ~SameButCase(read, built)
            <3>1. Covered(read)[n - 4] = read[n - 4] /\ Covered(built)[n - 4] = built[n - 4]
                <4>1. n - 4 \in 1..(Len(read) - 4) /\ n - 4 \in 1..(Len(built) - 4)
                      /\ Len(read) >= 4 /\ Len(built) >= 4
                    BY <1>1, <1>4 DEF n
                <4>2. Covered(read)[n - 4] = read[n - 4]
                    BY <1>4, <4>1, CoveredIs
                <4>3. Covered(built)[n - 4] = built[n - 4]
                    BY <1>1, <4>1, CoveredIs
                <4> QED
                    BY <4>2, <4>3
            <3>2. Covered(read) # Covered(built)
                BY <1>7, <2>1, <2>2, <3>1
            <3> QED
                BY <1>4, <3>2 DEF SameButCase, Covered, n
        <2> QED
            BY <2>3, <2>4
    <1>8. CASE i < n - 4 /\ a # b
        <2> DEFINE x == Covered(built)
                   y == Covered(read)
        <2>1. Len(x) = n - 4 /\ \A k \in 1..(n - 4) : x[k] = built[k]
            <3>1. Len(built) >= 4 /\ Len(built) - 4 = n - 4
                BY <1>1 DEF n
            <3>2. /\ Len(Covered(built)) = Len(built) - 4
                  /\ \A k \in 1..(Len(built) - 4) : Covered(built)[k] = built[k]
                BY <1>1, <3>1, CoveredIs
            <3> QED
                BY <1>1, <3>1, <3>2
        <2>2. Len(y) = n - 4 /\ \A k \in 1..(n - 4) : y[k] = read[k]
            <3>1. Len(read) >= 4 /\ Len(read) - 4 = n - 4
                BY <1>1, <1>4
            <3>2. /\ Len(Covered(read)) = Len(read) - 4
                  /\ \A k \in 1..(Len(read) - 4) : Covered(read)[k] = read[k]
                <4>1. read \in Seq(Nat)
                    BY <1>4
                <4> QED
                    BY <3>1, <4>1, CoveredIs
            <3> QED
                BY <1>4, <3>1, <3>2
        <2>3. i \in 1..(n - 4) /\ i + 1 \in 1..(n - 4) /\ n - 4 \in Nat /\ i \in 1..(n - 4 - 1) /\ i + 1 # i
            BY <1>1, <1>3, <1>8
        <2>4. x[i] = a /\ x[i + 1] = b /\ y[i] = b /\ y[i + 1] = a
            BY <1>1, <1>3, <1>4, <2>1, <2>2, <2>3
        <2>5. High(x[i]) # High(x[i + 1])
            BY <1>3, <1>8, <2>4, HighOne DEF Byte
        <2>6. \A k \in 1..(n - 4) : k # i /\ k # i + 1 => x[k] = y[k]
            BY <1>1, <1>4, <2>1, <2>2
        <2>7. CRC16(x) # CRC16(y)
            <3> HIDE DEF x, y
            <3>1. Len(x) \in Nat /\ Len(y) = Len(x) /\ i \in 1..(Len(x) - 1)
                BY <2>1, <2>2, <2>3
            <3>2. y[i] = x[i + 1] /\ y[i + 1] = x[i]
                BY <2>4
            <3>3. \A k \in 1..Len(x) : k # i /\ k # i + 1 => x[k] = y[k]
                BY <2>1, <2>6
            <3> QED
                BY <2>5, <3>1, <3>2, <3>3, SwappedBytesShow
        <2>8. \A k \in 1..4 : read[n - 4 + k] = built[n - 4 + k]
            BY <1>1, <1>2, <1>4, <1>8
        <2> QED
            BY <1>4, <2>7, <2>8, CoveredDamage DEF n
    <1> QED
        BY <1>1, <1>2, <1>5, <1>6, <1>7, <1>8

-----------------------------------------------------------------------------
(***************************************************************************)
(* Encodings: typed fields and their texts, joined.                        *)
(***************************************************************************)
LEMMA MinIs ==
    ASSUME NEW T \in SUBSET Nat, T # {}
    PROVE  Min(T) \in T /\ \A y \in T : Min(T) <= y
    <1>1. \E m \in T : \A y \in T : m <= y
        BY HasLeast
    <1> QED
        BY <1>1 DEF Min

LEMMA MaxIs ==
    ASSUME NEW top \in Nat, NEW T \in SUBSET (0..top), T # {}
    PROVE  Max(T) \in T /\ \A y \in T : Max(T) >= y
    <1> DEFINE D == {top - x : x \in T}
    <1>1. D \in SUBSET Nat /\ D # {}
        <2>1. \A x \in T : top - x \in Nat
            OBVIOUS
        <2> QED
            BY <2>1
    <1>2. \A y \in T : top - y \in D /\ y \in 0..top
        OBVIOUS
    <1> HIDE DEF D
    <1>3. PICK d \in D : \A e \in D : d <= e
        BY <1>1, HasLeast
    <1>4. PICK x \in T : d = top - x
        BY <1>3 DEF D
    <1>5. \A y \in T : x >= y
        BY <1>2, <1>3, <1>4
    <1> QED
        BY <1>5 DEF Max

LEMMA PartTyped ==
    ASSUME NEW s \in Text, NEW m \in Int, NEW n \in Int, 1 <= m, n <= Len(s)
    PROVE  /\ SubSeq(s, m, n) \in Text
           /\ Len(SubSeq(s, m, n)) = IF m <= n THEN n - m + 1 ELSE 0
    <1>1. \A i \in m..n : s[i] \in Byte
        BY TextIs
    <1> QED
        BY <1>1, SubSeqProperties, ByteIs

LEMMA TimesIs ==
    ASSUME NEW n \in Nat, NEW c \in Byte
    PROVE  Times(n, c) \in Text /\ Len(Times(n, c)) = n
    <1>1. Times(n, c) \in [1..n -> Byte]
        BY DEF Times
    <1> QED
        BY <1>1, MadeOf

Field == [id : 0..99, value : Text]

LEMMA TwoDigitsTyped ==
    ASSUME NEW n \in 0..99
    PROVE  TwoDigits(n) \in Text
    <1>1. 48 + n \div 10 \in Byte /\ 48 + (n % 10) \in Byte
        BY DEF Byte
    <1>2. TwoDigits(n) \in [1..2 -> Byte]
        <2> DEFINE a == 48 + n \div 10
                   b == 48 + (n % 10)
        <2>1. a \in Byte /\ b \in Byte /\ TwoDigits(n) = <<a, b>>
            BY <1>1 DEF TwoDigits
        <2> HIDE DEF a, b
        <2> QED
            BY <2>1
    <1> QED
        BY <1>2, MadeOf

LEMMA EncodeIs ==
    ASSUME NEW field \in Field, Len(field.value) <= maxValueLen
    PROVE  /\ field.id \in 0..99 /\ field.value \in Text /\ Len(field.value) \in 0..99
           /\ Encode(field) \in Text
           /\ Len(Encode(field)) = 4 + Len(field.value)
           /\ Encode(field)[1] = 48 + field.id \div 10
           /\ Encode(field)[2] = 48 + (field.id % 10)
           /\ Encode(field)[3] = 48 + Len(field.value) \div 10
           /\ Encode(field)[4] = 48 + (Len(field.value) % 10)
           /\ \A j \in 1..Len(field.value) : Encode(field)[4 + j] = field.value[j]
    <1> DEFINE id == TwoDigits(field.id)
               len == TwoDigits(Len(field.value))
    <1>1. field.id \in 0..99 /\ field.value \in Text /\ Len(field.value) \in 0..99
        <2>1. field.id \in 0..99 /\ field.value \in Text
            BY DEF Field
        <2>2. Len(field.value) \in Nat
            BY <2>1, TextIs
        <2> DEFINE m == Len(field.value)
        <2>3. m \in Nat /\ m <= 99
            BY <2>2 DEF maxValueLen
        <2> HIDE DEF m
        <2>4. m \in 0..99
            BY <2>3
        <2> QED
            BY <2>1, <2>4 DEF m
    <1>2. id \in Text /\ len \in Text
        BY <1>1, TwoDigitsTyped
    <1>3. /\ Len(id) = 2 /\ id[1] = 48 + field.id \div 10 /\ id[2] = 48 + (field.id % 10)
          /\ Len(len) = 2 /\ len[1] = 48 + Len(field.value) \div 10
          /\ len[2] = 48 + (Len(field.value) % 10)
        BY DEF TwoDigits
    <1> HIDE DEF id, len
    <1> DEFINE head == id \o len
               value == field.value
    <1>4. head \in Text /\ Len(head) = 4 /\ head[1] = id[1] /\ head[2] = id[2]
          /\ head[3] = len[1] /\ head[4] = len[2]
        <2>1. /\ head \in Text /\ Len(head) = Len(id) + Len(len)
              /\ \A i \in 1..Len(id) : head[i] = id[i]
              /\ \A i \in 1..Len(len) : head[Len(id) + i] = len[i]
            BY <1>2, JoinIs
        <2> HIDE DEF head
        <2>2. 1 \in 1..Len(id) /\ 2 \in 1..Len(id) /\ 1 \in 1..Len(len) /\ 2 \in 1..Len(len)
            BY <1>3
        <2>3. head[1] = id[1] /\ head[2] = id[2]
            BY <2>1, <2>2
        <2>4. head[Len(id) + 1] = len[1] /\ head[Len(id) + 2] = len[2]
            BY <2>1, <2>2
        <2>5. Len(id) + 1 = 3 /\ Len(id) + 2 = 4 /\ Len(id) + Len(len) = 4
            BY <1>3
        <2> QED
            BY <2>1, <2>3, <2>4, <2>5
    <1>5. Encode(field) = head \o value
        BY DEF Encode, id, len
    <1> HIDE DEF head, value
    <1>6. /\ head \o value \in Text /\ Len(head \o value) = Len(head) + Len(value)
          /\ \A i \in 1..Len(head) : (head \o value)[i] = head[i]
          /\ \A i \in 1..Len(value) : (head \o value)[Len(head) + i] = value[i]
        <2>1. value \in Text
            BY <1>1 DEF value
        <2> QED
            BY <1>4, <2>1, JoinIs
    <1>7. Encode(field) \in Text /\ Len(Encode(field)) = 4 + Len(value)
        BY <1>4, <1>5, <1>6
    <1>8. \A i \in 1..4 : Encode(field)[i] = head[i]
        BY <1>4, <1>5, <1>6
    <1>9. \A i \in 1..Len(value) : Encode(field)[4 + i] = value[i]
        BY <1>4, <1>5, <1>6
    <1>10. /\ Encode(field)[1] = head[1] /\ Encode(field)[2] = head[2]
           /\ Encode(field)[3] = head[3] /\ Encode(field)[4] = head[4]
        BY <1>8
    <1>11. /\ Encode(field)[1] = 48 + field.id \div 10
           /\ Encode(field)[2] = 48 + (field.id % 10)
           /\ Encode(field)[3] = 48 + Len(field.value) \div 10
           /\ Encode(field)[4] = 48 + (Len(field.value) % 10)
        BY <1>3, <1>4, <1>10
    <1> QED
        BY <1>1, <1>7, <1>9, <1>11 DEF value

\* Texts joined one after the other.
LEMMA FlattenJoins ==
    ASSUME NEW n \in Nat, NEW texts \in [1..n -> Text]
    PROVE  \E join \in [0..n -> Text] :
              /\ join[0] = <<>>
              /\ \A i \in 1..n : join[i] = join[i - 1] \o texts[i]
              /\ FlattenSeq(texts) = join[n]
    <1> DEFINE Rec(f) == [i \in 1..n |-> IF i = 1 THEN texts[i] ELSE f[i - 1] \o texts[i]]
               F == [i \in 1..n |-> [t \in Text |-> t \o texts[i]]]
    <1>1. texts \in Seq(Text) /\ Len(texts) = n
        <2>1. texts \in Seq(Text)
            BY SeqDef
        <2> QED
            BY <2>1, LenProperties
    <1>2. <<>> \in Text
        BY EmptySeq, ByteIs
    <1>3. CASE n = 0
        <2>1. texts = <<>>
            BY <1>1, <1>3, EmptySeq
        <2>2. FlattenSeq(texts) = <<>>
            BY <1>1, <1>3, <2>1 DEF FlattenSeq
        <2> DEFINE join == [i \in 0..n |-> <<>>]
        <2>3. join \in [0..n -> Text] /\ join[0] = <<>> /\ join[n] = <<>>
            BY <1>2
        <2>4. 1..n = {}
            BY <1>3
        <2> HIDE DEF join
        <2> QED
            BY <2>2, <2>3, <2>4
    <1>4. CASE n # 0
        <2>1. FlattenSeq(texts) = (CHOOSE h : h = Rec(h))[n]
            BY <1>1, <1>4 DEF FlattenSeq
        <2>2. F \in [1..n -> [Text -> Text]] /\ \A t \in Text, i \in 1..n : F[i][t] = t \o texts[i]
            BY JoinIs
        <2> HIDE DEF F
        <2>3. PICK f : Recursion(f, Text, <<>>, n, F)
            BY <1>2, <2>2, RecursionExists
        <2>4. f \in [0..n -> Text] /\ f[0] = <<>> /\ \A i \in 1..n : f[i] = F[i][f[i - 1]]
            BY <2>3 DEF Recursion
        <2>5. \A i \in 1..n : f[i] = f[i - 1] \o texts[i]
            <3>1. \A i \in 1..n : f[i - 1] \in Text
                BY <2>4
            <3> QED
                BY <2>2, <2>4, <3>1, Zenon
        <2>6. 1 \in 1..n /\ f[1] = texts[1]
            <3>1. 1 \in 1..n
                BY <1>4
            <3>2. f[1] = <<>> \o texts[1]
                <4>1. f[1] = f[1 - 1] \o texts[1] /\ 1 - 1 = 0
                    BY <2>5, <3>1
                <4> QED
                    BY <2>4, <4>1
            <3>3. <<>> \o texts[1] = texts[1]
                BY <3>1, ConcatEmptySeq, ByteIs
            <3> QED
                BY <3>1, <3>2, <3>3
        <2> DEFINE g == [i \in 1..n |-> f[i]]
        <2>7. g = Rec(g)
            <3>1. \A i \in 1..n : i # 1 => g[i - 1] = f[i - 1]
                OBVIOUS
            <3>2. \A i \in 1..n : g[i] = IF i = 1 THEN texts[i] ELSE g[i - 1] \o texts[i]
                BY <2>5, <2>6, <3>1
            <3> HIDE DEF g
            <3>3. g = [i \in 1..n |-> g[i]]
                BY DEF g
            <3> QED
                BY <3>2, <3>3
        <2> DEFINE out == CHOOSE h : h = Rec(h)
        <2>8. out = Rec(out)
            BY <2>7
        <2>9. FlattenSeq(texts) = out[n]
            BY <2>1
        <2> HIDE DEF out
        <2>10. \A i \in 1..n : out[i] = IF i = 1 THEN texts[i] ELSE out[i - 1] \o texts[i]
            BY <2>8
        <2> DEFINE T == {i \in 0..n : i = 0 \/ out[i] = f[i]}
        <2>11. 0 \in T
            OBVIOUS
        <2>12. \A i \in 1..n : i - 1 \in T => i \in T
            <3>1. \A i \in 1..n : /\ i - 1 \in T => i = 1 \/ out[i - 1] = f[i - 1]
                                  /\ out[i] = f[i] => i \in T
                <4>1. \A i \in 1..n : i \in 0..n /\ (i - 1 = 0 => i = 1)
                    OBVIOUS
                <4> QED
                    BY <4>1
            <3> SUFFICES ASSUME NEW i \in 1..n, i = 1 \/ out[i - 1] = f[i - 1]
                         PROVE  out[i] = f[i]
                BY <3>1
            <3>2. CASE i = 1
                BY <2>6, <2>10, <3>2
            <3>3. CASE i # 1
                BY <2>5, <2>10, <3>3
            <3> QED
                BY <3>2, <3>3
        <2> HIDE DEF T
        <2>13. n \in T
            BY <2>11, <2>12, Ladder
        <2>14. out[n] = f[n]
            BY <1>4, <2>13 DEF T
        <2> QED
            BY <2>4, <2>5, <2>9, <2>14
    <1> QED
        BY <1>3, <1>4

\* The encodings of n fields, joined: join[i] is the text up to field i.
Joined(join, n, fields) ==
    /\ join \in [0..n -> Text]
    /\ join[0] = <<>>
    /\ \A i \in 1..n : join[i] = join[i - 1] \o Encode(fields[i])

LEMMA EncodeAllJoins ==
    ASSUME NEW n \in Nat, NEW fields \in [1..n -> Field], Encodes(fields)
    PROVE  \E join : Joined(join, n, fields) /\ EncodeAll(fields) = join[n]
    <1> DEFINE texts == [i \in DOMAIN fields |-> Encode(fields[i])]
    <1>1. \A i \in 1..n : Encode(fields[i]) \in Text
        BY EncodeIs DEF Encodes
    <1>2. texts \in [1..n -> Text] /\ \A i \in 1..n : texts[i] = Encode(fields[i])
        BY <1>1
    <1>3. EncodeAll(fields) = FlattenSeq(texts)
        BY DEF EncodeAll
    <1> HIDE DEF texts
    <1>4. PICK join \in [0..n -> Text] :
              /\ join[0] = <<>>
              /\ \A i \in 1..n : join[i] = join[i - 1] \o texts[i]
              /\ FlattenSeq(texts) = join[n]
        BY <1>2, FlattenJoins
    <1>5. Joined(join, n, fields)
        BY <1>2, <1>4 DEF Joined
    <1> QED
        BY <1>3, <1>4, <1>5

LEMMA EncodeAllTyped ==
    ASSUME NEW n \in Nat, NEW fields \in [1..n -> Field], Encodes(fields)
    PROVE  EncodeAll(fields) \in Text
    <1>1. PICK join : Joined(join, n, fields) /\ EncodeAll(fields) = join[n]
        BY EncodeAllJoins
    <1> QED
        BY <1>1 DEF Joined

-----------------------------------------------------------------------------
(***************************************************************************)
(* The parser.                                                             *)
(***************************************************************************)
\* f over 1..n + 1: the last value, and each earlier one from a later one.
Backwards(f, D, last, n, next, F) ==
    /\ f \in [1..(n + 1) -> D]
    /\ f[n + 1] = last
    /\ \A i \in 1..n : f[i] = F[i][f[next[i]]]

LEMMA BackwardsExists ==
    ASSUME NEW D, NEW last \in D, NEW n \in Nat,
           NEW next \in [1..n -> 1..(n + 1)], \A i \in 1..n : next[i] > i,
           NEW F \in [1..n -> [D -> D]]
    PROVE  \E f : Backwards(f, D, last, n, next, F)
    <1> DEFINE From(k) == \E f \in [(n + 1 - k)..(n + 1) -> D] :
                              /\ f[n + 1] = last
                              /\ \A i \in (n + 1 - k)..n : f[i] = F[i][f[next[i]]]
               T == {k \in 0..n : From(k)}
    <1>1. 0 \in T
        <2> DEFINE f == [i \in (n + 1)..(n + 1) |-> last]
        <2>1. f \in [(n + 1 - 0)..(n + 1) -> D] /\ f[n + 1] = last
            OBVIOUS
        <2>2. \A i \in (n + 1 - 0)..n : FALSE
            OBVIOUS
        <2> HIDE DEF f
        <2>3. From(0)
            BY <2>1, <2>2
        <2> HIDE DEF From
        <2> QED
            BY <2>3
    <1>2. ASSUME NEW k \in 1..n, k - 1 \in T
          PROVE  k \in T
        <2> DEFINE m == n + 1 - k
        <2>1. PICK f \in [(m + 1)..(n + 1) -> D] :
                  f[n + 1] = last /\ \A i \in (m + 1)..n : f[i] = F[i][f[next[i]]]
            <3>1. n + 1 - (k - 1) = m + 1
                OBVIOUS
            <3> QED
                BY <1>2, <3>1
        <2>2. m \in 1..n
            OBVIOUS
        <2> HIDE DEF m
        <2> DEFINE new == F[m][f[next[m]]]
                   g == [i \in m..(n + 1) |-> IF i = m THEN new ELSE f[i]]
        <2>3. new \in D
            <3>1. next[m] \in (m + 1)..(n + 1)
                BY <2>2
            <3>2. f[next[m]] \in D /\ F[m] \in [D -> D]
                BY <2>2, <3>1
            <3> QED
                BY <3>2
        <2> HIDE DEF new
        <2>4. g \in [m..(n + 1) -> D] /\ g[n + 1] = last
            BY <2>1, <2>2, <2>3
        <2>5. ASSUME NEW i \in m..n
              PROVE  g[i] = F[i][g[next[i]]]
            <3>1. i \in 1..n /\ next[i] > i /\ next[i] \in 1..(n + 1)
                BY <2>2
            <3>2. next[i] \in m..(n + 1) /\ next[i] # m
                BY <2>2, <3>1
            <3>3. g[next[i]] = f[next[i]]
                BY <3>2
            <3>4. CASE i = m
                BY <3>3, <3>4, <2>2 DEF new
            <3>5. CASE i # m
                <4>1. i \in (m + 1)..n /\ g[i] = f[i]
                    BY <2>2, <3>5
                <4> QED
                    BY <2>1, <3>3, <4>1
            <3> QED
                BY <3>4, <3>5
        <2> HIDE DEF g
        <2>6. From(k)
            BY <2>4, <2>5 DEF m
        <2> HIDE DEF From
        <2> QED
            BY <2>6
    <1> HIDE DEF T
    <1>3. n \in T
        <2>1. \A k \in 1..n : k - 1 \in T => k \in T
            BY <1>2
        <2>2. \A k \in 0..n : k \in T
            BY <1>1, <2>1, Ladder
        <2>3. n \in 0..n
            OBVIOUS
        <2> QED
            BY <2>2, <2>3
    <1>4. From(n)
        BY <1>3 DEF T
    <1>5. n + 1 - n = 1
        OBVIOUS
    <1> QED
        BY <1>4, <1>5 DEF Backwards

Header(text, i) == i + 3 <= Len(text) /\ isDigits(SubSeq(text, i, i + 3))
After(text, i) == i + 4 + Pair(text, i + 2)
Value(text, i) == SubSeq(text, i + 4, After(text, i) - 1)
Broken(text, i) == ~Header(text, i) \/ After(text, i) > Len(text) + 1

\* The parser's table: what is read from each byte on.
Reading(parsed, text) ==
    \A i \in 1..(Len(text) + 1) :
        parsed[i] =
            IF i > Len(text) THEN [ok |-> TRUE, fields |-> <<>>]
            ELSE IF Broken(text, i) THEN [ok |-> FALSE, fields |-> <<>>]
            ELSE [parsed[After(text, i)] EXCEPT !.fields =
                     <<TLV(Pair(text, i), Value(text, i))>> \o @]

LEMMA PairIs ==
    ASSUME NEW text \in Text, NEW i \in Nat \ {0}, i + 3 <= Len(text),
           isDigits(SubSeq(text, i, i + 3))
    PROVE  /\ Pair(text, i) \in 0..99 /\ Pair(text, i + 2) \in 0..99
           /\ \A j \in 0..3 : text[i + j] \in Digit
    <1>1. Len(text) \in Nat
        BY TextIs
    <1>2. /\ Len(SubSeq(text, i, i + 3)) = 4 /\ SubSeq(text, i, i + 3) \in Seq(Byte)
          /\ \A j \in 1..4 : SubSeq(text, i, i + 3)[j] = text[i + j - 1]
        <2>1. text \in Seq(Byte) /\ i \in Int /\ i + 3 \in Int /\ 1 <= i /\ i <= i + 3 + 1
              /\ i + 3 - i + 1 = 4
            BY ByteIs
        <2>2. /\ SubSeq(text, i, i + 3) \in Seq(Byte)
              /\ Len(SubSeq(text, i, i + 3)) = i + 3 - i + 1
              /\ \A j \in 1..(i + 3 - i + 1) : SubSeq(text, i, i + 3)[j] = text[i + j - 1]
            BY <2>1, PartIs
        <2> QED
            BY <2>1, <2>2
    <1>3. DOMAIN SubSeq(text, i, i + 3) = 1..4
        BY <1>2, LenProperties
    <1>4. \A j \in 1..4 : text[i + j - 1] \in Digit
        BY <1>2, <1>3 DEF isDigits
    <1>5. \A j \in 0..3 : text[i + j] \in Digit
        <2>1. \A j \in 0..3 : j + 1 \in 1..4 /\ i + (j + 1) - 1 = i + j
            OBVIOUS
        <2> QED
            BY <1>4, <2>1
    <1>6. text[i] \in 48..57 /\ text[i + 1] \in 48..57 /\ text[i + 2] \in 48..57 /\ text[i + 3] \in 48..57
        <2>1. i + 0 = i
            OBVIOUS
        <2> QED
            BY <1>5, <2>1 DEF Digit
    <1>7. \A a, b \in 48..57 : 10 * (a - 48) + b - 48 \in 0..99
        OBVIOUS
    <1>8. i + 2 + 1 = i + 3
        OBVIOUS
    <1> QED
        BY <1>5, <1>6, <1>7, <1>8 DEF Pair

LEMMA AfterIs ==
    ASSUME NEW text, NEW i \in Nat, Pair(text, i + 2) \in 0..99
    PROVE  After(text, i) \in Nat /\ After(text, i) >= i + 4
    BY DEF After

LEMMA ParseIs ==
    ASSUME NEW text \in Text
    PROVE  \E parsed : Reading(parsed, text) /\ Parse(text) = parsed[1]
    <1> DEFINE n == Len(text)
               Item == [id : 0..99, value : Text]
               D == [ok : BOOLEAN, fields : Seq(Item)]
               done == [ok |-> TRUE, fields |-> <<>>]
               bad == [ok |-> FALSE, fields |-> <<>>]
               Longer(i, rest) ==
                   [rest EXCEPT !.fields = <<TLV(Pair(text, i), Value(text, i))>> \o @]
               next == [i \in 1..n |-> IF Broken(text, i) THEN i + 1 ELSE After(text, i)]
               F == [i \in 1..n |-> [rest \in D |-> IF Broken(text, i) THEN bad ELSE Longer(i, rest)]]
               Rec(f) == [i \in 1..(n + 1) |->
                             IF i > n THEN done
                             ELSE IF Broken(text, i) THEN bad
                             ELSE Longer(i, f[After(text, i)])]
    <1>1. n \in Nat
        BY TextIs
    <1>2. done \in D /\ bad \in D
        BY EmptySeq
    <1>3. ASSUME NEW i \in 1..n, ~Broken(text, i)
          PROVE  /\ After(text, i) \in 1..(n + 1) /\ After(text, i) > i
                 /\ \A rest \in D : Longer(i, rest) \in D
        <2>1. i + 3 <= Len(text) /\ isDigits(SubSeq(text, i, i + 3)) /\ After(text, i) <= Len(text) + 1
            <3>1. Header(text, i) /\ ~(After(text, i) > Len(text) + 1)
                BY <1>3 DEF Broken
            <3>2. Pair(text, i) \in 0..99 /\ Pair(text, i + 2) \in 0..99
                BY <3>1, PairIs DEF Header
            <3>3. After(text, i) \in Int
                BY <1>1, <3>2, AfterIs
            <3>4. After(text, i) <= Len(text) + 1
                BY <1>1, <3>1, <3>3
            <3> QED
                BY <3>1, <3>4 DEF Header
        <2>2. Pair(text, i) \in 0..99 /\ Pair(text, i + 2) \in 0..99
            BY <2>1, PairIs
        <2>3. After(text, i) \in 1..(n + 1) /\ After(text, i) >= i + 4
            <3>1. After(text, i) \in Int /\ After(text, i) >= i + 4
                BY <1>1, <2>2, AfterIs
            <3> QED
                BY <1>1, <2>1, <3>1
        <2>4. Value(text, i) \in Text
            <3>1. i + 4 \in Int /\ After(text, i) - 1 \in Int /\ 1 <= i + 4 /\ After(text, i) - 1 <= Len(text)
                BY <1>1, <2>3
            <3> QED
                BY <3>1, PartTyped DEF Value
        <2> DEFINE item == TLV(Pair(text, i), Value(text, i))
        <2>5. item \in Item
            BY <2>2, <2>4 DEF TLV
        <2> HIDE DEF item, Item
        <2>6. \A rest \in D : [rest EXCEPT !.fields = <<item>> \o @] \in D
            <3>1. <<item>> \in Seq(Item)
                <4>1. <<item>> \in [1..1 -> Item]
                    BY <2>5
                <4> QED
                    BY <4>1, RowIs
            <3>2. \A s \in Seq(Item) : <<item>> \o s \in Seq(Item)
                BY <3>1, ConcatProperties
            <3> QED
                BY <3>2
        <2>7. \A rest \in D : Longer(i, rest) \in D
            BY <2>6 DEF item
        <2> QED
            BY <2>3, <2>7
    <1> HIDE DEF D, done, bad, Longer
    <1>4. next \in [1..n -> 1..(n + 1)] /\ \A i \in 1..n : next[i] > i
        <2>1. \A i \in 1..n : i + 1 \in 1..(n + 1) /\ i + 1 > i
            BY <1>1
        <2>2. \A i \in 1..n : ~Broken(text, i) => After(text, i) \in 1..(n + 1) /\ After(text, i) > i
            BY <1>3
        <2> QED
            BY <2>1, <2>2
    <1>5. F \in [1..n -> [D -> D]]
        BY <1>2, <1>3
    <1>6. /\ \A i \in 1..n, rest \in D : F[i][rest] = IF Broken(text, i) THEN bad ELSE Longer(i, rest)
          /\ \A i \in 1..n : ~Broken(text, i) => next[i] = After(text, i)
        OBVIOUS
    <1> HIDE DEF next, F, n
    <1>7. PICK f : Backwards(f, D, done, n, next, F)
        <2>1. \A i \in 1..n : next[i] > i
            BY <1>4
        <2>2. next \in [1..n -> 1..(n + 1)]
            BY <1>4
        <2> QED
            BY <1>1, <1>2, <1>5, <2>1, <2>2, BackwardsExists
    <1>8. /\ f \in [1..(n + 1) -> D] /\ f[n + 1] = done
           /\ \A i \in 1..n : f[i] = F[i][f[next[i]]]
        BY <1>7 DEF Backwards
    <1>9. ASSUME NEW i \in 1..n
          PROVE  f[i] = IF Broken(text, i) THEN bad ELSE Longer(i, f[After(text, i)])
        <2>1. f[next[i]] \in D
            BY <1>4, <1>8
        <2>2. f[i] = F[i][f[next[i]]]
            BY <1>8
        <2>3. F[i][f[next[i]]] = IF Broken(text, i) THEN bad ELSE Longer(i, f[next[i]])
            BY <1>6, <2>1
        <2> QED
            BY <1>6, <2>2, <2>3
    <1>10. f = Rec(f)
        <2>1. \A i \in 1..(n + 1) : i > n => i = n + 1
            BY <1>1
        <2>2. \A i \in 1..(n + 1) : ~(i > n) => i \in 1..n
            BY <1>1
        <2>3. \A i \in 1..(n + 1) : f[i] = Rec(f)[i]
            BY <1>8, <1>9, <2>1, <2>2
        <2>4. f = [i \in 1..(n + 1) |-> f[i]]
            BY <1>8
        <2> QED
            BY <2>3, <2>4
    <1> DEFINE parsed == CHOOSE h : h = Rec(h)
    <1>11. Parse(text) = parsed[1]
        BY DEF Parse, Broken, Header, After, Value, Longer, done, bad, n
    <1>12. parsed = Rec(parsed)
        BY <1>10
    <1> HIDE DEF parsed
    <1>13. Reading(parsed, text)
        BY <1>12 DEF Reading, Longer, done, bad, n
    <1> QED
        BY <1>11, <1>13

LEMMA DigitPair ==
    ASSUME NEW n \in 0..99
    PROVE  48 + n \div 10 \in Digit /\ 48 + (n % 10) \in Digit
    BY DEF Digit

LEMMA PairReads ==
    ASSUME NEW n \in 0..99, NEW text, NEW i \in Nat,
           text[i] = 48 + n \div 10, text[i + 1] = 48 + (n % 10)
    PROVE  Pair(text, i) = n
    <1>1. 10 * (48 + n \div 10 - 48) + (48 + (n % 10)) - 48 = n
        OBVIOUS
    <1> QED
        BY <1>1 DEF Pair

\* What Encode wrote at i is what the parser reads there.
LEMMA ReadsField ==
    ASSUME NEW text \in Text, NEW i \in Nat \ {0},
           NEW field \in Field, Len(field.value) <= maxValueLen,
           i + 3 + Len(field.value) <= Len(text),
           \A j \in 1..(4 + Len(field.value)) : text[i - 1 + j] = Encode(field)[j]
    PROVE  /\ ~Broken(text, i)
           /\ After(text, i) = i + 4 + Len(field.value)
           /\ TLV(Pair(text, i), Value(text, i)) = field
    <1> DEFINE m == Len(field.value)
    <1>1. /\ field.id \in 0..99 /\ field.value \in Text /\ m \in 0..99
          /\ Encode(field)[1] = 48 + field.id \div 10
          /\ Encode(field)[2] = 48 + (field.id % 10)
          /\ Encode(field)[3] = 48 + m \div 10
          /\ Encode(field)[4] = 48 + (m % 10)
          /\ \A j \in 1..m : Encode(field)[4 + j] = field.value[j]
        BY EncodeIs
    <1>2. Len(text) \in Nat /\ i + 3 + m <= Len(text)
          /\ \A j \in 1..(4 + m) : text[i - 1 + j] = Encode(field)[j]
        BY TextIs
    <1> HIDE DEF m
    <1>3. /\ text[i] = 48 + field.id \div 10 /\ text[i + 1] = 48 + (field.id % 10)
          /\ text[i + 2] = 48 + m \div 10 /\ text[i + 3] = 48 + (m % 10)
        <2>1. i - 1 + 1 = i /\ i - 1 + 2 = i + 1 /\ i - 1 + 3 = i + 2 /\ i - 1 + 4 = i + 3
            OBVIOUS
        <2>2. 1 \in 1..(4 + m) /\ 2 \in 1..(4 + m) /\ 3 \in 1..(4 + m) /\ 4 \in 1..(4 + m)
            BY <1>1
        <2>3. /\ text[i - 1 + 1] = Encode(field)[1] /\ text[i - 1 + 2] = Encode(field)[2]
              /\ text[i - 1 + 3] = Encode(field)[3] /\ text[i - 1 + 4] = Encode(field)[4]
            BY <1>2, <2>2
        <2> QED
            BY <1>1, <2>1, <2>3
    <1>4. Pair(text, i) = field.id /\ Pair(text, i + 2) = m
        <2>1. field.id \in 0..99 /\ m \in 0..99 /\ i + 2 \in Nat /\ i + 2 + 1 = i + 3
            BY <1>1
        <2>2. Pair(text, i) = field.id
            BY <1>3, <2>1, PairReads
        <2>3. Pair(text, i + 2) = m
            <3>1. text[i + 2] = 48 + m \div 10 /\ text[i + 2 + 1] = 48 + (m % 10)
                BY <1>3, <2>1
            <3> QED
                BY <2>1, <3>1, PairReads
        <2> QED
            BY <2>2, <2>3
    <1>5. After(text, i) = i + 4 + m
        BY <1>4 DEF After
    <1>6. Header(text, i)
        <2> DEFINE x == SubSeq(text, i, i + 3)
        <2>0. i + 3 <= Len(text)
            <3>1. m \in Nat
                BY <1>1
            <3>2. Len(text) \in Nat /\ i + 3 + m <= Len(text)
                BY <1>2
            <3> QED
                BY <3>1, <3>2
        <2>1. i \in Int /\ i + 3 \in Int /\ 1 <= i /\ i <= i + 3 + 1 /\ i + 3 <= Len(text)
              /\ i + 3 - i + 1 = 4 /\ text \in Seq(Byte)
            BY <2>0, ByteIs
        <2>2. /\ x \in Seq(Byte) /\ Len(x) = i + 3 - i + 1
              /\ \A j \in 1..(i + 3 - i + 1) : x[j] = text[i + j - 1]
            BY <2>1, PartIs
        <2> HIDE DEF x
        <2>3. Len(x) = 4 /\ \A j \in 1..4 : x[j] = text[i + j - 1]
            BY <2>1, <2>2
        <2>4. DOMAIN x = 1..4 /\ x # <<>>
            <3>1. DOMAIN x = 1..Len(x)
                BY <2>2, LenProperties
            <3>2. x = <<>> => Len(x) = 0
                OBVIOUS
            <3> QED
                BY <2>3, <3>1, <3>2
        <2>5. text[i] \in Digit /\ text[i + 1] \in Digit /\ text[i + 2] \in Digit /\ text[i + 3] \in Digit
            BY <1>1, <1>3, DigitPair
        <2>6. x[1] = text[i] /\ x[2] = text[i + 1] /\ x[3] = text[i + 2] /\ x[4] = text[i + 3]
            <3>1. i + 1 - 1 = i /\ i + 2 - 1 = i + 1 /\ i + 3 - 1 = i + 2 /\ i + 4 - 1 = i + 3
                OBVIOUS
            <3>2. /\ x[1] = text[i + 1 - 1] /\ x[2] = text[i + 2 - 1]
                  /\ x[3] = text[i + 3 - 1] /\ x[4] = text[i + 4 - 1]
                BY <2>3
            <3> QED
                BY <3>1, <3>2
        <2>7. \A j \in 1..4 : x[j] \in Digit
            BY <2>5, <2>6
        <2>8. isDigits(x)
            BY <2>4, <2>7 DEF isDigits
        <2> QED
            BY <2>1, <2>8 DEF Header, x
    <1>7. Value(text, i) = field.value
        <2> DEFINE lo == i + 4
                   hi == i + 4 + m - 1
                   x == SubSeq(text, lo, hi)
        <2>0. lo \in Int /\ hi \in Int /\ 1 <= lo /\ lo <= hi + 1 /\ hi <= Len(text) /\ hi - lo + 1 = m
            BY <1>1, <1>2
        <2>1. Value(text, i) = x
            <3>1. After(text, i) - 1 = hi
                <4>1. m \in Nat
                    BY <1>1
                <4> QED
                    BY <1>5, <4>1
            <3>2. Value(text, i) = SubSeq(text, lo, After(text, i) - 1)
                BY DEF Value
            <3> HIDE DEF lo, hi
            <3> QED
                BY <3>1, <3>2
        <2> HIDE DEF x, lo, hi
        <2>2. /\ x \in Seq(Byte) /\ Len(x) = hi - lo + 1
              /\ \A j \in 1..(hi - lo + 1) : x[j] = text[lo + j - 1]
            <3>1. text \in Seq(Byte)
                BY ByteIs
            <3> QED
                BY <2>0, <3>1, PartIs DEF x
        <2>3. lo = i + 4
            BY DEF lo
        <2>4. Len(x) = m /\ \A j \in 1..m : x[j] = text[i + 4 + j - 1]
            BY <2>0, <2>2, <2>3
        <2>5. \A j \in 1..m : text[i + 4 + j - 1] = field.value[j]
            <3> SUFFICES ASSUME NEW j \in 1..m
                         PROVE  text[i + 4 + j - 1] = field.value[j]
                OBVIOUS
            <3>1. i + 4 + j - 1 = i - 1 + (4 + j) /\ 4 + j \in 1..(4 + m)
                BY <1>1
            <3>2. text[i - 1 + (4 + j)] = Encode(field)[4 + j]
                BY <1>2, <3>1
            <3> QED
                BY <1>1, <3>1, <3>2
        <2>6. x = field.value
            <3>1. field.value \in Seq(Byte) /\ Len(field.value) = m
                BY <1>1, ByteIs DEF m
            <3>2. \A j \in 1..Len(x) : x[j] = field.value[j]
                BY <2>4, <2>5
            <3> QED
                BY <2>2, <2>4, <3>1, <3>2, SeqEqual
        <2> QED
            BY <2>1, <2>6
    <1>8. ~Broken(text, i)
        BY <1>1, <1>2, <1>5, <1>6 DEF Broken
    <1>9. TLV(Pair(text, i), Value(text, i)) = field
        <2>1. TLV(field.id, field.value) = field
            BY DEF TLV, Field
        <2> QED
            BY <1>4, <1>7, <2>1
    <1> QED
        BY <1>5, <1>8, <1>9 DEF m

\* What is joined so far is where the whole begins.
LEMMA JoinedSoFar ==
    ASSUME NEW n \in Nat, NEW fields \in [1..n -> Field], Encodes(fields),
           NEW join, Joined(join, n, fields)
    PROVE  \A k \in 0..n :
              /\ Len(join[k]) \in Nat /\ Len(join[k]) <= Len(join[n])
              /\ \A j \in 1..Len(join[k]) : join[n][j] = join[k][j]
    <1>1. join \in [0..n -> Text] /\ \A i \in 1..n : join[i] = join[i - 1] \o Encode(fields[i])
        BY DEF Joined
    <1>2. \A k \in 0..n : join[k] \in Text /\ Len(join[k]) \in Nat
        BY <1>1, TextIs
    <1> DEFINE Within(k) == /\ Len(join[k]) <= Len(join[n])
                            /\ \A j \in 1..Len(join[k]) : join[n][j] = join[k][j]
               T == {d \in 0..n : Within(n - d)}
    <1>3. 0 \in T
        <2>1. n - 0 = n /\ n \in 0..n
            OBVIOUS
        <2> QED
            BY <1>2, <2>1
    <1>4. ASSUME NEW d \in 1..n, d - 1 \in T
          PROVE  d \in T
        <2> DEFINE k == n - d
                   a == join[k]
                   e == Encode(fields[k + 1])
                   b == join[k + 1]
        <2>1. k \in 0..n /\ k + 1 \in 1..n /\ n - (d - 1) = k + 1 /\ k + 1 - 1 = k
            OBVIOUS
        <2>2. b = a \o e /\ a \in Text /\ e \in Text
            <3>1. Len(fields[k + 1].value) <= maxValueLen /\ fields[k + 1] \in Field
                BY <2>1 DEF Encodes
            <3>2. e \in Text
                BY <3>1, EncodeIs
            <3>3. join[k + 1] = join[k + 1 - 1] \o Encode(fields[k + 1])
                BY <1>1, <2>1
            <3> QED
                BY <1>2, <2>1, <3>2, <3>3
        <2>3. Within(k + 1)
            BY <1>4, <2>1
        <2> HIDE DEF k
        <2>4. Len(a) \in Nat /\ Len(e) \in Nat /\ Len(join[n]) \in Nat
            BY <1>2, <2>1, <2>2, TextIs
        <2>5. Len(b) = Len(a) + Len(e) /\ \A j \in 1..Len(a) : b[j] = a[j]
            <3> HIDE DEF a, e, b
            <3> QED
                BY <2>2, JoinIs
        <2>6. Len(b) <= Len(join[n]) /\ \A j \in 1..Len(b) : join[n][j] = b[j]
            BY <2>3
        <2>7. Within(k)
            <3> DEFINE la == Len(a)
                       lb == Len(b)
                       ln == Len(join[n])
                       le == Len(e)
            <3>1. la \in Nat /\ le \in Nat /\ ln \in Nat /\ lb = la + le /\ lb <= ln
                BY <2>4, <2>5, <2>6
            <3> HIDE DEF b, la, lb, ln, le
            <3>2. la <= ln
                BY <3>1
            <3>3. \A j \in 1..la : j \in 1..lb
                BY <3>1
            <3> USE DEF la, lb, ln
            <3>4. \A j \in 1..Len(a) : join[n][j] = a[j]
                BY <2>5, <2>6, <3>3
            <3> QED
                BY <3>2, <3>4
        <2> HIDE DEF Within
        <2> QED
            BY <2>7 DEF k
    <1> HIDE DEF T
    <1>5. \A d \in 0..n : d \in T
        <2>1. \A d \in 1..n : d - 1 \in T => d \in T
            BY <1>4
        <2> QED
            BY <1>3, <2>1, Ladder
    <1>6. \A k \in 0..n : Within(k)
        <2> SUFFICES ASSUME NEW k \in 0..n
                     PROVE  Within(k)
            OBVIOUS
        <2>1. n - k \in 0..n /\ n - (n - k) = k
            OBVIOUS
        <2> HIDE DEF Within
        <2>2. Within(n - (n - k))
            BY <1>5, <2>1 DEF T
        <2> QED
            BY <2>1, <2>2
    <1> QED
        BY <1>2, <1>6

LEMMA FieldFits ==
    ASSUME NEW n \in Nat, NEW fields \in [1..n -> Field], Encodes(fields), NEW i \in 1..n
    PROVE  fields[i] \in Field /\ Len(fields[i].value) <= maxValueLen
    BY DEF Encodes

LEMMA NothingOf ==
    ASSUME NEW S, NEW s \in Seq(S), NEW n \in Nat, Len(s) = n
    PROVE  SubSeq(s, n + 1, n) = <<>>
    <1> DEFINE x == SubSeq(s, n + 1, n)
    <1>1. x \in Seq(S) /\ Len(x) = n - (n + 1) + 1
        BY PartIs
    <1>2. n - (n + 1) + 1 = 0
        OBVIOUS
    <1> HIDE DEF x
    <1>3. x = <<>>
        BY <1>1, <1>2, EmptySeq
    <1> QED
        BY <1>3 DEF x

\* Parse of the fields that were joined.
LEMMA ParseJoined ==
    ASSUME NEW n \in Nat, NEW fields \in [1..n -> Field], Encodes(fields),
           NEW join, Joined(join, n, fields)
    PROVE  Parse(join[n]) = [ok |-> TRUE, fields |-> fields]
    <1> DEFINE text == join[n]
               From(k) == Len(join[k]) + 1
               Read(k) == [ok |-> TRUE, fields |-> SubSeq(fields, k + 1, n)]
    <1>1. join \in [0..n -> Text] /\ join[0] = <<>>
          /\ \A i \in 1..n : join[i] = join[i - 1] \o Encode(fields[i])
        BY DEF Joined
    <1>2. fields \in Seq(Field) /\ Len(fields) = n
        BY RowIs
    <1>3. \A k \in 0..n : /\ Len(join[k]) \in Nat /\ Len(join[k]) <= Len(text)
                          /\ \A j \in 1..Len(join[k]) : text[j] = join[k][j]
        BY JoinedSoFar
    <1>4. text \in Text /\ Len(text) \in Nat
        BY <1>1, TextIs
    <1>5. PICK parsed : Reading(parsed, text) /\ Parse(text) = parsed[1]
        BY <1>4, ParseIs
    <1>6. \A i \in 1..(Len(text) + 1) :
             parsed[i] =
                 IF i > Len(text) THEN [ok |-> TRUE, fields |-> <<>>]
                 ELSE IF Broken(text, i) THEN [ok |-> FALSE, fields |-> <<>>]
                 ELSE [parsed[After(text, i)] EXCEPT !.fields =
                          <<TLV(Pair(text, i), Value(text, i))>> \o @]
        BY <1>5 DEF Reading
    <1>7. parsed[From(n)] = Read(n)
        <2>1. From(n) \in 1..(Len(text) + 1) /\ From(n) > Len(text)
            BY <1>4
        <2>2. SubSeq(fields, n + 1, n) = <<>>
            BY <1>2, NothingOf
        <2> QED
            BY <1>6, <2>1, <2>2
    <1>8. ASSUME NEW k \in 0..(n - 1), parsed[From(k + 1)] = Read(k + 1)
          PROVE  parsed[From(k)] = Read(k)
        <2> DEFINE a == join[k]
                   b == join[k + 1]
                   f == fields[k + 1]
                   e == Encode(f)
                   la == Len(a)
                   m == Len(f.value)
                   i == From(k)
        <2>1. k \in 0..n /\ k + 1 \in 0..n /\ k + 1 \in 1..n /\ k + 1 - 1 = k
            OBVIOUS
        <2>2. f \in Field /\ Len(f.value) <= maxValueLen
            BY <2>1, FieldFits
        <2>3. e \in Text /\ Len(e) = 4 + m /\ m \in 0..99
            BY <2>2, EncodeIs
        <2>4. b = a \o e /\ a \in Text
            <3>1. join[k + 1] = join[k + 1 - 1] \o Encode(fields[k + 1])
                BY <1>1, <2>1
            <3> QED
                BY <1>1, <2>1, <3>1
        <2>5. /\ la \in Nat
              /\ Len(b) <= Len(text) /\ \A j \in 1..Len(b) : text[j] = b[j]
            BY <1>3, <2>1
        <2>6. i = la + 1 /\ From(k + 1) = Len(b) + 1
            OBVIOUS
        <2> HIDE DEF e, b, i, a
        <2>7. Len(b) = la + Len(e) /\ \A j \in 1..Len(e) : b[la + j] = e[j]
            BY <2>3, <2>4, JoinIs
        <2> HIDE DEF la, m
        <2>8. Len(b) = la + 4 + m /\ \A j \in 1..(4 + m) : b[la + j] = e[j]
            BY <2>3, <2>5, <2>7
        <2>9. la + 4 + m <= Len(text) /\ \A j \in 1..(4 + m) : text[i - 1 + j] = e[j]
            <3>1. la + 4 + m <= Len(text)
                BY <2>5, <2>8
            <3>2. ASSUME NEW j \in 1..(4 + m)
                  PROVE  text[i - 1 + j] = e[j]
                <4>1. i - 1 + j = la + j /\ la + j \in 1..(la + 4 + m)
                    <5>1. la \in Nat /\ m \in Nat /\ i = la + 1
                        BY <2>3, <2>5, <2>6
                    <5> QED
                        BY <5>1
                <4>2. text[la + j] = b[la + j]
                    BY <2>5, <2>8, <4>1
                <4> QED
                    BY <2>8, <4>1, <4>2
            <3> QED
                BY <3>1, <3>2
        <2>10. i \in Nat \ {0} /\ i + 3 + m <= Len(text) /\ i \in 1..(Len(text) + 1) /\ ~(i > Len(text))
            <3> HIDE DEF text
            <3>1. la \in Nat /\ m \in Nat /\ i = la + 1
                BY <2>3, <2>5, <2>6
            <3>2. la + 4 + m <= Len(text) /\ Len(text) \in Nat
                BY <1>4, <2>9
            <3> QED
                BY <3>1, <3>2
        <2> HIDE DEF f
        <2>11. /\ ~Broken(text, i)
               /\ After(text, i) = i + 4 + m
               /\ TLV(Pair(text, i), Value(text, i)) = f
            <3>1. i + 3 + Len(f.value) <= Len(text)
                BY <2>10 DEF m
            <3>2. \A j \in 1..(4 + Len(f.value)) : text[i - 1 + j] = Encode(f)[j]
                BY <2>9 DEF m, e
            <3> HIDE DEF text
            <3> QED
                BY <1>4, <2>2, <2>10, <3>1, <3>2, ReadsField DEF m
        <2>12. After(text, i) = From(k + 1)
            BY <2>3, <2>5, <2>6, <2>8, <2>11
        <2>13. parsed[i] = [parsed[After(text, i)] EXCEPT !.fields =
                               <<TLV(Pair(text, i), Value(text, i))>> \o @]
            BY <1>6, <2>10, <2>11
        <2> DEFINE rest == SubSeq(fields, k + 1 + 1, n)
        <2>14. parsed[i] = [Read(k + 1) EXCEPT !.fields = <<f>> \o @]
            BY <1>8, <2>11, <2>12, <2>13
        <2>15. SubSeq(fields, k + 1, n) = <<f>> \o SubSeq(fields, k + 1 + 1, n)
            <3>1. k + 1 \in 1..Len(fields) /\ n \in (k + 1)..Len(fields)
                BY <1>2
            <3>2. SubSeq(fields, k + 1, n) = <<fields[k + 1]>> \o SubSeq(fields, k + 1 + 1, n)
                BY <1>2, <3>1, SubSeqRecursiveFirst
            <3> QED
                BY <3>2 DEF f
        <2>16. parsed[i] = [ok |-> TRUE, fields |-> <<f>> \o SubSeq(fields, k + 1 + 1, n)]
            BY <2>14
        <2> QED
            BY <2>15, <2>16 DEF i
    <1> HIDE DEF From, Read
    <1> DEFINE T == {d \in 0..n : parsed[From(n - d)] = Read(n - d)}
    <1>9. 0 \in T
        <2>1. n - 0 = n
            OBVIOUS
        <2> QED
            BY <1>7, <2>1
    <1>10. \A d \in 1..n : d - 1 \in T => d \in T
        <2> SUFFICES ASSUME NEW d \in 1..n, parsed[From(n - (d - 1))] = Read(n - (d - 1))
                     PROVE  parsed[From(n - d)] = Read(n - d)
            OBVIOUS
        <2>1. n - d \in 0..(n - 1) /\ n - (d - 1) = n - d + 1
            OBVIOUS
        <2> QED
            BY <1>8, <2>1
    <1>11. \A d \in 0..n : d \in T
        <2> HIDE DEF T
        <2> QED
            BY <1>9, <1>10, Ladder
    <1>12. parsed[From(0)] = Read(0)
        <2>1. n \in 0..n /\ n - n = 0
            OBVIOUS
        <2>2. parsed[From(n - n)] = Read(n - n)
            BY <1>11, <2>1
        <2> QED
            BY <2>1, <2>2
    <1>13. From(0) = 1
        <2>1. Len(<<>>) = 0
            OBVIOUS
        <2> QED
            BY <1>1, <2>1 DEF From
    <1>14. Read(0) = [ok |-> TRUE, fields |-> fields]
        <2>1. SubSeq(fields, 0 + 1, n) = SubSeq(fields, 1, Len(fields))
            BY <1>2
        <2>2. SubSeq(fields, 1, Len(fields)) = fields
            BY <1>2, SubSeqFull
        <2> QED
            BY <2>1, <2>2 DEF Read
    <1> QED
        BY <1>5, <1>12, <1>13, <1>14

\* Parse inverts EncodeAll, on any fields of at most 99 bytes each.
THEOREM ParseInverts ==
    ASSUME NEW n \in Nat, NEW fields \in [1..n -> Field], Encodes(fields)
    PROVE  Parse(EncodeAll(fields)) = [ok |-> TRUE, fields |-> fields]
    <1>1. PICK join : Joined(join, n, fields) /\ EncodeAll(fields) = join[n]
        BY EncodeAllJoins
    <1> QED
        BY <1>1, ParseJoined

-----------------------------------------------------------------------------
(***************************************************************************)
(* Amounts: parsed, printed and parsed again.                              *)
(***************************************************************************)
LEMMA PartOf ==
    ASSUME NEW s \in Text, NEW m \in Int, NEW n \in Int, 1 <= m, m <= n + 1, n <= Len(s)
    PROVE  /\ SubSeq(s, m, n) \in Text
           /\ Len(SubSeq(s, m, n)) = n - m + 1
           /\ \A i \in 1..(n - m + 1) : SubSeq(s, m, n)[i] = s[m + i - 1]
    BY PartIs, ByteIs

LEMMA SameText ==
    ASSUME NEW s \in Text, NEW t \in Text, Len(s) = Len(t), \A i \in 1..Len(s) : s[i] = t[i]
    PROVE  s = t
    BY SeqEqual, ByteIs

\* The second of two texts, cut out again.
LEMMA BackOf ==
    ASSUME NEW s \in Text, NEW t \in Text
    PROVE  SubSeq(s \o t, Len(s) + 1, Len(s \o t)) = t
    <1> DEFINE u == s \o t
               k == Len(s)
               n == Len(u)
               x == SubSeq(u, k + 1, n)
    <1>1. u \in Text /\ n = k + Len(t) /\ \A i \in 1..Len(t) : u[k + i] = t[i]
        BY JoinIs
    <1>2. k \in Nat /\ Len(t) \in Nat
        BY TextIs
    <1> HIDE DEF k
    <1>3. k + 1 \in Int /\ n \in Int /\ 1 <= k + 1 /\ k + 1 <= n + 1 /\ n <= Len(u)
        BY <1>1, <1>2
    <1> HIDE DEF u, n
    <1>4. /\ x \in Text /\ Len(x) = n - (k + 1) + 1
          /\ \A i \in 1..(n - (k + 1) + 1) : x[i] = u[k + 1 + i - 1]
        BY <1>1, <1>3, PartOf DEF n
    <1> HIDE DEF x
    <1>5. n - (k + 1) + 1 = Len(t)
        BY <1>1, <1>2
    <1>6. Len(x) = Len(t) /\ \A i \in 1..Len(x) : x[i] = t[i]
        <2>1. Len(x) = Len(t) /\ \A i \in 1..Len(t) : x[i] = u[k + 1 + i - 1]
            BY <1>4, <1>5
        <2>2. \A i \in 1..Len(t) : k + 1 + i - 1 = k + i
            BY <1>2
        <2>3. \A i \in 1..Len(t) : x[i] = t[i]
            BY <1>1, <2>1, <2>2
        <2> QED
            BY <2>1, <2>3
    <1>7. x = t
        BY <1>4, <1>6, SameText
    <1> QED
        BY <1>7 DEF x, u, k, n

\* A text cut in two and joined.
LEMMA Rejoined ==
    ASSUME NEW s \in Text, NEW k \in Nat, k <= Len(s)
    PROVE  SubSeq(s, 1, k) \o SubSeq(s, k + 1, Len(s)) = s
    <1> DEFINE n == Len(s)
    <1>1. s \in Seq(Byte) /\ n \in Nat
        BY ByteIs, TextIs
    <1>2. 1 \in 1..(n + 1) /\ k \in (1 - 1)..n /\ n \in k..n
        BY <1>1
    <1>3. SubSeq(s, 1, k) \o SubSeq(s, k + 1, n) = SubSeq(s, 1, n)
        BY <1>1, <1>2, ConcatAdjacentSubSeq
    <1>4. SubSeq(s, 1, n) = s
        BY <1>1, SubSeqFull
    <1> QED
        BY <1>3, <1>4

Digits(s) == \A i \in 1..Len(s) : s[i] \in Digit

\* What is left of a number's digits does not start with a zero.
LEMMA NumberIs ==
    ASSUME NEW digits \in Text
    PROVE  /\ Number(digits) \in Text
           /\ Len(Number(digits)) <= Len(digits)
           /\ Len(Number(digits)) >= 1 => Number(digits)[1] # 48
           /\ Digits(digits) => Digits(Number(digits))
    <1> DEFINE n == Len(digits)
               T == {i \in DOMAIN digits : digits[i] # 48} \cup {n + 1}
               first == Min(T)
               x == SubSeq(digits, first, n)
    <1>1. n \in Nat /\ DOMAIN digits = 1..n
        BY LenProperties, ByteIs
    <1>2. T \in SUBSET Nat /\ T # {} /\ \A i \in T : i \in 1..(n + 1) /\ (i <= n => digits[i] # 48)
        BY <1>1
    <1>3. first \in 1..(n + 1) /\ (first <= n => digits[first] # 48)
        <2> HIDE DEF T
        <2>1. first \in T
            BY <1>2, MinIs
        <2> HIDE DEF first
        <2> QED
            BY <1>2, <2>1
    <1>4. Number(digits) = x
        BY DEF Number
    <1> HIDE DEF first
    <1>5. first \in Int /\ n \in Int /\ 1 <= first /\ first <= n + 1 /\ n <= Len(digits)
        BY <1>1, <1>3
    <1>6. /\ x \in Text /\ Len(x) = n - first + 1
          /\ \A i \in 1..(n - first + 1) : x[i] = digits[first + i - 1]
        BY <1>5, PartOf
    <1> HIDE DEF x, n
    <1>7. Len(x) <= n
        BY <1>1, <1>3, <1>6
    <1>8. Len(x) >= 1 => x[1] # 48
        <2>1. first + 1 - 1 = first
            BY <1>3
        <2> QED
            BY <1>1, <1>3, <1>6, <2>1
    <1>9. (\A i \in 1..n : digits[i] \in Digit) => \A i \in 1..Len(x) : x[i] \in Digit
        <2>1. \A i \in 1..(n - first + 1) : first + i - 1 \in 1..n
            BY <1>1, <1>3
        <2> QED
            BY <1>6, <2>1
    <1> QED
        BY <1>4, <1>6, <1>7, <1>8, <1>9 DEF Digits, n

\* Zeros in front make no other number.
LEMMA NumberPadded ==
    ASSUME NEW z \in Nat, NEW c \in Text, Len(c) >= 1 => c[1] # 48
    PROVE  Number(Times(z, 48) \o c) = c
    <1> DEFINE zeros == Times(z, 48)
               x == zeros \o c
               T == {i \in DOMAIN x : x[i] # 48} \cup {Len(x) + 1}
    <1>1. zeros \in Text /\ Len(zeros) = z /\ \A i \in 1..z : zeros[i] = 48
        <2>1. 48 \in Byte
            BY DEF Byte
        <2> QED
            BY <2>1, TimesIs DEF Times
    <1>2. Len(c) \in Nat
        BY TextIs
    <1> HIDE DEF zeros
    <1>3. /\ x \in Text /\ Len(x) = Len(zeros) + Len(c)
          /\ \A i \in 1..Len(zeros) : x[i] = zeros[i]
          /\ \A i \in 1..Len(c) : x[Len(zeros) + i] = c[i]
        <2>1. zeros \in Text
            BY <1>1
        <2> QED
            BY <2>1, JoinIs
    <1> HIDE DEF x
    <1>4. DOMAIN x = 1..(z + Len(c)) /\ Len(x) = z + Len(c)
        <2>1. DOMAIN x = 1..Len(x)
            BY <1>3, LenProperties, ByteIs
        <2> QED
            BY <1>1, <1>3, <2>1
    <1>5. T \in SUBSET Nat /\ T # {}
        BY <1>2, <1>4
    <1>6. z + 1 \in T
        <2>1. CASE Len(c) = 0
            BY <1>4, <2>1
        <2>2. CASE Len(c) # 0
            <3>1. 1 \in 1..Len(c) /\ z + 1 \in 1..(z + Len(c))
                BY <1>2, <2>2
            <3>2. x[z + 1] = c[1] /\ c[1] # 48
                BY <1>1, <1>2, <1>3, <2>2, <3>1
            <3> QED
                BY <1>4, <3>1, <3>2
        <2> QED
            BY <2>1, <2>2
    <1>7. \A i \in T : i >= z + 1
        BY <1>1, <1>2, <1>3, <1>4
    <1>8. Min(T) = z + 1
        <2> HIDE DEF T
        <2>1. Min(T) \in T /\ Min(T) \in Nat /\ \A y \in T : Min(T) <= y
            BY <1>5, MinIs
        <2> DEFINE first == Min(T)
        <2>2. first \in Nat /\ first <= z + 1 /\ first >= z + 1
            BY <1>6, <1>7, <2>1
        <2> HIDE DEF first
        <2>3. first = z + 1
            BY <2>2
        <2> QED
            BY <2>3 DEF first
    <1>9. Number(x) = SubSeq(x, z + 1, Len(x))
        BY <1>8 DEF Number
    <1>10. SubSeq(x, z + 1, Len(x)) = c
        BY <1>1, BackOf DEF x
    <1> QED
        BY <1>9, <1>10 DEF x, zeros

\* Digits, a dot and two digits, taken apart at the dot.
LEMMA DotSplits ==
    ASSUME NEW w \in Text, NEW f \in Text, Digits(w),
           NEW text, text = w \o <<Dot>> \o f
    PROVE  /\ text \in Text /\ Len(text) = Len(w) + 1 + Len(f)
           /\ HasDot(text) /\ Whole(text) = w /\ Frac(text) = f
    <1> DEFINE dot == <<Dot>>
               front == w \o dot
               m == Len(w)
               T == {i \in DOMAIN text : text[i] = Dot}
    <1>1. dot \in Text /\ Len(dot) = 1 /\ dot[1] = Dot
        <2>1. dot \in [1..1 -> Byte]
            BY DEF Dot, Byte
        <2>2. dot \in Text /\ Len(dot) = 1
            BY <2>1, MadeOf
        <2> QED
            BY <2>2
    <1> HIDE DEF dot
    <1>2. m \in Nat /\ Len(f) \in Nat
        BY TextIs
    <1>3. /\ front \in Text /\ Len(front) = m + Len(dot)
          /\ \A i \in 1..m : front[i] = w[i]
          /\ \A i \in 1..Len(dot) : front[m + i] = dot[i]
        BY <1>1, JoinIs
    <1>4. front \in Text /\ Len(front) = m + 1 /\ front[m + 1] = Dot /\ \A i \in 1..m : front[i] = w[i]
        <2> HIDE DEF front
        <2>1. 1 \in 1..Len(dot)
            BY <1>1
        <2>2. front[m + 1] = dot[1]
            BY <1>3, <2>1
        <2> QED
            BY <1>1, <1>3, <2>2
    <1>5. text = front \o f
        BY DEF dot
    <1>6. /\ text \in Text /\ Len(text) = Len(front) + Len(f)
          /\ \A i \in 1..Len(front) : text[i] = front[i]
        <2> HIDE DEF front
        <2>1. /\ front \o f \in Text /\ Len(front \o f) = Len(front) + Len(f)
              /\ \A i \in 1..Len(front) : (front \o f)[i] = front[i]
            BY <1>4, JoinIs
        <2> QED
            BY <1>5, <2>1
    <1>7. DOMAIN text = 1..Len(text)
        BY <1>6, LenProperties, ByteIs
    <1> HIDE DEF m
    <1>8. Len(text) = m + 1 + Len(f) /\ text[m + 1] = Dot /\ m + 1 \in 1..Len(text)
          /\ \A i \in 1..m : text[i] = w[i]
        <2> HIDE DEF front
        <2>1. m + 1 \in 1..Len(front) /\ \A i \in 1..m : i \in 1..Len(front)
            BY <1>2, <1>4
        <2> QED
            BY <1>2, <1>4, <1>6, <2>1
    <1>9. m + 1 \in T /\ T \in SUBSET Nat /\ HasDot(text)
        BY <1>7, <1>8 DEF HasDot
    <1>10. \A i \in T : i >= m + 1
        <2> SUFFICES ASSUME NEW i \in 1..Len(text), text[i] = Dot, ~(i >= m + 1)
                     PROVE  FALSE
            BY <1>7
        <2>1. i \in 1..m
            BY <1>2
        <2>2. text[i] = w[i] /\ w[i] \in Digit
            BY <1>8, <2>1 DEF Digits, m
        <2>3. w[i] = Dot /\ w[i] \in Digit
            BY <2>2
        <2>4. Dot \notin Digit
            BY DEF Digit, Dot
        <2> QED
            BY <2>3, <2>4
    <1>11. DotAt(text) = m + 1
        <2> HIDE DEF T
        <2> DEFINE at == Min(T)
        <2>1. at \in T /\ \A y \in T : at <= y
            BY <1>9, MinIs
        <2>2. at \in Nat /\ at <= m + 1 /\ at >= m + 1
            BY <1>9, <1>10, <2>1
        <2> HIDE DEF at
        <2>3. at = m + 1
            BY <1>2, <2>2
        <2> QED
            BY <2>3 DEF at, T, DotAt
    <1>12. Whole(text) = w
        <2>1. Whole(text) = SubSeq(text, 1, m)
            <3>1. DotAt(text) - 1 = m
                BY <1>2, <1>11
            <3>2. Whole(text) = SubSeq(text, 1, DotAt(text) - 1)
                BY DEF Whole
            <3> QED
                BY <3>1, <3>2
        <2>2. dot \o f \in Text
            BY <1>1, JoinIs
        <2>3. m \in Int /\ 1 \in Int /\ 1 <= 1 /\ 1 <= m + 1 /\ m <= Len(text) /\ m - 1 + 1 = m
            BY <1>2, <1>8
        <2> DEFINE x == SubSeq(text, 1, m)
        <2>4. x \in Text /\ Len(x) = m - 1 + 1 /\ \A i \in 1..(m - 1 + 1) : x[i] = text[1 + i - 1]
            BY <1>6, <2>3, PartOf
        <2> HIDE DEF x
        <2>5. \A i \in 1..m : 1 + i - 1 = i
            BY <1>2
        <2>6. Len(x) = m /\ \A i \in 1..m : x[i] = w[i]
            BY <1>8, <2>3, <2>4, <2>5
        <2>7. x = w
            BY <2>4, <2>6, SameText DEF m
        <2> QED
            BY <2>1, <2>7 DEF x
    <1>13. Frac(text) = f
        <2>1. Frac(text) = SubSeq(text, m + 1 + 1, Len(text))
            BY <1>11 DEF Frac
        <2>2. SubSeq(front \o f, Len(front) + 1, Len(front \o f)) = f
            <3> HIDE DEF front
            <3> QED
                BY <1>4, BackOf
        <2> HIDE DEF front
        <2>3. Len(front) + 1 = m + 1 + 1
            BY <1>4
        <2> QED
            BY <1>5, <2>1, <2>2, <2>3
    <1> QED
        BY <1>6, <1>8, <1>9, <1>12, <1>13 DEF m

LEMMA DigitsAre ==
    ASSUME NEW s \in Text
    PROVE  /\ isDigits(s) => Digits(s)
           /\ Digits(s) /\ Len(s) >= 1 => isDigits(s)
    <1>1. DOMAIN s = 1..Len(s)
        BY LenProperties, ByteIs
    <1>2. s = <<>> => Len(s) = 0
        OBVIOUS
    <1> QED
        BY <1>1, <1>2 DEF isDigits, Digits

LEMMA DigitsJoined ==
    ASSUME NEW s \in Text, NEW t \in Text, Digits(s), Digits(t)
    PROVE  Digits(s \o t)
    <1> DEFINE u == s \o t
    <1>1. /\ u \in Text /\ Len(u) = Len(s) + Len(t)
          /\ \A i \in 1..Len(s) : u[i] = s[i]
          /\ \A i \in 1..Len(t) : u[Len(s) + i] = t[i]
        BY JoinIs
    <1>2. Len(s) \in Nat /\ Len(t) \in Nat
        BY TextIs
    <1> HIDE DEF u
    <1>3. ASSUME NEW i \in 1..Len(u)
          PROVE  u[i] \in Digit
        <2>1. CASE i <= Len(s)
            BY <1>1, <1>2, <2>1 DEF Digits
        <2>2. CASE ~(i <= Len(s))
            <3>1. i - Len(s) \in 1..Len(t) /\ Len(s) + (i - Len(s)) = i
                BY <1>1, <1>2, <2>2
            <3> QED
                BY <1>1, <3>1 DEF Digits
        <2> QED
            BY <2>1, <2>2
    <1> QED
        BY <1>3 DEF Digits, u

\* The digits of an accepted amount: a number of at most twelve.
LEMMA CentsAre ==
    ASSUME NEW text \in Text, IsAmount(text)
    PROVE  LET cents == ParseAmount(text) IN
           /\ cents \in Text /\ Len(cents) \in 0..12 /\ Digits(cents)
           /\ Len(cents) >= 1 => cents[1] # 48
    <1> DEFINE T == {i \in DOMAIN text : text[i] = Dot}
               at == DotAt(text)
               cents == ParseAmount(text)
    <1>1. Len(text) \in Nat /\ DOMAIN text = 1..Len(text)
        BY LenProperties, ByteIs
    <1>2. T \in SUBSET Nat /\ T # {} /\ T \subseteq 1..Len(text)
        BY <1>1 DEF IsAmount, HasDot
    <1>3. at \in 1..Len(text)
        <2> HIDE DEF T
        <2>1. Min(T) \in 1..Len(text)
            BY <1>2, MinIs
        <2> QED
            BY <2>1 DEF DotAt, T
    <1>4. Whole(text) \in Text /\ Frac(text) \in Text
        <2> HIDE DEF at
        <2>1. at - 1 \in Int /\ at - 1 <= Len(text) /\ at + 1 \in Int /\ 1 <= at + 1
            BY <1>1, <1>3
        <2>2. SubSeq(text, 1, at - 1) \in Text
            BY <1>1, <2>1, PartTyped
        <2>3. SubSeq(text, at + 1, Len(text)) \in Text
            BY <1>1, <2>1, PartTyped
        <2> QED
            BY <2>2, <2>3 DEF Whole, Frac, at
    <1>5. Digits(Whole(text)) /\ Digits(Frac(text))
        BY <1>4, DigitsAre DEF IsAmount
    <1>6. Whole(text) \o Frac(text) \in Text /\ Digits(Whole(text) \o Frac(text))
        BY <1>4, <1>5, JoinIs, DigitsJoined
    <1>7. cents \in Text /\ Digits(cents) /\ (Len(cents) >= 1 => cents[1] # 48)
        BY <1>6, NumberIs DEF ParseAmount
    <1>8. Len(cents) <= 12
        BY DEF IsAmount, maxAmountLen
    <1> HIDE DEF cents
    <1>9. Len(cents) \in 0..12
        <2> DEFINE m == Len(cents)
        <2>1. m \in Nat /\ m <= 12
            BY <1>7, <1>8, TextIs
        <2> HIDE DEF m
        <2>2. m \in 0..12
            BY <2>1
        <2> QED
            BY <2>2 DEF m
    <1> QED
        BY <1>7, <1>9 DEF cents

\* Padded to three digits.
LEMMA PaddedIs ==
    ASSUME NEW c \in Text, Len(c) \in 0..12, Digits(c), Len(c) >= 1 => c[1] # 48
    PROVE  /\ Padded(c, 3) \in Text /\ Len(Padded(c, 3)) \in 3..12
           /\ Digits(Padded(c, 3)) /\ Number(Padded(c, 3)) = c
    <1> DEFINE m == Len(c)
               short == 3 - m
               missing == IF short > 0 THEN short ELSE 0
               zeros == Times(missing, 48)
    <1>1. m \in 0..12
        OBVIOUS
    <1> HIDE DEF m
    <1>2. Max({0, short}) = missing
        <2>1. missing \in {0, short} /\ \A y \in {0, short} : missing >= y
            BY <1>1
        <2>2. \A x \in {0, short} : (\A y \in {0, short} : x >= y) => x = missing
            BY <1>1
        <2> HIDE DEF short, missing
        <2> QED
            BY <2>1, <2>2 DEF Max
    <1>3. missing \in 0..3 /\ missing + m \in 3..12
        BY <1>1
    <1>4. Padded(c, 3) = zeros \o c
        BY <1>2 DEF Padded, Times, m
    <1> HIDE DEF short, missing
    <1>5. zeros \in Text /\ Len(zeros) = missing /\ Digits(zeros)
        <2>1. 48 \in Byte /\ 48 \in Digit
            BY DEF Byte, Digit
        <2>2. zeros \in Text /\ Len(zeros) = missing
            BY <1>3, <2>1, TimesIs
        <2>3. \A i \in 1..missing : zeros[i] = 48
            BY DEF Times
        <2> HIDE DEF zeros
        <2> QED
            BY <2>1, <2>2, <2>3 DEF Digits
    <1>6. Number(zeros \o c) = c
        <2>1. missing \in Nat
            BY <1>3
        <2> QED
            BY <2>1, NumberPadded
    <1> HIDE DEF zeros
    <1>7. zeros \o c \in Text /\ Len(zeros \o c) = missing + m /\ Digits(zeros \o c)
        <2>1. zeros \o c \in Text /\ Len(zeros \o c) = Len(zeros) + Len(c)
            BY <1>5, JoinIs
        <2>2. Digits(zeros \o c)
            BY <1>5, DigitsJoined
        <2> QED
            BY <1>5, <2>1, <2>2 DEF m
    <1>8. Len(zeros \o c) \in 3..12
        BY <1>3, <1>7
    <1> QED
        BY <1>4, <1>6, <1>7, <1>8

\* An accepted amount, parsed and printed, is an amount of the same cents.
LEMMA AmountCarries ==
    ASSUME NEW text \in Text, IsAmount(text)
    PROVE  LET a == FormatAmount(ParseAmount(text)) IN
           /\ a \in Text /\ Len(a) \in 4..13
           /\ IsAmount(a) /\ ParseAmount(a) = ParseAmount(text)
    <1> DEFINE cents == ParseAmount(text)
               digits == Padded(cents, 3)
               n == Len(digits)
               w == SubSeq(digits, 1, n - 2)
               f == SubSeq(digits, n - 1, n)
               a == w \o <<Dot>> \o f
    <1>1. cents \in Text /\ Len(cents) \in 0..12 /\ Digits(cents) /\ (Len(cents) >= 1 => cents[1] # 48)
        BY CentsAre
    <1>2. FormatAmount(cents) = a
        BY DEF FormatAmount
    <1> HIDE DEF cents
    <1>3. digits \in Text /\ n \in 3..12 /\ Digits(digits) /\ Number(digits) = cents
        BY <1>1, PaddedIs
    <1> HIDE DEF digits
    <1>4. w \in Text /\ Len(w) = n - 2 /\ Digits(w)
        <2> DEFINE k == n - 2
        <2>0. k \in Int /\ 1 <= k + 1 /\ k <= n /\ k - 1 + 1 = k
            <3> HIDE DEF n
            <3> QED
                BY <1>3
        <2> HIDE DEF k
        <2>1. 1 \in Int /\ 1 <= 1 /\ k \in Int /\ 1 <= k + 1 /\ k <= Len(digits)
            BY <2>0
        <2>2. /\ w \in Text /\ Len(w) = k - 1 + 1
              /\ \A i \in 1..(k - 1 + 1) : w[i] = digits[1 + i - 1]
            BY <1>3, <2>1, PartOf DEF k
        <2> HIDE DEF w
        <2>3. \A i \in 1..k : 1 + i - 1 = i /\ i \in 1..n
            BY <1>3, <2>0
        <2>4. Len(w) = k /\ \A i \in 1..k : w[i] \in Digit
            BY <1>3, <2>0, <2>2, <2>3 DEF Digits
        <2> QED
            BY <2>2, <2>4 DEF k, Digits
    <1>5. f \in Text /\ Len(f) = 2 /\ Digits(f)
        <2> DEFINE k == n - 1
        <2>0. k \in Int /\ 1 <= k /\ k <= n + 1 /\ n - k + 1 = 2 /\ n \in Int
            <3> HIDE DEF n
            <3> QED
                BY <1>3
        <2> HIDE DEF k
        <2>1. n <= Len(digits)
            BY <2>0
        <2>2. /\ f \in Text /\ Len(f) = n - k + 1
              /\ \A i \in 1..(n - k + 1) : f[i] = digits[k + i - 1]
            BY <1>3, <2>0, <2>1, PartOf DEF k
        <2> HIDE DEF f
        <2>3. \A i \in 1..2 : k + i - 1 \in 1..n
            BY <1>3, <2>0
        <2>4. Len(f) = 2 /\ \A i \in 1..2 : f[i] \in Digit
            BY <1>3, <2>0, <2>2, <2>3 DEF Digits
        <2> QED
            BY <2>2, <2>4 DEF Digits
    <1>6. w \o f = digits
        <2> DEFINE k == n - 2
        <2>1. k \in Nat /\ k <= n /\ k + 1 = n - 1
            <3> HIDE DEF n
            <3> QED
                BY <1>3
        <2> HIDE DEF k
        <2>2. SubSeq(digits, 1, k) \o SubSeq(digits, k + 1, Len(digits)) = digits
            BY <1>3, <2>1, Rejoined
        <2>3. w = SubSeq(digits, 1, k)
            BY DEF k
        <2>4. f = SubSeq(digits, k + 1, Len(digits))
            BY <2>1
        <2> QED
            BY <2>2, <2>3, <2>4
    <1> HIDE DEF w, f
    <1>7. /\ a \in Text /\ Len(a) = Len(w) + 1 + Len(f)
          /\ HasDot(a) /\ Whole(a) = w /\ Frac(a) = f
        BY <1>4, <1>5, DotSplits
    <1> HIDE DEF a
    <1>8. ParseAmount(a) = cents
        BY <1>3, <1>6, <1>7 DEF ParseAmount
    <1>9. Len(a) \in 4..13 /\ Len(w) \in 1..10 /\ Len(w) >= 1
        <2> HIDE DEF n
        <2>1. Len(w) = n - 2 /\ n \in 3..12
            BY <1>3, <1>4
        <2>2. Len(w) \in 1..10 /\ Len(w) >= 1
            BY <2>1
        <2>3. Len(a) = n - 2 + 1 + 2
            BY <1>5, <1>7, <2>1
        <2> QED
            BY <2>1, <2>2, <2>3
    <1>10. isDigits(w) /\ isDigits(f)
        <2>1. Len(w) >= 1
            BY <1>9
        <2>2. Len(f) >= 1
            BY <1>5
        <2> QED
            BY <1>4, <1>5, <2>1, <2>2, DigitsAre
    <1>11. Len(cents) <= maxAmountLen
        <2> DEFINE m == Len(cents)
        <2>1. m \in 0..12
            BY <1>1
        <2> HIDE DEF m
        <2>2. m <= maxAmountLen
            BY <2>1 DEF maxAmountLen
        <2> QED
            BY <2>2 DEF m
    <1>12. IsAmount(a)
        BY <1>5, <1>7, <1>8, <1>9, <1>10, <1>11 DEF IsAmount
    <1> QED
        BY <1>2, <1>7, <1>8, <1>9, <1>12 DEF cents

-----------------------------------------------------------------------------
(***************************************************************************)
(* The names of a merchant.                                                *)
(***************************************************************************)
NameByte == Letter \cup Digit \cup {Space}

\* No other characters, no space in front and no two together.
Tidy(text) ==
    /\ text \in Text
    /\ \A i \in 1..Len(text) : text[i] \in NameByte
    /\ Len(text) >= 1 => text[1] # Space
    /\ \A i \in 1..(Len(text) - 1) : text[i] # Space \/ text[i + 1] # Space

LEMMA TidyNothing == Tidy(<<>>)
    <1>1. <<>> \in Text /\ Len(<<>>) = 0
        BY EmptySeq, ByteIs
    <1> DEFINE e == <<>>
    <1>2. e \in Text /\ Len(e) = 0
        BY <1>1
    <1> HIDE DEF e
    <1>3. Tidy(e)
        BY <1>2 DEF Tidy
    <1> QED
        BY <1>3 DEF e

LEMMA NotEmpty ==
    ASSUME NEW text \in Text
    PROVE  text # <<>> <=> Len(text) >= 1
    <1>1. Len(text) \in Nat
        BY TextIs
    <1>2. text = <<>> <=> Len(text) = 0
        BY EmptySeq, ByteIs
    <1> DEFINE m == Len(text)
    <1>3. m \in Nat /\ (text = <<>> <=> m = 0)
        BY <1>1, <1>2
    <1> HIDE DEF m
    <1>4. text # <<>> <=> m >= 1
        BY <1>3
    <1> QED
        BY <1>4 DEF m

LEMMA KeptTidy ==
    ASSUME NEW out, Tidy(out), NEW c \in Byte
    PROVE  Tidy(Kept(out, c))
    <1> DEFINE m == Len(out)
               x == Append(out, c)
    <1>1. out \in Text /\ m \in Nat
        BY TextIs DEF Tidy
    <1>2. CASE Kept(out, c) = out
        BY <1>2
    <1>3. CASE Kept(out, c) # out
        <2>1. /\ Kept(out, c) = x
              /\ c \in Letter \cup Digit \/ (c = Space /\ out # <<>> /\ Last(out) # Space)
            BY <1>3 DEF Kept
        <2>2. x \in Text /\ Len(x) = m + 1 /\ (\A i \in 1..m : x[i] = out[i]) /\ x[m + 1] = c
            BY <1>1, AppendProperties, ByteIs
        <2>3. c \in NameByte
            BY <2>1 DEF NameByte
        <2>4. c = Space => m >= 1 /\ out[m] # Space
            <3>1. c = Space => c \notin Letter \cup Digit
                BY DEF Letter, Digit, Space
            <3>2. Last(out) = out[m]
                BY DEF Last
            <3> QED
                BY <1>1, <2>1, <3>1, <3>2, NotEmpty
        <2>5. /\ \A i \in 1..m : out[i] \in NameByte
              /\ m >= 1 => out[1] # Space
              /\ \A i \in 1..(m - 1) : out[i] # Space \/ out[i + 1] # Space
            BY DEF Tidy
        <2> HIDE DEF x, m
        <2>6. \A i \in 1..(m + 1) : x[i] \in NameByte
            <3>1. \A i \in 1..(m + 1) : i = m + 1 \/ i \in 1..m
                BY <1>1
            <3> QED
                BY <2>2, <2>3, <2>5, <3>1
        <2>7. x[1] # Space
            <3>1. CASE m = 0
                BY <2>2, <2>4, <3>1
            <3>2. CASE m # 0
                BY <1>1, <2>2, <2>5, <3>2
            <3> QED
                BY <3>1, <3>2
        <2>8. ASSUME NEW i \in 1..m
              PROVE  x[i] # Space \/ x[i + 1] # Space
            <3>1. CASE i = m
                BY <1>1, <2>2, <2>4, <3>1
            <3>2. CASE i # m
                <4>1. i \in 1..(m - 1) /\ i + 1 \in 1..m
                    BY <1>1, <3>2
                <4> QED
                    BY <2>2, <2>5, <4>1
            <3> QED
                BY <3>1, <3>2
        <2>9. Tidy(x)
            <3>1. Len(x) - 1 = m /\ 1..Len(x) = 1..(m + 1)
                BY <1>1, <2>2
            <3> QED
                BY <2>2, <2>6, <2>7, <2>8, <3>1 DEF Tidy
        <2> QED
            BY <2>1, <2>9 DEF x
    <1> QED
        BY <1>2, <1>3

LEMMA CollapsedTidy ==
    ASSUME NEW text \in Text
    PROVE  Tidy(Collapsed(text))
    <1> DEFINE plain == [i \in DOMAIN text |-> Unaccented(text[i])]
               n == Len(plain)
               Tidies == {t \in Text : Tidy(t)}
               Rec(f) == [k \in 0..n |->
                             IF k = 0 THEN <<>>
                             ELSE CHOOSE next \in {Kept(before, plain[k]) : before \in {f[k - 1]}} : TRUE]
               F == [i \in 1..n |-> [t \in Tidies |-> Kept(t, plain[i])]]
    <1>1. n \in Nat /\ \A i \in 1..n : plain[i] \in Byte
        <2>1. Len(text) \in Nat /\ DOMAIN text = 1..Len(text) /\ \A i \in 1..Len(text) : text[i] \in Byte
            BY TextIs, LenProperties, ByteIs
        <2>2. \A c \in Byte : Unaccented(c) \in Byte
            BY DEF Unaccented, Upper, Byte
        <2>3. plain \in [1..Len(text) -> Byte]
            BY <2>1, <2>2
        <2> HIDE DEF plain
        <2>4. plain \in Text /\ n = Len(text)
            BY <2>1, <2>3, MadeOf
        <2> QED
            BY <2>1, <2>3, <2>4
    <1>2. Collapsed(text) = (CHOOSE h : h = Rec(h))[n]
        BY DEF Collapsed, Through
    <1> HIDE DEF n, plain
    <1>3. <<>> \in Tidies
        BY TidyNothing DEF Tidy
    <1>4. \A t \in Tidies, i \in 1..n : Kept(t, plain[i]) \in Tidies
        <2> SUFFICES ASSUME NEW t \in Tidies, NEW i \in 1..n
                     PROVE  Kept(t, plain[i]) \in Tidies
            OBVIOUS
        <2>1. Tidy(Kept(t, plain[i]))
            BY <1>1, KeptTidy
        <2> QED
            BY <2>1 DEF Tidy
    <1> HIDE DEF Tidies
    <1>5. F \in [1..n -> [Tidies -> Tidies]] /\ \A t \in Tidies, i \in 1..n : F[i][t] = Kept(t, plain[i])
        BY <1>4
    <1> HIDE DEF F
    <1>6. PICK f : Recursion(f, Tidies, <<>>, n, F)
        BY <1>1, <1>3, <1>5, RecursionExists
    <1>7. f \in [0..n -> Tidies] /\ f[0] = <<>> /\ \A i \in 1..n : f[i] = F[i][f[i - 1]]
        BY <1>6 DEF Recursion
    <1>8. \A i \in 1..n : f[i] = Kept(f[i - 1], plain[i])
        <2>1. \A i \in 1..n : f[i - 1] \in Tidies
            BY <1>1, <1>7
        <2> QED
            BY <1>5, <1>7, <2>1, Zenon
    <1>9. \A h, k : (CHOOSE next \in {Kept(before, plain[k]) : before \in {h[k - 1]}} : TRUE)
                    = Kept(h[k - 1], plain[k])
        OBVIOUS
    <1>10. f = Rec(f)
        BY <1>7, <1>8, <1>9
    <1> DEFINE out == CHOOSE h : h = Rec(h)
    <1>11. out = Rec(out)
        BY <1>10
    <1>12. Collapsed(text) = out[n]
        BY <1>2
    <1> HIDE DEF out
    <1>13. out[0] = <<>> /\ \A i \in 1..n : out[i] = Kept(out[i - 1], plain[i])
        BY <1>1, <1>9, <1>11
    <1> DEFINE T == {i \in 0..n : Tidy(out[i])}
    <1>14. 0 \in T
        BY <1>1, <1>13, TidyNothing
    <1>15. \A i \in 1..n : i - 1 \in T => i \in T
        BY <1>1, <1>13, KeptTidy
    <1>16. \A i \in 0..n : Tidy(out[i])
        <2> HIDE DEF T
        <2>1. \A i \in 0..n : i \in T
            BY <1>1, <1>14, <1>15, Ladder
        <2> QED
            BY <2>1 DEF T
    <1> QED
        BY <1>1, <1>12, <1>16

LEMMA PrefixIs ==
    ASSUME NEW text \in Text, NEW k \in Nat, k <= Len(text)
    PROVE  /\ SubSeq(text, 1, k) \in Text /\ Len(SubSeq(text, 1, k)) = k
           /\ \A i \in 1..k : SubSeq(text, 1, k)[i] = text[i]
    <1> DEFINE x == SubSeq(text, 1, k)
    <1>1. 1 \in Int /\ k \in Int /\ 1 <= 1 /\ 1 <= k + 1 /\ k - 1 + 1 = k
        OBVIOUS
    <1>2. x \in Text /\ Len(x) = k - 1 + 1 /\ \A i \in 1..(k - 1 + 1) : x[i] = text[1 + i - 1]
        BY <1>1, PartOf
    <1> HIDE DEF x
    <1>3. \A i \in 1..k : 1 + i - 1 = i
        OBVIOUS
    <1>4. x \in Text /\ Len(x) = k /\ \A i \in 1..k : x[i] = text[i]
        BY <1>1, <1>2, <1>3
    <1> QED
        BY <1>4 DEF x

LEMMA PrefixTidy ==
    ASSUME NEW text, Tidy(text), NEW k \in Nat, k <= Len(text)
    PROVE  Tidy(SubSeq(text, 1, k))
    <1> DEFINE x == SubSeq(text, 1, k)
               m == Len(text)
    <1>1. text \in Text /\ m \in Nat /\ k <= m
        BY TextIs DEF Tidy
    <1>2. x \in Text /\ Len(x) = k /\ \A i \in 1..k : x[i] = text[i]
        BY <1>1, PrefixIs
    <1>3. /\ \A i \in 1..m : text[i] \in NameByte
          /\ m >= 1 => text[1] # Space
          /\ \A i \in 1..(m - 1) : text[i] # Space \/ text[i + 1] # Space
        BY DEF Tidy
    <1> HIDE DEF x, m
    <1>4. \A i \in 1..k : x[i] \in NameByte
        BY <1>1, <1>2, <1>3
    <1>5. k >= 1 => x[1] # Space
        BY <1>1, <1>2, <1>3
    <1>6. ASSUME NEW i \in 1..(k - 1)
          PROVE  x[i] # Space \/ x[i + 1] # Space
        <2>1. i \in 1..k /\ i + 1 \in 1..k /\ i \in 1..(m - 1)
            BY <1>1
        <2> QED
            BY <1>2, <1>3, <2>1
    <1>7. Tidy(x)
        BY <1>2, <1>4, <1>5, <1>6 DEF Tidy
    <1> QED
        BY <1>7 DEF x

\* A tidy name that is there, trimmed: it is still there, and ends well.
LEMMA TrimTidy ==
    ASSUME NEW text, Tidy(text)
    PROVE  /\ Tidy(TrimRight(text)) /\ Len(TrimRight(text)) <= Len(text)
           /\ Len(text) >= 1 => /\ Len(TrimRight(text)) >= 1
                                /\ Last(TrimRight(text)) # Space
    <1> DEFINE m == Len(text)
               T == {0} \cup {i \in DOMAIN text : text[i] # Space}
               k == Max(T)
               x == SubSeq(text, 1, k)
    <1>1. text \in Text /\ m \in Nat /\ DOMAIN text = 1..m
        BY TextIs, LenProperties, ByteIs DEF Tidy
    <1>2. T \in SUBSET (0..m) /\ T # {}
        BY <1>1
    <1>3. m >= 1 => 1 \in T
        BY <1>1 DEF Tidy
    <1>4. \A i \in T : i >= 1 => text[i] # Space
        OBVIOUS
    <1> HIDE DEF m, T
    <1>5. k \in T /\ \A i \in T : k >= i
        BY <1>1, <1>2, MaxIs
    <1>6. TrimRight(text) = x
        BY DEF TrimRight, T
    <1> HIDE DEF k
    <1>7. k \in Nat /\ k <= m /\ (m >= 1 => k >= 1) /\ (k >= 1 => text[k] # Space)
        BY <1>1, <1>2, <1>3, <1>4, <1>5
    <1>8. Tidy(x) /\ Len(x) = k /\ \A i \in 1..k : x[i] = text[i]
        BY <1>1, <1>7, PrefixIs, PrefixTidy DEF m
    <1> HIDE DEF x
    <1>9. Last(x) = x[k]
        BY <1>8 DEF Last
    <1>10. m >= 1 => Last(x) # Space
        BY <1>7, <1>8, <1>9
    <1> QED
        BY <1>6, <1>7, <1>8, <1>10 DEF m

\* What sanitize makes of any text is a name a reader accepts.
LEMMA SanitizeClean ==
    ASSUME NEW text \in Text, NEW fallback, Tidy(fallback), Len(fallback) >= 1,
           NEW max \in Nat \ {0}
    PROVE  /\ sanitize(text, fallback, max) \in Text
           /\ Len(sanitize(text, fallback, max)) \in 1..max
           /\ Clean(sanitize(text, fallback, max), max)
    <1> DEFINE kept == TrimRight(Collapsed(text))
               out == IF kept = <<>> THEN fallback ELSE kept
               m == Len(out)
               end == Min({max, m})
               x == SubSeq(out, 1, end)
               y == TrimRight(x)
               n == Len(y)
    <1>1. Tidy(kept)
        BY CollapsedTidy, TrimTidy
    <1>2. kept \in Text /\ fallback \in Text
        BY <1>1 DEF Tidy
    <1> HIDE DEF kept
    <1>3. Tidy(out) /\ out \in Text /\ m >= 1
        BY <1>1, <1>2, NotEmpty
    <1> HIDE DEF out
    <1>4. m \in Nat
        BY <1>3, TextIs
    <1>5. sanitize(text, fallback, max) = y
        BY DEF sanitize, kept, out
    <1>6. end \in Nat /\ end <= Len(out) /\ end >= 1 /\ end <= max
        <2> HIDE DEF m
        <2>1. end = IF max <= m THEN max ELSE m
            BY <1>4, MinOfTwo
        <2> HIDE DEF end
        <2>2. end \in Nat /\ end <= m /\ end >= 1 /\ end <= max
            BY <1>3, <1>4, <2>1
        <2> QED
            BY <2>2 DEF m
    <1> HIDE DEF end, m
    <1>7. Tidy(x) /\ Len(x) = end
        BY <1>3, <1>6, PrefixIs, PrefixTidy
    <1> HIDE DEF x
    <1>8. Tidy(y) /\ n <= end /\ n >= 1 /\ Last(y) # Space
        BY <1>6, <1>7, TrimTidy
    <1> HIDE DEF y
    <1>9. y \in Text /\ n \in Nat /\ DOMAIN y = 1..n
        BY <1>8, TextIs, LenProperties, ByteIs DEF Tidy
    <1>10. /\ \A i \in 1..n : y[i] \in NameByte
           /\ n >= 1 => y[1] # Space
           /\ \A i \in 1..(n - 1) : y[i] # Space \/ y[i + 1] # Space
        BY <1>8 DEF Tidy
    <1>11. n \in 1..max
        <2> HIDE DEF n
        <2> QED
            BY <1>6, <1>8, <1>9
    <1>12. Clean(y, max)
        <2>1. Len(y) \in 1..max
            BY <1>11
        <2>2. \A i \in DOMAIN y : y[i] \in Letter \cup Digit \cup {Space}
            BY <1>9, <1>10 DEF NameByte
        <2>3. y[1] # Space /\ Last(y) # Space
            BY <1>8, <1>10
        <2>4. \A i \in 1..(Len(y) - 1) : y[i] # Space \/ y[i + 1] # Space
            BY <1>10
        <2> QED
            BY <2>1, <2>2, <2>3, <2>4 DEF Clean
    <1> QED
        BY <1>5, <1>9, <1>11, <1>12

LEMMA DefaultsTidy ==
    /\ Tidy(DefaultMerchantName) /\ Len(DefaultMerchantName) >= 1
    /\ Tidy(DefaultMerchantCity) /\ Len(DefaultMerchantCity) >= 1
    <1>1. ASSUME NEW n \in Nat \ {0}, NEW c \in Letter
          PROVE  Tidy(Times(n, c)) /\ Len(Times(n, c)) >= 1
        <2> DEFINE x == Times(n, c)
        <2>1. c \in Byte /\ c # Space /\ c \in NameByte
            BY DEF Letter, Byte, Space, NameByte
        <2>2. x \in Text /\ Len(x) = n
            BY <2>1, TimesIs
        <2>3. \A i \in 1..n : x[i] = c
            BY DEF Times
        <2> HIDE DEF x
        <2>4. \A i \in 1..(n - 1) : i \in 1..n
            OBVIOUS
        <2>5. 1 \in 1..n
            OBVIOUS
        <2>6. Tidy(x)
            BY <2>1, <2>2, <2>3, <2>4, <2>5 DEF Tidy
        <2> QED
            BY <2>2, <2>6 DEF x
    <1>2. 80 \in Letter /\ 83 \in Letter
        BY DEF Letter
    <1> QED
        BY <1>1, <1>2 DEF DefaultMerchantName, DefaultMerchantCity

-----------------------------------------------------------------------------
(***************************************************************************)
(* The fields of a code.                                                   *)
(***************************************************************************)
LEMMA PrefixOf ==
    ASSUME NEW text \in Text, NEW k \in Nat, k <= Len(text)
    PROVE  IsPrefix(SubSeq(text, 1, k), text)
    <1> DEFINE x == SubSeq(text, 1, k)
    <1>1. x \in Text /\ Len(x) = k
        BY PrefixIs
    <1>2. SubSeq(x, 1, Len(x)) = x
        BY <1>1, SubSeqFull, ByteIs
    <1>3. SubSeq(text, 1, Len(x)) = x
        BY <1>1
    <1> HIDE DEF x
    <1>4. IsPrefix(x, text)
        BY <1>1, <1>2, <1>3 DEF IsPrefix
    <1> QED
        BY <1>4 DEF x

\* A description, whole or cut before a rune.
LEMMA CutIs ==
    ASSUME NEW text \in Text, text # <<>> => RuneStart(text[1])
    PROVE  /\ Cut(text) \in Text /\ Len(Cut(text)) \in 0..72
           /\ IsPrefix(Cut(text), text)
           /\ Cut(text) # text => RuneStart(text[Len(Cut(text)) + 1])
    <1> DEFINE T == {0} \cup {n \in 1..72 : RuneStart(text[n + 1])}
               m == Len(text)
               k == Max(T)
               x == SubSeq(text, 1, k)
    <1>1. m \in Nat
        BY TextIs
    <1>2. CASE m <= 72
        <2>1. Cut(text) = text
            BY <1>2 DEF Cut
        <2>2. IsPrefix(SubSeq(text, 1, m), text)
            BY <1>1, PrefixOf
        <2>3. SubSeq(text, 1, m) = text
            BY SubSeqFull, ByteIs
        <2>4. m \in 0..72
            <3> HIDE DEF m
            <3> QED
                BY <1>1, <1>2
        <2> QED
            BY <2>1, <2>2, <2>3, <2>4
    <1>3. CASE ~(m <= 72)
        <2>1. T \in SUBSET (0..72) /\ T # {}
            OBVIOUS
        <2>2. \A i \in T : i # 0 => RuneStart(text[i + 1])
            OBVIOUS
        <2> HIDE DEF T
        <2>3. k \in T /\ k \in 0..72
            BY <2>1, MaxIs
        <2>4. Cut(text) = x
            BY <1>3 DEF Cut, T
        <2> HIDE DEF k
        <2>5. k \in Nat /\ k <= m
            <3> HIDE DEF m
            <3> QED
                BY <1>1, <1>3, <2>3
        <2>6. x \in Text /\ Len(x) = k /\ IsPrefix(x, text)
            BY <2>5, PrefixIs, PrefixOf
        <2>7. RuneStart(text[k + 1])
            <3>1. CASE k = 0
                <4>1. text # <<>>
                    <5>1. Len(<<>>) = 0
                        OBVIOUS
                    <5> QED
                        BY <1>3, <5>1
                <4>2. k + 1 = 1
                    BY <3>1
                <4> QED
                    BY <4>1, <4>2
            <3>2. CASE k # 0
                BY <2>2, <2>3, <3>2
            <3> QED
                BY <3>1, <3>2
        <2> HIDE DEF x
        <2> QED
            BY <2>3, <2>4, <2>6, <2>7
    <1> QED
        BY <1>2, <1>3

LEMMA FindIs ==
    ASSUME NEW n \in Nat, NEW fields \in [1..n -> Field], NEW k \in 1..n, NEW id,
           fields[k].id = id, \A i \in 1..(k - 1) : fields[i].id # id
    PROVE  Find(fields, id) = fields[k].value
    <1> DEFINE T == {i \in DOMAIN fields : fields[i].id = id}
               at == Min(T)
    <1>1. T \in SUBSET Nat /\ k \in T /\ \A i \in T : i >= k
        OBVIOUS
    <1> HIDE DEF T
    <1>2. at \in T /\ \A y \in T : at <= y
        BY <1>1, MinIs
    <1> HIDE DEF at
    <1>3. at = k
        <2>1. at \in Nat /\ at >= k /\ at <= k
            BY <1>1, <1>2
        <2> QED
            BY <2>1
    <1> QED
        BY <1>3 DEF Find, at, T

LEMMA FieldIs ==
    ASSUME NEW id \in 0..99, NEW value \in Text
    PROVE  TLV(id, value) \in Field /\ TLV(id, value).id = id /\ TLV(id, value).value = value
    BY DEF TLV, Field

\* The length of one encoded field, and of two.
LEMMA EncodedLength ==
    ASSUME NEW n \in 1..2, NEW fields \in [1..n -> Field], Encodes(fields)
    PROVE  /\ n = 1 => Len(EncodeAll(fields)) = 4 + Len(fields[1].value)
           /\ n = 2 => Len(EncodeAll(fields)) = 8 + Len(fields[1].value) + Len(fields[2].value)
    <1>1. PICK join : Joined(join, n, fields) /\ EncodeAll(fields) = join[n]
        BY EncodeAllJoins
    <1>2. join \in [0..n -> Text] /\ join[0] = <<>>
          /\ \A i \in 1..n : join[i] = join[i - 1] \o Encode(fields[i])
        BY <1>1 DEF Joined
    <1>3. \A i \in 1..n : /\ Encode(fields[i]) \in Text /\ Len(fields[i].value) \in 0..99
                          /\ Len(Encode(fields[i])) = 4 + Len(fields[i].value)
        <2> SUFFICES ASSUME NEW i \in 1..n
                     PROVE  /\ Encode(fields[i]) \in Text /\ Len(fields[i].value) \in 0..99
                            /\ Len(Encode(fields[i])) = 4 + Len(fields[i].value)
            OBVIOUS
        <2>1. n \in Nat /\ fields[i] \in Field /\ Len(fields[i].value) <= maxValueLen
            <3>1. n \in Nat
                OBVIOUS
            <3> QED
                BY <3>1, FieldFits
        <2> QED
            BY <2>1, EncodeIs
    <1>4. \A i \in 1..n : Len(join[i]) = Len(join[i - 1]) + Len(Encode(fields[i]))
        <2> SUFFICES ASSUME NEW i \in 1..n
                     PROVE  Len(join[i]) = Len(join[i - 1]) + Len(Encode(fields[i]))
            OBVIOUS
        <2>1. join[i - 1] \in Text
            BY <1>2
        <2>2. Len(join[i - 1] \o Encode(fields[i])) = Len(join[i - 1]) + Len(Encode(fields[i]))
            BY <1>3, <2>1, JoinIs
        <2> QED
            BY <1>2, <2>2
    <1>5. Len(join[0]) = 0
        <2>1. Len(<<>>) = 0
            OBVIOUS
        <2> QED
            BY <1>2, <2>1
    <1>6. Len(join[1]) = 4 + Len(fields[1].value) /\ Len(fields[1].value) \in 0..99
        <2>1. 1 \in 1..n /\ 1 - 1 = 0
            OBVIOUS
        <2>2. Len(join[1]) = Len(join[0]) + Len(Encode(fields[1]))
            BY <1>4, <2>1
        <2>3. Len(Encode(fields[1])) = 4 + Len(fields[1].value) /\ Len(fields[1].value) \in 0..99
            BY <1>3, <2>1
        <2> QED
            BY <1>5, <2>2, <2>3
    <1>7. CASE n = 1
        BY <1>1, <1>6, <1>7
    <1>8. CASE n = 2
        <2>1. 2 \in 1..n /\ 2 - 1 = 1
            BY <1>8
        <2>2. Len(join[2]) = Len(join[1]) + Len(Encode(fields[2]))
            BY <1>4, <2>1
        <2>3. Len(Encode(fields[2])) = 4 + Len(fields[2].value) /\ Len(fields[2].value) \in 0..99
            BY <1>3, <2>1
        <2> DEFINE a == Len(fields[1].value)
                   b == Len(fields[2].value)
        <2>4. a \in 0..99 /\ b \in 0..99 /\ Len(join[2]) = 4 + a + (4 + b)
            BY <1>6, <2>2, <2>3
        <2> HIDE DEF a, b
        <2>5. Len(join[2]) = 8 + a + b
            BY <2>4
        <2> QED
            BY <1>1, <1>8, <2>5 DEF a, b
    <1> QED
        BY <1>7, <1>8

\* What a reader finds in field 26: the key, and the description where there is one.
LEMMA AccountReads ==
    ASSUME NEW r, r.key \in Text, r.description \in Text, Len(r.key) <= 77,
           r.description # <<>> => RuneStart(r.description[1])
    PROVE  LET account == merchantAccount(r)
               encoded == EncodeAll(account)
           IN  /\ Encodes(account) /\ encoded \in Text
               /\ Parse(encoded) = [ok |-> TRUE, fields |-> account]
               /\ Find(account, 1) = r.key
               /\ Has(account, 2) =>
                     r.description # <<>> /\ Find(account, 2) = Cut(r.description)
               /\ r.description = <<>> => Len(encoded) <= 99
    <1> DEFINE a == TLV(0, GUI)
               b == TLV(1, r.key)
               c == TLV(2, Cut(r.description))
               account == merchantAccount(r)
    <1>1. /\ a \in Field /\ a.id = 0 /\ Len(a.value) = 14
          /\ b \in Field /\ b.id = 1 /\ b.value = r.key
          /\ c \in Field /\ c.id = 2 /\ c.value = Cut(r.description)
        <2>1. GUI \in Text /\ Len(GUI) = 14
            <3>1. 14 \in Nat /\ 71 \in Byte
                BY DEF Byte
            <3> QED
                BY <3>1, TimesIs DEF GUI
        <2>2. Cut(r.description) \in Text
            BY CutIs
        <2>3. a \in Field /\ a.id = 0 /\ a.value = GUI
            <3>1. 0 \in 0..99
                OBVIOUS
            <3> QED
                BY <2>1, <3>1, FieldIs
        <2>4. b \in Field /\ b.id = 1 /\ b.value = r.key
            <3>1. 1 \in 0..99
                OBVIOUS
            <3> QED
                BY <3>1, FieldIs
        <2>5. c \in Field /\ c.id = 2 /\ c.value = Cut(r.description)
            <3>1. 2 \in 0..99
                OBVIOUS
            <3> QED
                BY <2>2, <3>1, FieldIs
        <2> HIDE DEF a, b, c
        <2> QED
            BY <2>1, <2>3, <2>4, <2>5
    <1>2. Len(a.value) <= maxValueLen /\ Len(b.value) <= maxValueLen /\ Len(c.value) <= maxValueLen
        <2>1. Len(r.key) \in Nat
            BY TextIs
        <2> DEFINE k == Len(r.key)
                   d == Len(Cut(r.description))
        <2>2. k \in Nat /\ k <= 77 /\ d \in 0..72
            BY <2>1, CutIs
        <2> HIDE DEF k, d
        <2>3. k <= maxValueLen
            BY <2>2 DEF maxValueLen
        <2>4. d <= maxValueLen
            BY <2>2 DEF maxValueLen
        <2>5. 14 <= maxValueLen
            BY DEF maxValueLen
        <2> QED
            BY <1>1, <2>3, <2>4, <2>5 DEF k, d
    <1> HIDE DEF a, b, c
    <1>3. CASE r.description = <<>>
        <2>1. account = <<a, b>>
            <3>1. account = <<a, b>> \o <<>>
                BY <1>3 DEF merchantAccount, a, b
            <3> QED
                BY <1>1, <3>1
        <2>2. account \in [1..2 -> Field] /\ account[1] = a /\ account[2] = b
            BY <1>1, <2>1
        <2> HIDE DEF account
        <2>3. Encodes(account)
            BY <1>2, <2>2 DEF Encodes
        <2>4. EncodeAll(account) \in Text /\ Parse(EncodeAll(account)) = [ok |-> TRUE, fields |-> account]
            BY <2>2, <2>3, EncodeAllTyped, ParseInverts
        <2>5. Find(account, 1) = r.key
            <3>1. account[2].id = 1 /\ 2 \in Nat /\ 2 \in 1..2
                BY <1>1, <2>2
            <3>2. \A i \in 1..(2 - 1) : account[i].id # 1
                BY <1>1, <2>2
            <3>3. Find(account, 1) = account[2].value
                BY <2>2, <3>1, <3>2, FindIs
            <3> QED
                BY <1>1, <2>2, <3>3
        <2>6. ~Has(account, 2)
            BY <1>1, <2>2 DEF Has
        <2>7. Len(EncodeAll(account)) <= 99
            <3>1. 2 \in 1..2
                OBVIOUS
            <3>2. Len(EncodeAll(account)) = 8 + Len(account[1].value) + Len(account[2].value)
                BY <2>2, <2>3, <3>1, EncodedLength
            <3>3. Len(account[1].value) = 14 /\ Len(account[2].value) = Len(r.key)
                BY <1>1, <2>2
            <3> DEFINE k == Len(r.key)
            <3>4. k \in Nat /\ k <= 77 /\ Len(EncodeAll(account)) = 8 + 14 + k
                BY <3>2, <3>3, TextIs
            <3> HIDE DEF k
            <3> QED
                BY <3>4
        <2> QED
            BY <1>3, <2>3, <2>4, <2>5, <2>6, <2>7 DEF account
    <1>4. CASE r.description # <<>>
        <2>1. account = <<a, b>> \o <<c>>
            BY <1>4 DEF merchantAccount, a, b, c
        <2>2. /\ <<a, b>> \in Seq(Field) /\ Len(<<a, b>>) = 2 /\ <<a, b>>[1] = a /\ <<a, b>>[2] = b
              /\ <<c>> \in Seq(Field) /\ Len(<<c>>) = 1 /\ <<c>>[1] = c
            BY <1>1
        <2> HIDE DEF account
        <2>3. account \in [1..3 -> Field] /\ account[1] = a /\ account[2] = b /\ account[3] = c
            <3> DEFINE s == <<a, b>>
                       t == <<c>>
            <3>1. s \in Seq(Field) /\ t \in Seq(Field) /\ Len(s) = 2 /\ Len(t) = 1
                  /\ s[1] = a /\ s[2] = b /\ t[1] = c /\ account = s \o t
                BY <2>1, <2>2
            <3> HIDE DEF s, t
            <3>2. /\ s \o t \in Seq(Field) /\ Len(s \o t) = Len(s) + Len(t)
                  /\ \A i \in 1..Len(s) : (s \o t)[i] = s[i]
                  /\ \A i \in 1..Len(t) : (s \o t)[Len(s) + i] = t[i]
                <4>1. s \in Seq(Field) /\ t \in Seq(Field)
                    BY <3>1
                <4> QED
                    BY <4>1, ConcatIs
            <3>3. account \in Seq(Field) /\ Len(account) = 3
                BY <3>1, <3>2
            <3>4. account[1] = a /\ account[2] = b
                BY <3>1, <3>2
            <3>5. account[2 + 1] = c
                <4>1. (s \o t)[Len(s) + 1] = t[1]
                    BY <3>1, <3>2
                <4> QED
                    BY <3>1, <4>1
            <3>6. account \in [1..3 -> Field]
                <4>1. Len(account) = 3 /\ account \in [1..Len(account) -> Field]
                    BY <3>3, LenProperties
                <4> QED
                    BY <4>1
            <3>7. account[3] = c
                BY <3>5
            <3> QED
                BY <3>4, <3>6, <3>7
        <2> HIDE DEF account
        <2>4. Encodes(account)
            BY <1>2, <2>3 DEF Encodes
        <2>5. EncodeAll(account) \in Text /\ Parse(EncodeAll(account)) = [ok |-> TRUE, fields |-> account]
            BY <2>3, <2>4, EncodeAllTyped, ParseInverts
        <2>6. Find(account, 1) = r.key
            <3>1. account[2].id = 1 /\ 3 \in Nat /\ 2 \in 1..3
                BY <1>1, <2>3
            <3>2. \A i \in 1..(2 - 1) : account[i].id # 1
                BY <1>1, <2>3
            <3>3. Find(account, 1) = account[2].value
                BY <2>3, <3>1, <3>2, FindIs
            <3> QED
                BY <1>1, <2>3, <3>3
        <2>7. Find(account, 2) = Cut(r.description)
            <3>1. account[3].id = 2 /\ 3 \in Nat /\ 3 \in 1..3
                BY <1>1, <2>3
            <3>2. \A i \in 1..(3 - 1) : account[i].id # 2
                <4>1. \A i \in 1..(3 - 1) : i = 1 \/ i = 2
                    OBVIOUS
                <4> QED
                    BY <1>1, <2>3, <4>1
            <3>3. Find(account, 2) = account[3].value
                BY <2>3, <3>1, <3>2, FindIs
            <3> QED
                BY <1>1, <2>3, <3>3
        <2> QED
            BY <1>4, <2>4, <2>5, <2>6, <2>7 DEF account
    <1> QED
        BY <1>3, <1>4

\* What a reader finds in field 62: the txid, or none.
LEMMA AdditionalReads ==
    ASSUME NEW r, r.txid \in Text
    PROVE  LET additional == additionalData(r)
               encoded == EncodeAll(additional)
           IN  /\ encoded \in Text /\ Len(encoded) <= 99
               /\ Parse(encoded) = [ok |-> TRUE, fields |-> additional]
               /\ Find(additional, 5) \in {r.txid, NoTxID}
               /\ Len(Find(additional, 5)) \in 1..25
    <1> DEFINE txid == IF r.txid = <<>> \/ Len(r.txid) > 25 THEN NoTxID ELSE r.txid
               t == TLV(5, txid)
               additional == additionalData(r)
    <1>1. txid \in Text /\ Len(txid) \in 1..25
        <2>1. NoTxID \in Text /\ Len(NoTxID) = 3
            <3>1. NoTxID \in [1..3 -> Byte]
                BY DEF NoTxID, Byte
            <3> QED
                BY <3>1, MadeOf
        <2>2. CASE r.txid = <<>> \/ Len(r.txid) > 25
            <3>1. txid = NoTxID
                BY <2>2
            <3> HIDE DEF txid
            <3> QED
                BY <2>1, <3>1
        <2>3. CASE ~(r.txid = <<>> \/ Len(r.txid) > 25)
            <3>1. txid = r.txid
                BY <2>3
            <3> DEFINE m == Len(r.txid)
            <3>2. m \in Nat /\ ~(m > 25) /\ m >= 1
                BY <2>3, TextIs, NotEmpty
            <3> HIDE DEF m
            <3>3. m \in 1..25
                BY <3>2
            <3> HIDE DEF txid
            <3> QED
                BY <3>1, <3>3 DEF m
        <2> QED
            BY <2>2, <2>3
    <1>2. txid \in {r.txid, NoTxID}
        OBVIOUS
    <1>3. additional = <<t>>
        BY DEF additionalData
    <1> HIDE DEF txid
    <1>4. t \in Field /\ t.id = 5 /\ t.value = txid
        BY <1>1, FieldIs
    <1> HIDE DEF t
    <1>5. additional \in [1..1 -> Field] /\ additional[1] = t
        BY <1>3, <1>4
    <1> HIDE DEF additional
    <1>6. Encodes(additional)
        <2> DEFINE m == Len(txid)
        <2>1. m \in 1..25
            BY <1>1
        <2> HIDE DEF m
        <2>2. m <= maxValueLen
            BY <2>1 DEF maxValueLen
        <2> QED
            BY <1>4, <1>5, <2>2 DEF Encodes, m
    <1>7. EncodeAll(additional) \in Text
          /\ Parse(EncodeAll(additional)) = [ok |-> TRUE, fields |-> additional]
        BY <1>5, <1>6, EncodeAllTyped, ParseInverts
    <1>8. Find(additional, 5) = txid
        <2>1. 1 \in 1..1 /\ \A i \in 1..(1 - 1) : FALSE
            OBVIOUS
        <2> QED
            BY <1>4, <1>5, <2>1, FindIs
    <1>9. Len(EncodeAll(additional)) <= 99
        <2>1. 1 \in 1..2 /\ Len(EncodeAll(additional)) = 4 + Len(additional[1].value)
            BY <1>5, <1>6, EncodedLength
        <2> DEFINE m == Len(txid)
        <2>2. m \in 1..25 /\ Len(EncodeAll(additional)) = 4 + m
            BY <1>1, <1>4, <1>5, <2>1
        <2> HIDE DEF m
        <2> QED
            BY <2>2
    <1> QED
        BY <1>1, <1>2, <1>7, <1>8, <1>9 DEF additional

-----------------------------------------------------------------------------
(***************************************************************************)
(* What a reader finds in a code.                                          *)
(***************************************************************************)
\* The ten fields of a code: each is typed, the reader's five are where it looks for
\* them, and only field 26 can be too long.
LEMMA FieldsAre ==
    ASSUME NEW r \in Request, IsAmount(r.original), ChaveValid(r.key)
    PROVE  LET fields == Fields(r) IN
           /\ fields \in [1..10 -> Field]
           /\ fields[3].id = 26 /\ fields[3].value = EncodeAll(merchantAccount(r))
           /\ fields[6].id = 54 /\ fields[6].value = Amount(r)
           /\ fields[8].id = 59 /\ fields[8].value = sanitize(r.name, DefaultMerchantName, 25)
           /\ fields[9].id = 60 /\ fields[9].value = sanitize(r.city, DefaultMerchantCity, 15)
           /\ fields[10].id = 62 /\ fields[10].value = EncodeAll(additionalData(r))
           /\ \A i \in 1..2 : fields[i].id # 26
           /\ \A i \in 1..5 : fields[i].id # 54
           /\ \A i \in 1..7 : fields[i].id # 59
           /\ \A i \in 1..8 : fields[i].id # 60
           /\ \A i \in 1..9 : fields[i].id # 62
           /\ \A i \in 1..10 : i # 3 => Len(fields[i].value) <= maxValueLen
    <1>1. /\ r.original \in Text /\ r.key \in Text /\ r.description \in Text
          /\ r.name \in Text /\ r.city \in Text /\ r.txid \in Text
          /\ r.description # <<>> => RuneStart(r.description[1])
        BY RequestAssumption
    <1>2. EncodeAll(merchantAccount(r)) \in Text
        <2> DEFINE k == Len(r.key)
        <2>1. k \in 1..77
            BY DEF ChaveValid
        <2> HIDE DEF k
        <2>2. k <= 77
            BY <2>1
        <2> QED
            BY <1>1, <2>2, AccountReads DEF k
    <1>3. EncodeAll(additionalData(r)) \in Text /\ Len(EncodeAll(additionalData(r))) <= 99
        BY <1>1, AdditionalReads
    <1>4. Amount(r) \in Text /\ Len(Amount(r)) \in 4..13
        BY <1>1, AmountCarries DEF Amount
    <1>5. Times(4, 48) \in Text /\ Len(Times(4, 48)) = 4
        <2>1. 4 \in Nat /\ 48 \in Byte
            BY DEF Byte
        <2> QED
            BY <2>1, TimesIs
    <1>6. /\ sanitize(r.name, DefaultMerchantName, 25) \in Text
          /\ Len(sanitize(r.name, DefaultMerchantName, 25)) \in 1..25
        <2>1. 25 \in Nat \ {0}
            OBVIOUS
        <2> QED
            BY <1>1, <2>1, DefaultsTidy, SanitizeClean
    <1>7. /\ sanitize(r.city, DefaultMerchantCity, 15) \in Text
          /\ Len(sanitize(r.city, DefaultMerchantCity, 15)) \in 1..15
        <2>1. 15 \in Nat \ {0}
            OBVIOUS
        <2> QED
            BY <1>1, <2>1, DefaultsTidy, SanitizeClean
    <1>8. /\ <<48, 49>> \in Text /\ Len(<<48, 49>>) = 2
          /\ <<49, 50>> \in Text /\ Len(<<49, 50>>) = 2
          /\ <<66, 82>> \in Text /\ Len(<<66, 82>>) = 2
          /\ <<57, 56, 54>> \in Text /\ Len(<<57, 56, 54>>) = 3
        <2>1. <<48, 49>> \in [1..2 -> Byte] /\ <<49, 50>> \in [1..2 -> Byte] /\ <<66, 82>> \in [1..2 -> Byte]
            BY DEF Byte
        <2>2. <<57, 56, 54>> \in [1..3 -> Byte]
            BY DEF Byte
        <2>3. 2 \in Nat /\ 3 \in Nat
            OBVIOUS
        <2> QED
            BY <2>1, <2>2, <2>3, MadeOf
    <1> DEFINE Fits(f, id) == f \in Field /\ f.id = id /\ Len(f.value) <= maxValueLen
               fields == Fields(r)
               f1 == TLV(0, <<48, 49>>)
               f2 == TLV(1, <<49, 50>>)
               f3 == TLV(26, EncodeAll(merchantAccount(r)))
               f4 == TLV(52, Times(4, 48))
               f5 == TLV(53, <<57, 56, 54>>)
               f6 == TLV(54, Amount(r))
               f7 == TLV(58, <<66, 82>>)
               f8 == TLV(59, sanitize(r.name, DefaultMerchantName, 25))
               f9 == TLV(60, sanitize(r.city, DefaultMerchantCity, 15))
               f10 == TLV(62, EncodeAll(additionalData(r)))
    <1>9. \A id \in 0..99, value \in Text :
             Len(value) <= 99 => Fits(TLV(id, value), id) /\ TLV(id, value).value = value
        BY FieldIs DEF maxValueLen
    <1> HIDE DEF Fits
    <1>10. Fits(f1, 0) /\ Fits(f2, 1) /\ Fits(f4, 52) /\ Fits(f5, 53) /\ Fits(f7, 58)
        <2>1. 0 \in 0..99 /\ 1 \in 0..99 /\ 52 \in 0..99 /\ 53 \in 0..99 /\ 58 \in 0..99
            OBVIOUS
        <2>2. Len(<<48, 49>>) <= 99 /\ Len(<<49, 50>>) <= 99 /\ Len(<<66, 82>>) <= 99
              /\ Len(<<57, 56, 54>>) <= 99
            BY <1>8
        <2>3. Len(Times(4, 48)) <= 99
            <3> DEFINE m == Len(Times(4, 48))
            <3>1. m = 4
                BY <1>5
            <3> HIDE DEF m
            <3>2. m <= 99
                BY <3>1
            <3> QED
                BY <3>2 DEF m
        <2>4. Fits(f1, 0)
            BY <1>8, <1>9, <2>1, <2>2
        <2>5. Fits(f2, 1)
            BY <1>8, <1>9, <2>1, <2>2
        <2>6. Fits(f4, 52)
            BY <1>5, <1>9, <2>1, <2>3
        <2>7. Fits(f5, 53)
            BY <1>8, <1>9, <2>1, <2>2
        <2>8. Fits(f7, 58)
            BY <1>8, <1>9, <2>1, <2>2
        <2> QED
            BY <2>4, <2>5, <2>6, <2>7, <2>8
    <1>11. f3 \in Field /\ f3.id = 26 /\ f3.value = EncodeAll(merchantAccount(r))
        <2>1. 26 \in 0..99
            OBVIOUS
        <2> QED
            BY <1>2, <2>1, FieldIs
    <1>12. Fits(f6, 54) /\ f6.value = Amount(r)
        <2> DEFINE m == Len(Amount(r))
        <2>1. m \in 4..13
            BY <1>4
        <2> HIDE DEF m
        <2>2. m <= 99 /\ 54 \in 0..99
            BY <2>1
        <2> QED
            BY <1>4, <1>9, <2>2 DEF m
    <1>13. Fits(f8, 59) /\ f8.value = sanitize(r.name, DefaultMerchantName, 25)
        <2> DEFINE x == sanitize(r.name, DefaultMerchantName, 25)
                   m == Len(x)
        <2>1. m \in 1..25 /\ x \in Text
            BY <1>6
        <2> HIDE DEF m
        <2>2. m <= 99 /\ 59 \in 0..99
            BY <2>1
        <2> HIDE DEF x
        <2>3. Fits(TLV(59, x), 59) /\ TLV(59, x).value = x
            BY <1>9, <2>1, <2>2 DEF m
        <2> QED
            BY <2>3 DEF x
    <1>14. Fits(f9, 60) /\ f9.value = sanitize(r.city, DefaultMerchantCity, 15)
        <2> DEFINE x == sanitize(r.city, DefaultMerchantCity, 15)
                   m == Len(x)
        <2>1. m \in 1..15 /\ x \in Text
            BY <1>7
        <2> HIDE DEF m
        <2>2. m <= 99 /\ 60 \in 0..99
            BY <2>1
        <2> HIDE DEF x
        <2>3. Fits(TLV(60, x), 60) /\ TLV(60, x).value = x
            BY <1>9, <2>1, <2>2 DEF m
        <2> QED
            BY <2>3 DEF x
    <1>15. Fits(f10, 62) /\ f10.value = EncodeAll(additionalData(r))
        <2>1. 62 \in 0..99
            OBVIOUS
        <2> QED
            BY <1>3, <1>9, <2>1
    <1>16. fields = <<f1, f2, f3, f4, f5, f6, f7, f8, f9, f10>>
        BY DEF Fields
    <1> HIDE DEF f1, f2, f3, f4, f5, f6, f7, f8, f9, f10
    <1>17. /\ f1 \in Field /\ f2 \in Field /\ f3 \in Field /\ f4 \in Field /\ f5 \in Field
           /\ f6 \in Field /\ f7 \in Field /\ f8 \in Field /\ f9 \in Field /\ f10 \in Field
        BY <1>10, <1>11, <1>12, <1>13, <1>14, <1>15 DEF Fits
    <1>18. /\ fields \in [1..10 -> Field]
           /\ fields[1] = f1 /\ fields[2] = f2 /\ fields[3] = f3 /\ fields[4] = f4 /\ fields[5] = f5
           /\ fields[6] = f6 /\ fields[7] = f7 /\ fields[8] = f8 /\ fields[9] = f9 /\ fields[10] = f10
        BY <1>16, <1>17
    <1> HIDE DEF fields
    <1>19. /\ fields[1].id = 0 /\ fields[2].id = 1 /\ fields[3].id = 26 /\ fields[4].id = 52
           /\ fields[5].id = 53 /\ fields[6].id = 54 /\ fields[7].id = 58 /\ fields[8].id = 59
           /\ fields[9].id = 60 /\ fields[10].id = 62
        BY <1>10, <1>11, <1>12, <1>13, <1>14, <1>15, <1>18 DEF Fits
    <1>20. \A i \in 1..10 : \/ i = 1 \/ i = 2 \/ i = 3 \/ i = 4 \/ i = 5
                            \/ i = 6 \/ i = 7 \/ i = 8 \/ i = 9 \/ i = 10
        OBVIOUS
    <1>21. /\ \A i \in 1..2 : fields[i].id # 26
           /\ \A i \in 1..5 : fields[i].id # 54
           /\ \A i \in 1..7 : fields[i].id # 59
           /\ \A i \in 1..8 : fields[i].id # 60
           /\ \A i \in 1..9 : fields[i].id # 62
        <2>1. \A i \in 1..2 : fields[i].id # 26
            BY <1>19, <1>20
        <2>2. \A i \in 1..5 : fields[i].id # 54
            BY <1>19, <1>20
        <2>3. \A i \in 1..7 : fields[i].id # 59
            BY <1>19, <1>20
        <2>4. \A i \in 1..8 : fields[i].id # 60
            BY <1>19, <1>20
        <2>5. \A i \in 1..9 : fields[i].id # 62
            BY <1>19, <1>20
        <2> QED
            BY <2>1, <2>2, <2>3, <2>4, <2>5
    <1>22. \A i \in 1..10 : i # 3 => Len(fields[i].value) <= maxValueLen
        <2>1. /\ Len(f1.value) <= maxValueLen /\ Len(f2.value) <= maxValueLen
              /\ Len(f4.value) <= maxValueLen /\ Len(f5.value) <= maxValueLen
              /\ Len(f6.value) <= maxValueLen /\ Len(f7.value) <= maxValueLen
              /\ Len(f8.value) <= maxValueLen /\ Len(f9.value) <= maxValueLen
              /\ Len(f10.value) <= maxValueLen
            BY <1>10, <1>12, <1>13, <1>14, <1>15 DEF Fits
        <2> QED
            BY <1>18, <1>20, <2>1
    <1>23. /\ fields[3].value = EncodeAll(merchantAccount(r)) /\ fields[6].value = Amount(r)
           /\ fields[8].value = sanitize(r.name, DefaultMerchantName, 25)
           /\ fields[9].value = sanitize(r.city, DefaultMerchantCity, 15)
           /\ fields[10].value = EncodeAll(additionalData(r))
        BY <1>11, <1>12, <1>13, <1>14, <1>15, <1>18
    <1> QED
        BY <1>18, <1>19, <1>21, <1>22, <1>23 DEF fields

\* Whatever renders is a text of bytes under its own CRC.
LEMMA PayloadSealed ==
    ASSUME NEW r \in Request, IsAmount(r.original), ChaveValid(r.key), Renders(r)
    PROVE  Payload(r) \in Text /\ IsSealed(Payload(r))
    <1>1. Encodes(Fields(r))
        BY DEF Renders
    <1>2. Fields(r) \in [1..10 -> Field]
        BY FieldsAre
    <1>3. EncodeAll(Fields(r)) \in Text
        <2>1. 10 \in Nat
            OBVIOUS
        <2> QED
            BY <1>1, <1>2, <2>1, EncodeAllTyped
    <1> QED
        BY <1>3, SealedIs DEF Payload

\* A charge without a description always gets a code.
LEMMA AlwaysRenders ==
    ASSUME NEW r \in Request, IsAmount(r.original), ChaveValid(r.key), r.description = <<>>
    PROVE  Renders(r)
    <1>1. r.original \in Text /\ r.key \in Text /\ r.description \in Text
        BY RequestAssumption
    <1>2. r.key # <<>> /\ Len(r.key) <= 77
        <2> DEFINE k == Len(r.key)
        <2>1. k \in 1..77
            BY DEF ChaveValid
        <2> HIDE DEF k
        <2>2. k >= 1
            BY <2>1
        <2>3. k <= 77
            BY <2>1
        <2>4. r.key # <<>>
            BY <1>1, <2>2, NotEmpty DEF k
        <2> QED
            BY <2>3, <2>4 DEF k
    <1>3. Len(Amount(r)) <= 13
        <2> DEFINE m == Len(Amount(r))
        <2>1. m \in 4..13
            BY <1>1, AmountCarries DEF Amount
        <2> HIDE DEF m
        <2>2. m <= 13
            BY <2>1
        <2> QED
            BY <2>2 DEF m
    <1>4. /\ Encodes(merchantAccount(r)) /\ Len(EncodeAll(merchantAccount(r))) <= 99
        BY <1>1, <1>2, AccountReads
    <1>5. Encodes(Fields(r))
        <2> DEFINE fields == Fields(r)
        <2>1. /\ fields \in [1..10 -> Field]
              /\ fields[3].value = EncodeAll(merchantAccount(r))
              /\ \A i \in 1..10 : i # 3 => Len(fields[i].value) <= maxValueLen
            BY FieldsAre
        <2> HIDE DEF fields
        <2>2. Len(fields[3].value) <= maxValueLen
            BY <1>4, <2>1 DEF maxValueLen
        <2>3. Encodes(fields)
            BY <2>1, <2>2 DEF Encodes
        <2> QED
            BY <2>3 DEF fields
    <1> QED
        BY <1>2, <1>3, <1>4, <1>5 DEF Renders

\* What a reader finds in a code that was rendered: its fields, and the CRC's after them.
LEMMA PayloadReads ==
    ASSUME NEW r \in Request, IsAmount(r.original), ChaveValid(r.key), Renders(r)
    PROVE  \E read \in [1..11 -> Field] :
              /\ Parse(Payload(r)) = [ok |-> TRUE, fields |-> read]
              /\ \A i \in 1..10 : read[i] = Fields(r)[i]
    <1> DEFINE fields == Fields(r)
    <1>1. fields \in [1..10 -> Field]
        BY FieldsAre
    <1>2. Encodes(fields)
        BY DEF Renders
    <1>3. Payload(r) = Sealed(EncodeAll(fields))
        BY DEF Payload
    <1> HIDE DEF fields
    <1>4. PICK join : Joined(join, 10, fields) /\ EncodeAll(fields) = join[10]
        <2>1. 10 \in Nat
            OBVIOUS
        <2> QED
            BY <1>1, <1>2, <2>1, EncodeAllJoins
    <1> DEFINE body == join[10]
               seal == checksum(body \o CRCHeader)
               last == TLV(63, seal)
               read == [i \in 1..11 |-> IF i = 11 THEN last ELSE fields[i]]
               whole == Payload(r)
               joined == [i \in 0..11 |-> IF i = 11 THEN whole ELSE join[i]]
    <1>5. /\ join \in [0..10 -> Text] /\ join[0] = <<>>
          /\ \A i \in 1..10 : join[i] = join[i - 1] \o Encode(fields[i])
        BY <1>4 DEF Joined
    <1>6. body \in Text
        BY <1>5
    <1>7. seal \in Text /\ Len(seal) = 4
        <2>1. Len(body \o CRCHeader) \in Nat
            BY <1>6, HeaderIs, JoinIs, TextIs
        <2>2. CRC16(body \o CRCHeader) \in Reg
            BY <2>1, CRC16Typed
        <2>3. seal \in [1..4 -> 48..70]
            BY <2>2, ChecksumTells
        <2> HIDE DEF seal
        <2>4. seal \in [1..4 -> Byte]
            BY <2>3 DEF Byte
        <2>5. 4 \in Nat
            OBVIOUS
        <2> QED
            BY <2>4, <2>5, MadeOf
    <1>8. Payload(r) = body \o CRCHeader \o seal
        BY <1>3, <1>4 DEF Sealed
    <1> HIDE DEF body, seal
    <1>9. last \in Field /\ last.id = 63 /\ last.value = seal
        <2>1. 63 \in 0..99
            OBVIOUS
        <2> QED
            BY <1>7, <2>1, FieldIs
    <1> HIDE DEF last
    <1>10. Len(last.value) <= maxValueLen
        <2>1. Len(last.value) = 4
            BY <1>7, <1>9
        <2>2. 4 <= maxValueLen
            BY DEF maxValueLen
        <2> QED
            BY <2>1, <2>2
    <1>11. Encode(last) = CRCHeader \o seal
        <2> DEFINE x == Encode(last)
                   y == CRCHeader \o seal
        <2>1. /\ x \in Text /\ Len(x) = 4 + Len(last.value)
              /\ x[1] = 48 + last.id \div 10 /\ x[2] = 48 + (last.id % 10)
              /\ x[3] = 48 + Len(last.value) \div 10 /\ x[4] = 48 + (Len(last.value) % 10)
              /\ \A j \in 1..Len(last.value) : x[4 + j] = last.value[j]
            BY <1>9, <1>10, EncodeIs
        <2>2. /\ y \in Text /\ Len(y) = Len(CRCHeader) + Len(seal)
              /\ \A i \in 1..Len(CRCHeader) : y[i] = CRCHeader[i]
              /\ \A i \in 1..Len(seal) : y[Len(CRCHeader) + i] = seal[i]
            BY <1>7, HeaderIs, JoinIs
        <2> HIDE DEF x, y
        <2>3. /\ Len(x) = 8 /\ x[1] = 54 /\ x[2] = 51 /\ x[3] = 48 /\ x[4] = 52
              /\ \A j \in 1..4 : x[4 + j] = seal[j]
            <3>1. last.id = 63 /\ last.value = seal /\ Len(last.value) = 4
                BY <1>7, <1>9
            <3>2. 63 \div 10 = 6 /\ 63 % 10 = 3 /\ 4 \div 10 = 0 /\ 4 % 10 = 4
                OBVIOUS
            <3>3. x[1] = 48 + 6 /\ x[2] = 48 + 3 /\ x[3] = 48 + 0 /\ x[4] = 48 + 4
                BY <2>1, <3>1, <3>2
            <3>4. Len(x) = 8
                BY <2>1, <3>1
            <3>5. \A j \in 1..4 : x[4 + j] = seal[j]
                BY <2>1, <3>1
            <3> QED
                BY <3>3, <3>4, <3>5
        <2>4. /\ Len(y) = 8 /\ \A i \in 1..4 : y[i] = CRCHeader[i]
              /\ \A j \in 1..4 : y[4 + j] = seal[j]
            BY <1>7, <2>2, HeaderIs
        <2>5. y[1] = 54 /\ y[2] = 51 /\ y[3] = 48 /\ y[4] = 52
            BY <2>4 DEF CRCHeader
        <2>6. \A i \in 1..Len(x) : x[i] = y[i]
            <3> SUFFICES ASSUME NEW i \in 1..8
                         PROVE  x[i] = y[i]
                BY <2>3
            <3>1. CASE i <= 4
                <4>1. i = 1 \/ i = 2 \/ i = 3 \/ i = 4
                    BY <3>1
                <4> QED
                    BY <2>3, <2>5, <4>1
            <3>2. CASE ~(i <= 4)
                <4>1. i - 4 \in 1..4 /\ 4 + (i - 4) = i
                    BY <3>2
                <4> QED
                    BY <2>3, <2>4, <4>1
            <3> QED
                BY <3>1, <3>2
        <2>7. x = y
            <3>1. x \in Text /\ y \in Text /\ Len(x) = Len(y)
                BY <2>1, <2>2, <2>3, <2>4
            <3> QED
                BY <2>6, <3>1, SameText
        <2> QED
            BY <2>7 DEF x, y
    <1>12. Payload(r) = body \o Encode(last) /\ Payload(r) \in Text
        <2>1. body \in Seq(Byte) /\ CRCHeader \in Seq(Byte) /\ seal \in Seq(Byte)
            BY <1>6, <1>7, HeaderIs, ByteIs
        <2>2. body \o CRCHeader \o seal = body \o (CRCHeader \o seal)
            BY <2>1, ConcatAssociative
        <2>3. Encode(last) \in Text
            BY <1>9, <1>10, EncodeIs
        <2>4. body \o Encode(last) \in Text
            BY <1>6, <2>3, JoinIs
        <2> QED
            BY <1>8, <1>11, <2>2, <2>4
    <1>13. read \in [1..11 -> Field] /\ read[11] = last /\ \A i \in 1..10 : read[i] = fields[i]
        BY <1>1, <1>9
    <1>14. joined \in [0..11 -> Text] /\ joined[11] = Payload(r) /\ \A i \in 0..10 : joined[i] = join[i]
        <2>1. whole \in Text
            BY <1>12
        <2> HIDE DEF whole
        <2>2. \A i \in 0..11 : i = 11 \/ i \in 0..10
            OBVIOUS
        <2>3. \A i \in 0..10 : i # 11 /\ i \in 0..11
            OBVIOUS
        <2>4. joined \in [0..11 -> Text]
            <3>1. \A i \in 0..10 : join[i] \in Text
                BY <1>5
            <3> QED
                BY <2>1, <2>2, <3>1
        <2>5. joined[11] = whole /\ \A i \in 0..10 : joined[i] = join[i]
            BY <2>3
        <2> QED
            BY <2>4, <2>5 DEF whole
    <1> HIDE DEF read, joined
    <1>15. Encodes(read)
        <2>1. \A i \in 1..10 : Len(fields[i].value) <= maxValueLen
            BY <1>1, <1>2 DEF Encodes
        <2>2. \A i \in 1..11 : i = 11 \/ i \in 1..10
            OBVIOUS
        <2>3. \A i \in 1..11 : Len(read[i].value) <= maxValueLen
            BY <1>10, <1>13, <2>1, <2>2
        <2> QED
            BY <1>13, <2>3 DEF Encodes
    <1>16. Joined(joined, 11, read)
        <2>1. joined[0] = <<>>
            BY <1>5, <1>14
        <2>2. ASSUME NEW i \in 1..11
              PROVE  joined[i] = joined[i - 1] \o Encode(read[i])
            <3>1. CASE i = 11
                <4>1. joined[i - 1] = body /\ joined[i] = Payload(r) /\ read[i] = last
                    <5>1. i - 1 = 10 /\ 10 \in 0..10
                        BY <3>1
                    <5> QED
                        BY <1>13, <1>14, <3>1, <5>1 DEF body
                <4> QED
                    BY <1>12, <4>1
            <3>2. CASE i # 11
                <4>1. i \in 1..10 /\ i \in 0..10 /\ i - 1 \in 0..10
                    BY <3>2
                <4>2. joined[i] = join[i] /\ joined[i - 1] = join[i - 1] /\ read[i] = fields[i]
                    BY <1>13, <1>14, <4>1
                <4> QED
                    BY <1>5, <4>1, <4>2
            <3> QED
                BY <3>1, <3>2
        <2> QED
            BY <1>14, <2>1, <2>2 DEF Joined
    <1>17. Parse(joined[11]) = [ok |-> TRUE, fields |-> read]
        <2>1. 11 \in Nat
            OBVIOUS
        <2>2. read \in [1..11 -> Field]
            BY <1>13
        <2> QED
            BY <1>15, <1>16, <2>1, <2>2, ParseJoined
    <1> QED
        BY <1>13, <1>14, <1>17 DEF fields

\* A code that was rendered reads back as the request it was rendered from.
Carries(built, r) ==
    LET outer == Parse(built)
        account == Parse(Find(outer.fields, 26))
        additional == Parse(Find(outer.fields, 62))
    IN  /\ outer.ok /\ account.ok /\ additional.ok
        /\ Find(account.fields, 1) = r.key
        /\ IsAmount(Find(outer.fields, 54))
        /\ ParseAmount(Find(outer.fields, 54)) = ParseAmount(r.original)
        /\ Find(additional.fields, 5) \in {r.txid, NoTxID}
        /\ Len(Find(additional.fields, 5)) \in 1..25
        /\ Clean(Find(outer.fields, 59), 25) /\ Clean(Find(outer.fields, 60), 15)
        /\ Has(account.fields, 2) =>
              LET d == Find(account.fields, 2) IN
              /\ Len(d) <= 72 /\ IsPrefix(d, r.description)
              /\ d # r.description => RuneStart(r.description[Len(d) + 1])

LEMMA RenderedCarries ==
    ASSUME NEW r \in Request, IsAmount(r.original), ChaveValid(r.key), Renders(r)
    PROVE  Carries(Payload(r), r)
    <1> DEFINE fields == Fields(r)
               account == merchantAccount(r)
               additional == additionalData(r)
    <1>1. /\ r.original \in Text /\ r.key \in Text /\ r.description \in Text
          /\ r.name \in Text /\ r.city \in Text /\ r.txid \in Text
          /\ r.description # <<>> => RuneStart(r.description[1])
        BY RequestAssumption
    <1>2. Len(r.key) <= 77
        <2> DEFINE k == Len(r.key)
        <2>1. k \in 1..77
            BY DEF ChaveValid
        <2> HIDE DEF k
        <2>2. k <= 77
            BY <2>1
        <2> QED
            BY <2>2 DEF k
    <1>3. /\ fields \in [1..10 -> Field]
          /\ fields[3].id = 26 /\ fields[3].value = EncodeAll(account)
          /\ fields[6].id = 54 /\ fields[6].value = Amount(r)
          /\ fields[8].id = 59 /\ fields[8].value = sanitize(r.name, DefaultMerchantName, 25)
          /\ fields[9].id = 60 /\ fields[9].value = sanitize(r.city, DefaultMerchantCity, 15)
          /\ fields[10].id = 62 /\ fields[10].value = EncodeAll(additional)
          /\ \A i \in 1..2 : fields[i].id # 26
          /\ \A i \in 1..5 : fields[i].id # 54
          /\ \A i \in 1..7 : fields[i].id # 59
          /\ \A i \in 1..8 : fields[i].id # 60
          /\ \A i \in 1..9 : fields[i].id # 62
        BY FieldsAre
    <1>4. /\ Parse(EncodeAll(account)) = [ok |-> TRUE, fields |-> account]
          /\ Find(account, 1) = r.key
          /\ Has(account, 2) => r.description # <<>> /\ Find(account, 2) = Cut(r.description)
        BY <1>1, <1>2, AccountReads
    <1>5. /\ Parse(EncodeAll(additional)) = [ok |-> TRUE, fields |-> additional]
          /\ Find(additional, 5) \in {r.txid, NoTxID} /\ Len(Find(additional, 5)) \in 1..25
        BY <1>1, AdditionalReads
    <1>6. IsAmount(Amount(r)) /\ ParseAmount(Amount(r)) = ParseAmount(r.original)
        BY <1>1, AmountCarries DEF Amount
    <1>7. /\ Clean(sanitize(r.name, DefaultMerchantName, 25), 25)
          /\ Clean(sanitize(r.city, DefaultMerchantCity, 15), 15)
        <2>1. 25 \in Nat \ {0} /\ 15 \in Nat \ {0}
            OBVIOUS
        <2> QED
            BY <1>1, <2>1, DefaultsTidy, SanitizeClean
    <1>8. /\ Len(Cut(r.description)) \in 0..72 /\ IsPrefix(Cut(r.description), r.description)
          /\ Cut(r.description) # r.description =>
                RuneStart(r.description[Len(Cut(r.description)) + 1])
        BY <1>1, CutIs
    <1>9. Len(Cut(r.description)) <= 72
        <2> DEFINE m == Len(Cut(r.description))
        <2>1. m \in 0..72
            BY <1>8
        <2> HIDE DEF m
        <2>2. m <= 72
            BY <2>1
        <2> QED
            BY <2>2 DEF m
    <1>10. PICK read \in [1..11 -> Field] :
              /\ Parse(Payload(r)) = [ok |-> TRUE, fields |-> read]
              /\ \A i \in 1..10 : read[i] = fields[i]
        BY PayloadReads
    <1> HIDE DEF fields, account, additional
    <1>11. \A k \in 1..10, id \in Nat :
              fields[k].id = id /\ (\A i \in 1..(k - 1) : fields[i].id # id)
                  => Find(read, id) = fields[k].value
        <2> SUFFICES ASSUME NEW k \in 1..10, NEW id \in Nat, fields[k].id = id,
                            \A i \in 1..(k - 1) : fields[i].id # id
                     PROVE  Find(read, id) = fields[k].value
            OBVIOUS
        <2>1. 11 \in Nat /\ k \in 1..11 /\ \A i \in 1..(k - 1) : i \in 1..10
            OBVIOUS
        <2>2. read[k] = fields[k] /\ \A i \in 1..(k - 1) : read[i] = fields[i]
            BY <1>10, <2>1
        <2>3. read[k].id = id
            BY <2>2
        <2>4. \A i \in 1..(k - 1) : read[i].id # id
            BY <2>2
        <2>5. Find(read, id) = read[k].value
            BY <2>1, <2>3, <2>4, FindIs
        <2> QED
            BY <2>2, <2>5
    <1>12. Find(read, 26) = EncodeAll(account)
        <2>1. 3 \in 1..10 /\ 26 \in Nat /\ 3 - 1 = 2
            OBVIOUS
        <2> QED
            BY <1>3, <1>11, <2>1
    <1>13. Find(read, 54) = Amount(r)
        <2>1. 6 \in 1..10 /\ 54 \in Nat /\ 6 - 1 = 5
            OBVIOUS
        <2> QED
            BY <1>3, <1>11, <2>1
    <1>14. Find(read, 59) = sanitize(r.name, DefaultMerchantName, 25)
        <2>1. 8 \in 1..10 /\ 59 \in Nat /\ 8 - 1 = 7
            OBVIOUS
        <2> QED
            BY <1>3, <1>11, <2>1
    <1>15. Find(read, 60) = sanitize(r.city, DefaultMerchantCity, 15)
        <2>1. 9 \in 1..10 /\ 60 \in Nat /\ 9 - 1 = 8
            OBVIOUS
        <2> QED
            BY <1>3, <1>11, <2>1
    <1>16. Find(read, 62) = EncodeAll(additional)
        <2>1. 10 \in 1..10 /\ 62 \in Nat /\ 10 - 1 = 9
            OBVIOUS
        <2> QED
            BY <1>3, <1>11, <2>1
    <1> DEFINE outer == Parse(Payload(r))
    <1>17. outer.ok = TRUE /\ outer.fields = read
        BY <1>10
    <1>18. /\ Parse(Find(outer.fields, 26)).ok = TRUE
           /\ Parse(Find(outer.fields, 26)).fields = account
        BY <1>4, <1>12, <1>17
    <1>19. /\ Parse(Find(outer.fields, 62)).ok = TRUE
           /\ Parse(Find(outer.fields, 62)).fields = additional
        BY <1>5, <1>16, <1>17
    <1>20. /\ IsAmount(Find(outer.fields, 54))
           /\ ParseAmount(Find(outer.fields, 54)) = ParseAmount(r.original)
        BY <1>6, <1>13, <1>17
    <1>21. Clean(Find(outer.fields, 59), 25) /\ Clean(Find(outer.fields, 60), 15)
        BY <1>7, <1>14, <1>15, <1>17
    <1> HIDE DEF outer
    <1>22. Has(account, 2) =>
              LET d == Find(account, 2) IN
              /\ Len(d) <= 72 /\ IsPrefix(d, r.description)
              /\ d # r.description => RuneStart(r.description[Len(d) + 1])
        BY <1>4, <1>8, <1>9
    <1> QED
        BY <1>4, <1>5, <1>17, <1>18, <1>19, <1>20, <1>21, <1>22 DEF Carries, outer

-----------------------------------------------------------------------------
(***************************************************************************)
(* The theorems.                                                           *)
(***************************************************************************)
\* The inductive invariant: a code that was sealed, and at most one damage to it.
CodecInv ==
    /\ issued # <<>> => issued \in Text /\ IsSealed(issued)
    /\ code = issued \/ Smudged(code, issued) \/ Swapped(code, issued)

LEMMA CodecStep ==
    CodecInv /\ [Next]_codecVars => CodecInv'
    <1> SUFFICES ASSUME CodecInv, [Next]_codecVars
                 PROVE  CodecInv'
        OBVIOUS
    <1>1. CASE Smudge
        <2>1. issued' = issued /\ Smudged(code', issued)
            BY <1>1 DEF Smudge, Smudged
        <2> QED
            BY <2>1 DEF CodecInv
    <1>2. CASE Swap
        <2>1. issued' = issued /\ Swapped(code', issued)
            BY <1>2 DEF Swap, Swapped
        <2> QED
            BY <2>1 DEF CodecInv
    <1>3. CASE UNCHANGED codecVars
        BY <1>3 DEF codecVars, CodecInv
    <1> QED
        BY <1>1, <1>2, <1>3 DEF Next

LEMMA CodecTells ==
    CodecInv => DamageShows
    <1> SUFFICES ASSUME CodecInv, issued # <<>>
                 PROVE  Verify(code) <=> SameButCase(code, issued)
        BY DEF DamageShows, SameButCase
    <1>1. issued \in Text /\ IsSealed(issued)
        BY DEF CodecInv
    <1>2. CASE code = issued
        <2>1. issued \in Seq(Nat)
            BY <1>1, TextIs
        <2> QED
            BY <1>1, <1>2, <2>1, DigitsTell
    <1>3. CASE Smudged(code, issued)
        BY <1>1, <1>3, SmudgeTold
    <1>4. CASE Swapped(code, issued)
        BY <1>1, <1>4, SwapTold
    <1> QED
        BY <1>2, <1>3, <1>4 DEF CodecInv

\* Verify takes the code it was issued, and a code with one character changed or two
\* neighbours swapped only when nothing but the case of the CRC's digits differs.
THEOREM DamageTold == Spec => []DamageShows
    <1>1. Init => CodecInv
        <2> SUFFICES ASSUME Init
                     PROVE  CodecInv
            OBVIOUS
        <2>1. request \in Request /\ IsAmount(request.original) /\ ChaveValid(request.key)
              /\ code = issued
            BY DEF Init
        <2>2. issued # <<>> => Renders(request) /\ issued = Payload(request)
            BY DEF Init
        <2> QED
            BY <2>1, <2>2, PayloadSealed DEF CodecInv
    <1> QED
        BY <1>1, CodecStep, CodecTells, PTL DEF Spec

\* The inductive invariant: the code that was issued is the one of the request.
CarryInv ==
    /\ request \in Request /\ IsAmount(request.original) /\ ChaveValid(request.key)
    /\ issued = IF Renders(request) THEN Payload(request) ELSE <<>>

LEMMA CarryTells ==
    CarryInv => CodeCarries
    <1> SUFFICES ASSUME CarryInv, request.description = <<>> \/ issued # <<>>
                 PROVE  issued # <<>> /\ Carries(issued, request)
        BY DEF CodeCarries, Carries
    <1>1. request \in Request /\ IsAmount(request.original) /\ ChaveValid(request.key)
        BY DEF CarryInv
    <1>2. Renders(request)
        <2>1. CASE request.description = <<>>
            BY <1>1, <2>1, AlwaysRenders
        <2>2. CASE issued # <<>>
            BY <2>2 DEF CarryInv
        <2> QED
            BY <2>1, <2>2
    <1>3. issued = Payload(request)
        BY <1>2 DEF CarryInv
    <1>4. issued # <<>>
        <2>1. issued \in Text /\ Len(issued) >= 8
            BY <1>1, <1>2, <1>3, PayloadSealed DEF IsSealed
        <2> DEFINE m == Len(issued)
        <2>2. m >= 8 /\ m \in Nat
            BY <2>1, TextIs
        <2> HIDE DEF m
        <2>3. m >= 1
            BY <2>2
        <2> QED
            BY <2>1, <2>3, NotEmpty DEF m
    <1> QED
        BY <1>1, <1>2, <1>3, <1>4, RenderedCarries

\* Whatever buildCharge lets through gets a code, and the code reads back as the request:
\* its key, its cents, its txid or none, clean names, a description cut between runes.
THEOREM CodeCarried == Spec => []CodeCarries
    <1>1. Init => CarryInv
        BY DEF Init, CarryInv
    <1>2. CarryInv /\ [Next]_codecVars => CarryInv'
        <2>1. [Next]_codecVars => request' = request /\ issued' = issued
            BY DEF Next, Smudge, Swap, codecVars
        <2> QED
            BY <2>1 DEF CarryInv
    <1> QED
        BY <1>1, <1>2, CarryTells, PTL DEF Spec
=============================================================================
