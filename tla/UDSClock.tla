------------------------------ MODULE UDSClock ------------------------------
(***************************************************************************)
(* The library's clock: milliseconds of the wall clock cut to 32 bits      *)
(* (UDSMillis), and the comparison of a deadline with it (UDSTimeAfter).   *)
(* UDSServer and UDSClient count ticks left to a deadline instead; the     *)
(* theorems say how long that is the same thing.                           *)
(***************************************************************************)
EXTENDS Integers, TLAPS

Word == 4294967296          \* 2^32
Half == 2147483648          \* 2^31

(* gettimeofday's milliseconds, converted to uint32_t.                     *)
UDSMillis(now) == now % Word

(* Conversion of a word to int32_t.                                        *)
Signed(word) == IF word < Half THEN word ELSE word - Word

(* `a is after b'.  The subtraction of two int32_t wraps in the project's  *)
(* build, which is not optimised.                                          *)
UDSTimeAfter(a, b) == Signed((Signed(b) - Signed(a)) % Word) < 0

(* The deadline UDSMillis() + delay, looked at when `elapsed' milliseconds *)
(* have passed since.                                                      *)
DeadlinePassed(start, delay, elapsed) ==
    UDSTimeAfter(UDSMillis(start + elapsed), (UDSMillis(start) + delay) % Word)

-----------------------------------------------------------------------------
LEMMA Widths == Half \in Nat \ {0} /\ Word = 2 * Half
BY SMT DEF Half, Word

(* A residue is unique.                                                    *)
LEMMA Residue ==
    ASSUME NEW q \in Int, NEW r \in 0..Word-1
    PROVE  (Word * q + r) % Word = r
<1> Word \in Nat \ {0}
    BY Widths, SMT
<1> QED BY SMTT(30)

LEMMA Division ==
    ASSUME NEW x \in Int
    PROVE  \E q \in Int, r \in 0..Word-1 : x = Word * q + r
<1> Word \in Nat \ {0}
    BY Widths, SMT
<1>1. x \div Word \in Int /\ x % Word \in 0..Word-1 /\ x = Word * (x \div Word) + (x % Word)
    BY SMTT(30)
<1> QED BY <1>1

(* The residue of a number less than one word out of range.                *)
LEMMA NearResidue ==
    ASSUME NEW x \in -Word..2*Word-1
    PROVE  x % Word = IF x < 0 THEN x + Word ELSE IF x < Word THEN x ELSE x - Word
<1> Word \in Nat \ {0}
    BY Widths, SMT
<1>1. CASE x < 0
    BY <1>1, SMTT(30)
<1>2. CASE x >= 0 /\ x < Word
    BY <1>2, SMTT(30)
<1>3. CASE x >= Word
    BY <1>3, SMTT(30)
<1> QED BY <1>1, <1>2, <1>3, SMT

(* The comparison sees nothing but the difference of the two times, modulo *)
(* the width of the word.                                                  *)
LEMMA AfterDifference ==
    ASSUME NEW a \in 0..Word-1, NEW b \in 0..Word-1
    PROVE  UDSTimeAfter(a, b) <=> IF a <= b THEN b - a >= Half ELSE a - b <= Half
<1> DEFINE d == Signed(b) - Signed(a)
<1>1. d \in -Word..2*Word-1 /\ d < Word
    BY Widths, SMT DEF Signed
<1>2. d % Word = IF d < 0 THEN d + Word ELSE d
    <2> HIDE DEF d
    <2>1. d % Word = IF d < 0 THEN d + Word ELSE IF d < Word THEN d ELSE d - Word
        BY <1>1, NearResidue
    <2> QED BY <2>1, <1>1
<1>3. UDSTimeAfter(a, b) <=> (IF d < 0 THEN d + Word ELSE d) >= Half
    <2>1. UDSTimeAfter(a, b) <=> Signed(d % Word) < 0
        BY DEF UDSTimeAfter
    <2>2. UDSTimeAfter(a, b) <=> Signed(IF d < 0 THEN d + Word ELSE d) < 0
        BY <2>1, <1>2
    <2> HIDE DEF d
    <2> QED BY <2>2, <1>1, Widths, SMT DEF Signed
<1> QED BY <1>1, <1>3, Widths, SMT DEF Signed

(* What the comparison of a deadline computes.                             *)
LEMMA DeadlineDifference ==
    ASSUME NEW start \in Nat, NEW delay \in 0..Half-1, NEW elapsed \in 0..delay+Word
    PROVE  DeadlinePassed(start, delay, elapsed)
              <=> elapsed > delay /\ elapsed <= delay + Half
<1>1. PICK q \in Int, s \in 0..Word-1 : start = Word * q + s
    <2>1. start \in Int BY SMT
    <2> QED BY <2>1, Division
<1>2. PICK k \in Int, a \in 0..Word-1 : s + elapsed = Word * k + a
    <2>1. s + elapsed \in Int BY Widths, SMT
    <2> QED BY <2>1, Division
<1>3. UDSMillis(start) = s
    BY <1>1, Residue DEF UDSMillis
<1>4. UDSMillis(start + elapsed) = a
    <2>1. start + elapsed = Word * (q + k) + a
        BY <1>1, <1>2, Widths, SMT
    <2>2. q + k \in Int BY SMT
    <2>3. (Word * (q + k) + a) % Word = a BY <2>2, Residue
    <2> QED BY <2>1, <2>3 DEF UDSMillis
<1>5. PICK b \in 0..Word-1 :
        /\ (UDSMillis(start) + delay) % Word = b
        /\ b = IF s + delay < Word THEN s + delay ELSE s + delay - Word
    <2>1. PICK due \in -Word..2*Word-1 : due = s + delay /\ due >= 0
        BY Widths, SMT
    <2>2. due % Word = IF due < 0 THEN due + Word ELSE IF due < Word THEN due ELSE due - Word
        BY NearResidue
    <2> QED BY <1>3, <2>1, <2>2, Widths, SMT
<1>6. a = s + elapsed \/ a = s + elapsed - Word \/ a = s + elapsed - 2 * Word
    <2>1. s + elapsed \in 0..3*Word-1
        BY Widths, SMT
    <2>2. k = 0 \/ k = 1 \/ k = 2
        BY <1>2, <2>1, Widths, SMT
    <2> QED BY <1>2, <2>2, Widths, SMT
<1>7. DeadlinePassed(start, delay, elapsed)
        <=> IF a <= b THEN b - a >= Half ELSE a - b <= Half
    BY <1>4, <1>5, AfterDifference DEF DeadlinePassed
<1> QED BY <1>5, <1>6, <1>7, Widths, SMT

(* For 2^31 ms behind a deadline UDSTimeAfter says that it has passed, and *)
(* not before: meanwhile the ticks left of UDSServer are what the code     *)
(* computes, wherever in the word the clock stands.                        *)
THEOREM DeadlineHeld ==
    ASSUME NEW start \in Nat, NEW delay \in 0..Half-1, NEW elapsed \in 0..delay+Half
    PROVE  DeadlinePassed(start, delay, elapsed) <=> elapsed > delay
BY DeadlineDifference, Widths, SMT

(* A deadline left alone for longer lies in the future again, for another  *)
(* 2^31 ms: a poll that finds it then waits up to 24.8 days.               *)
THEOREM DeadlineComesBack ==
    ASSUME NEW start \in Nat, NEW delay \in 0..Half-1,
           NEW elapsed \in delay+Half+1..delay+Word
    PROVE  ~DeadlinePassed(start, delay, elapsed)
BY DeadlineDifference, Widths, SMT
=============================================================================
