------------------------- MODULE HackComputer_proofs -------------------------
(***************************************************************************)
(* The gates of the computer implement the machine of HackISA, for every   *)
(* word size from 4 to 16 bits, every program and every keyboard: first    *)
(* with buses for words and the ALU for the computation                    *)
(* (ComputerImplementsMachine), then with numbers (ComputerImplementsISA). *)
(* Between the two lie the number a bus carries, what the chains of Add16  *)
(* and Inc16 do to it, what each row of the computation table returns, and *)
(* the numbers of the locations of the memory.                             *)
(*                                                                         *)
(* The second half is about one program, for words of 7 to 16 bits: what   *)
(* Fill.asm stores, and what its variable color tells: the instructions    *)
(* the assembler makes of the text, each with its address; what a cycle of *)
(* the computer does to the numbers of the registers and of the memory,    *)
(* instruction by instruction (from the lemmas of the first half); and the *)
(* inductive invariant of the loop.                                        *)
(***************************************************************************)
EXTENDS Fill, NaturalLemmas, FiniteSetTheorems, TLAPS

BusFetch(instructions, counter) ==
    LET n == Number(counter, WordSize - 1)
    IN  IF n + 1 \in DOMAIN instructions THEN instructions[n + 1] ELSE At(0)

BusImmediate(n) == [i \in Bits |-> i < Sign /\ BitOf(n, i)]

BusCompute(comp, d, a, m) ==
    ALU(d, IF computation[comp][1] = 1 THEN m ELSE a,
        [n \in 1..6 |-> computation[comp][n + 1] = 1])

BusLocation(bus) == Low(bus, WordSize - 1)

\* The two top bits of an address select the keyboard when both are on.
BusStored == {l \in [0..(WordSize - 2) -> BOOLEAN] : ~(l[WordSize - 3] /\ l[WordSize - 2])}

BusMemory ==
    [l \in BusStored |->
        IF l[WordSize - 2] THEN Screen[Low(l, WordSize - 3)]
        ELSE RAM16K[Low(l, WordSize - 2)]]

Machine == INSTANCE HackISA WITH
    Fetch <- BusFetch, Zero <- Off, Successor <- Inc16, Immediate <- BusImmediate,
    Compute <- BusCompute, IsZero <- zr, IsNegative <- ng,
    Location <- BusLocation, Stored <- BusStored,
    A <- ARegister, D <- DRegister, pc <- PC, memory <- BusMemory, keyboard <- Keyboard

-----------------------------------------------------------------------------
(* Chips.                                                                  *)

LEMMA MuxSelects ==
    ASSUME NEW a \in BOOLEAN, NEW b \in BOOLEAN, NEW s \in BOOLEAN
    PROVE  Mux(a, b, s) = IF s THEN b ELSE a
  BY DEF Mux

(* A Mux16 hands over the input its selector names.                        *)
LEMMA Mux16Selects ==
    ASSUME NEW a \in Word, NEW b \in Word, NEW s \in BOOLEAN
    PROVE  Mux16(a, b, s) = IF s THEN b ELSE a
  <1>1. \A i \in Bits : Mux(a[i], b[i], s) = IF s THEN b[i] ELSE a[i]
    BY MuxSelects DEF Word
  <1>2. a = [i \in Bits |-> a[i]] /\ b = [i \in Bits |-> b[i]]
    BY DEF Word
  <1> QED
    BY <1>1, <1>2 DEF Mux16

LEMMA OffWord == Off \in Word
  BY DEF Off, Word

LEMMA ALUWord ==
    ASSUME NEW x, NEW y, NEW control
    PROVE  ALU(x, y, control) \in Word
  BY DEF ALU, Mux16, Mux, Word

LEMMA Inc16Word ==
    ASSUME NEW x
    PROVE  Inc16(x) \in Word
  BY DEF Inc16, Mux, Word

-----------------------------------------------------------------------------
(* The number a bus carries.                                               *)

\* What a bit is worth.
Worth(bit, n) == IF bit THEN 2^n ELSE 0

(* A number is summed from its bits, one at a time.                        *)
LEMMA NumberSteps ==
    ASSUME NEW bus, NEW top \in 0..16
    PROVE  /\ Number(bus, 0) = 0
           /\ \A n \in 0..top : Number(bus, n) \in Nat
           /\ \A n \in 1..top : Number(bus, n) = Number(bus, n - 1) + Worth(bus[n - 1], n - 1)
  <1> DEFINE step == [p \in (1..top) \X Nat |-> p[2] + Worth(bus[p[1] - 1], p[1] - 1)]
             F(v, m) == [i \in 0..m |-> IF i = 0 THEN 0
                                        ELSE v[i - 1] + (IF bus[i - 1] THEN 2^(i - 1) ELSE 0)]
             G(m) == CHOOSE v : v = F(v, m)
  <1>1. \A n \in 1..top : n - 1 \in 0..15 /\ n - 1 \in 0..top /\ Worth(bus[n - 1], n - 1) \in Nat
    <2> TAKE n \in 1..top
    <2>1. PICK k \in 0..15 : k = n - 1
      OBVIOUS
    <2>2. 2^k \in Nat
      BY Powers
    <2> QED
      BY <2>1, <2>2 DEF Worth
  <1>2. step \in [(1..top) \X Nat -> Nat]
    <2>1. \A p \in (1..top) \X Nat : p[2] + Worth(bus[p[1] - 1], p[1] - 1) \in Nat
      BY <1>1
    <2> QED
      BY <2>1
  <1>3. PICK f : IsIteration(f, top, Nat, 0, step)
    <2>1. top \in Nat /\ 0 \in Nat
      OBVIOUS
    <2> HIDE DEF step
    <2> QED
      BY <1>2, <2>1, Iterated
  <1>4. f \in [0..top -> Nat] /\ f[0] = 0
        /\ \A n \in 1..top : f[n] = f[n - 1] + Worth(bus[n - 1], n - 1)
    <2>1. f \in [0..top -> Nat] /\ f[0] = 0 /\ \A n \in 1..top : f[n] = step[<<n, f[n - 1]>>]
      BY <1>3 DEF IsIteration
    <2>2. ASSUME NEW n \in 1..top
          PROVE  step[<<n, f[n - 1]>>] = f[n - 1] + Worth(bus[n - 1], n - 1)
      <3>1. f[n - 1] \in Nat
        BY <1>1, <2>1
      <3> QED
        BY <3>1
    <2> HIDE DEF step
    <2> QED
      BY <2>1, <2>2
  <1>5. ASSUME NEW m \in 0..top
        PROVE  Number(bus, m) = f[m]
    <2> DEFINE h == [i \in 0..m |-> f[i]]
    <2>1. \A i \in 0..m : i \in 0..top /\ (i # 0 => i \in 1..top /\ i - 1 \in 0..m)
      OBVIOUS
    <2>2. \A i \in 0..m : h[i] = F(h, m)[i]
      BY <1>4, <2>1 DEF Worth
    <2>3. h = F(h, m)
      BY <2>2
    <2>4. G(m) = F(G(m), m)
      <3> HIDE DEF h
      <3> QED
        BY <2>3
    <2>5. Number(bus, m) = G(m)[m]
      BY DEF Number
    <2> DEFINE S == {i \in 0..m : G(m)[i] = f[i]}
    <2>6. 0 \in S
      <3>1. 0 \in 0..m
        OBVIOUS
      <3>2. F(G(m), m)[0] = 0
        <4> HIDE DEF G
        <4> QED
          BY <3>1
      <3> HIDE DEF F, G
      <3> QED
        BY <1>4, <2>4, <3>1, <3>2
    <2>7. ASSUME NEW i \in 0..m, i \in S, i + 1 \in 0..m
          PROVE  i + 1 \in S
      <3>1. (i + 1) - 1 = i /\ i + 1 # 0 /\ i + 1 \in 1..top
        BY <2>7
      <3>2. G(m)[i + 1] = G(m)[i] + (IF bus[i] THEN 2^i ELSE 0)
        <4>1. F(G(m), m)[i + 1] = G(m)[i] + (IF bus[i] THEN 2^i ELSE 0)
          <5> HIDE DEF G
          <5> QED
            BY <2>7, <3>1
        <4> HIDE DEF F, G
        <4> QED
          BY <2>4, <4>1
      <3> HIDE DEF G
      <3>3. f[i + 1] = f[i] + Worth(bus[i], i)
        BY <1>4, <3>1
      <3>4. G(m)[i] = f[i]
        BY <2>7
      <3>5. G(m)[i + 1] = f[i + 1]
        BY <3>2, <3>3, <3>4 DEF Worth
      <3> QED
        BY <2>7, <3>5
    <2>8. 0..m \subseteq S
      <3> HIDE DEF S, G, F
      <3>1. m \in Nat
        OBVIOUS
      <3> QED
        BY <2>6, <2>7, <3>1, UpTo
    <2>9. m \in S
      <3>1. m \in 0..m
        OBVIOUS
      <3> HIDE DEF S
      <3> QED
        BY <2>8, <3>1
    <2> HIDE DEF G
    <2> QED
      BY <2>5, <2>9
  <1>6. 0 \in 0..top /\ \A n \in 1..top : n \in 0..top
    OBVIOUS
  <1> HIDE DEF step
  <1> QED
    BY <1>1, <1>4, <1>5, <1>6

(* Buses with the same low bits carry the same low number.                 *)
LEMMA NumberAgrees ==
    ASSUME NEW a, NEW b, NEW top \in 0..16, \A i \in 0..(top - 1) : a[i] = b[i]
    PROVE  \A n \in 0..top : Number(a, n) = Number(b, n)
  <1> DEFINE S == {n \in 0..top : Number(a, n) = Number(b, n)}
  <1>1. 0 \in S
    BY NumberSteps
  <1>2. ASSUME NEW n \in 0..top, n \in S, n + 1 \in 0..top
        PROVE  n + 1 \in S
    <2>1. n + 1 \in 1..top /\ (n + 1) - 1 = n /\ a[n] = b[n]
      BY <1>2
    <2> QED
      BY <1>2, <2>1, NumberSteps
  <1>3. top \in Nat
    OBVIOUS
  <1> HIDE DEF S
  <1>4. 0..top \subseteq S
    BY <1>1, <1>2, <1>3, UpTo
  <1> QED
    BY <1>4 DEF S

(* The bits of a number are those of the bus.                              *)
LEMMA NumberBits ==
    ASSUME NEW bus, NEW top \in 0..16
    PROVE  /\ Number(bus, top) \in 0..(2^top - 1)
           /\ \A n \in 0..top : Number(bus, top) % 2^n = Number(bus, n)
           /\ \A n \in 0..(top - 1) : BitOf(Number(bus, top), n) <=> bus[n]
  <1> DEFINE S == {n \in 0..top : Number(bus, n) < 2^n}
  <1>1. 0 \in S
    <2>1. 2^0 = 1
      OBVIOUS
    <2> QED
      BY <2>1, NumberSteps
  <1>2. ASSUME NEW n \in 0..top, n \in S, n + 1 \in 0..top
        PROVE  n + 1 \in S
    <2>1. n + 1 \in 1..top /\ (n + 1) - 1 = n /\ n \in 0..15
      BY <1>2
    <2>2. PICK p \in Nat : p = 2^n /\ 2^(n + 1) = 2 * p
      BY <2>1, Powers
    <2>3. Number(bus, n + 1) = Number(bus, n) + Worth(bus[n], n) /\ Number(bus, n) \in Nat
      BY <2>1, NumberSteps
    <2> QED
      BY <1>2, <2>2, <2>3 DEF Worth
  <1>3. top \in Nat
    OBVIOUS
  <1>4. \A n \in 0..top : Number(bus, n) \in Nat /\ Number(bus, n) < 2^n
    <2>1. 0..top \subseteq S
      <3> HIDE DEF S
      <3> QED
        BY <1>1, <1>2, <1>3, UpTo
    <2> QED
      BY <2>1, NumberSteps
  <1>5. PICK y \in Nat : y = Number(bus, top)
    BY <1>3, <1>4
  <1>6. y < 2^top /\ 2^top \in Nat \ {0}
    <2>1. top = 0 => 2^top = 1
      OBVIOUS
    <2>2. ASSUME top # 0 PROVE 2^top \in Nat
      <3>1. PICK k \in 0..15 : k + 1 = top
        <4>1. top - 1 \in 0..15 /\ (top - 1) + 1 = top
          BY <2>2
        <4> QED
          BY <4>1
      <3>2. 2^(k + 1) \in Nat
        <4>1. PICK p \in Nat : p = 2^k /\ 2^(k + 1) = 2 * p
          BY Powers
        <4> QED
          BY <4>1
      <3> QED
        BY <3>1, <3>2
    <2>3. 2^top \in Nat
      BY <2>1, <2>2
    <2> QED
      BY <1>3, <1>4, <1>5, <2>3
  <1>7. y % 2^top = y
    BY <1>6
\* From the whole number down to the lower bits.
  <1> DEFINE Agrees(n) == y % 2^n = Number(bus, n)
             T == {k \in 0..top : Agrees(top - k)}
  <1>8. ASSUME NEW n \in 0..(top - 1), Agrees(n + 1)
        PROVE  Agrees(n) /\ (BitOf(y, n) <=> bus[n])
    <2>1. n \in 0..15 /\ n + 1 \in 1..top /\ (n + 1) - 1 = n /\ n \in 0..top
      OBVIOUS
    <2>2. PICK p \in Nat \ {0} : p = 2^n
      BY <2>1, Powers
    <2>3. PICK r \in 0..(p - 1) :
             r = y % 2^n /\ y % 2^(n + 1) = IF BitOf(y, n) THEN r + p ELSE r
      <3>1. y % 2^n \in Nat /\ y % 2^n < 2^n
            /\ y % 2^(n + 1) = IF BitOf(y, n) THEN (y % 2^n) + 2^n ELSE y % 2^n
        <4>1. /\ y % 2^n \in 0..y /\ y % 2^n < 2^n
              /\ y % 2^(n + 1) = IF (y \div 2^n) % 2 = 1 THEN (y % 2^n) + 2^n ELSE y % 2^n
          BY <2>1, LowBits
        <4> QED
          BY <4>1 DEF BitOf
      <3>2. PICK r \in Nat : r = y % 2^n
        BY <3>1
      <3> QED
        BY <2>2, <3>1, <3>2
    <2>4. PICK s \in 0..(p - 1) :
             s = Number(bus, n) /\ Number(bus, n + 1) = IF bus[n] THEN s + p ELSE s
      <3>1. PICK s \in Nat : s = Number(bus, n)
        BY <1>4, <2>1
      <3>2. s < p
        BY <1>4, <2>1, <2>2, <3>1
      <3>3. Number(bus, n + 1) = Number(bus, n) + Worth(bus[n], n)
        BY <2>1, NumberSteps
      <3>4. Number(bus, n + 1) = IF bus[n] THEN s + p ELSE s
        BY <2>2, <3>1, <3>3 DEF Worth
      <3> QED
        BY <3>1, <3>2, <3>4
    <2>5. (BitOf(y, n) <=> bus[n]) /\ r = s
      <3>1. (IF BitOf(y, n) THEN r + p ELSE r) = IF bus[n] THEN s + p ELSE s
        BY <1>8, <2>3, <2>4
      <3> QED
        BY <3>1
    <2> QED
      BY <2>3, <2>4, <2>5
  <1>9. 0 \in T
    BY <1>5, <1>7
  <1>10. ASSUME NEW k \in 0..top, k \in T, k + 1 \in 0..top
         PROVE  k + 1 \in T
    <2>1. top - (k + 1) \in 0..(top - 1) /\ (top - (k + 1)) + 1 = top - k
      BY <1>10
    <2>2. Agrees(top - k)
      BY <1>10
    <2> HIDE DEF Agrees
    <2> QED
      BY <1>8, <1>10, <2>1, <2>2
  <1>11. \A n \in 0..top : Agrees(n)
    <2>1. 0..top \subseteq T
      <3> HIDE DEF T
      <3> QED
        BY <1>3, <1>9, <1>10, UpTo
    <2> TAKE n \in 0..top
    <2>2. top - n \in T /\ top - (top - n) = n
      <3>1. top - n \in 0..top /\ top - (top - n) = n
        OBVIOUS
      <3> HIDE DEF T
      <3> QED
        BY <2>1, <3>1
    <2> HIDE DEF Agrees
    <2> QED
      BY <2>2
  <1>12. \A n \in 0..(top - 1) : n + 1 \in 0..top
    OBVIOUS
  <1>13. Number(bus, top) \in 0..(2^top - 1)
    BY <1>5, <1>6
  <1>14. \A n \in 0..top : Number(bus, top) % 2^n = Number(bus, n)
    BY <1>5, <1>11
  <1> HIDE DEF Agrees
  <1> QED
    BY <1>5, <1>8, <1>11, <1>12, <1>13, <1>14

LEMMA PowersNat == \A n \in 0..16 : 2^n \in Nat \ {0}
  <1> TAKE n \in 0..16
  <1>1. CASE n = 0
    <2>1. 2^0 = 1
      OBVIOUS
    <2> QED
      BY <1>1, <2>1
  <1>2. CASE n # 0
    <2>1. PICK k \in 0..15 : k + 1 = n
      <3>1. n - 1 \in 0..15 /\ (n - 1) + 1 = n
        BY <1>2
      <3> QED
        BY <3>1
    <2>2. PICK p \in Nat \ {0} : p = 2^k /\ 2^(k + 1) = 2 * p
      BY Powers
    <2> QED
      BY <2>1, <2>2
  <1> QED
    BY <1>1, <1>2

(* A number is the one its bits make.                                      *)
LEMMA NumberFrom ==
    ASSUME NEW top \in 0..16, NEW y \in Nat, y < 2^top,
           NEW bus, \A i \in 0..(top - 1) : bus[i] <=> BitOf(y, i)
    PROVE  Number(bus, top) = y
  <1> DEFINE S == {n \in 0..top : Number(bus, n) = y % 2^n}
  <1>1. 0 \in S
    <2>1. 2^0 = 1 /\ y % 1 = 0
      OBVIOUS
    <2> QED
      BY <2>1, NumberSteps
  <1>2. ASSUME NEW n \in 0..top, n \in S, n + 1 \in 0..top
        PROVE  n + 1 \in S
    <2>1. n + 1 \in 1..top /\ (n + 1) - 1 = n /\ n \in 0..15 /\ n \in 0..(top - 1)
      BY <1>2
    <2>2. y % 2^(n + 1) = IF (y \div 2^n) % 2 = 1 THEN (y % 2^n) + 2^n ELSE y % 2^n
      BY <2>1, LowBits
    <2>3. Number(bus, n + 1) = Number(bus, n) + Worth(bus[n], n) /\ Number(bus, n) \in Nat
      BY <2>1, NumberSteps
    <2>4. bus[n] <=> (y \div 2^n) % 2 = 1
      BY <2>1 DEF BitOf
    <2>5. Number(bus, n) = y % 2^n
      BY <1>2
    <2>6. Number(bus, n + 1) = y % 2^(n + 1)
      <3>1. CASE bus[n]
        BY <2>2, <2>3, <2>4, <2>5, <3>1 DEF Worth
      <3>2. CASE ~bus[n]
        BY <2>2, <2>3, <2>4, <2>5, <3>2 DEF Worth
      <3> QED
        BY <3>1, <3>2
    <2> QED
      BY <1>2, <2>6
  <1>3. top \in Nat /\ top \in 0..top
    OBVIOUS
  <1>4. top \in S
    <2> HIDE DEF S
    <2>1. 0..top \subseteq S
      BY <1>1, <1>2, <1>3, UpTo
    <2> QED
      BY <1>3, <2>1
  <1>5. 2^top \in Nat \ {0} /\ y % 2^top = y
    <2>1. Number(bus, top) \in 0..(2^top - 1)
      BY NumberBits
    <2>2. 2^top \in Nat
      BY PowersNat
    <2> QED
      BY <2>2
  <1> QED
    BY <1>4, <1>5

(* The word a bus carries, as a number.                                    *)
AsNumber(bus) == Number(bus, WordSize)

LEMMA WordSizes ==
    /\ WordSize \in 4..16 /\ Sign \in 3..15 /\ Sign + 1 = WordSize
    /\ Bits = 0..(WordSize - 1) /\ Size \in Nat \ {0} /\ Size = 2^WordSize
    /\ Size = 2 * 2^Sign /\ 2^Sign \in Nat \ {0} /\ Size \div 2 = 2^Sign
  <1>1. WordSize \in 4..16 /\ Sign \in 3..15 /\ Sign + 1 = WordSize
        /\ Bits = 0..(WordSize - 1)
    BY WordSizeAssumption DEF Sign, Bits
  <1>2. PICK s \in 0..15 : s = Sign /\ s + 1 = WordSize
    BY <1>1
  <1>3. PICK p \in Nat \ {0} : p = 2^s /\ 2^(s + 1) = 2 * p
    BY Powers
  <1>4. Size = 2 * p /\ Size = 2^WordSize
    BY <1>2, <1>3 DEF Size
  <1>5. (2 * p) \div 2 = p
    OBVIOUS
  <1> QED
    BY <1>1, <1>2, <1>3, <1>4, <1>5

(* The bits, the range and the location of the number a word carries.      *)
LEMMA ValueIs ==
    ASSUME NEW a \in Word
    PROVE  /\ AsNumber(a) \in 0..(Size - 1)
           /\ \A i \in Bits : BitOf(AsNumber(a), i) <=> a[i]
           /\ Location(AsNumber(a)) = Number(a, WordSize - 1)
  <1>1. AsNumber(a) \in 0..(Size - 1) /\ \A i \in Bits : BitOf(AsNumber(a), i) <=> a[i]
    <2>1. WordSize \in 0..16
      BY WordSizes
    <2> QED
      BY <2>1, NumberBits, WordSizes DEF AsNumber
  <1>2. AsNumber(a) % 2^(WordSize - 1) = Number(a, WordSize - 1)
    <2>1. WordSize \in 0..16 /\ WordSize - 1 \in 0..WordSize
      BY WordSizes
    <2> QED
      BY <2>1, NumberBits DEF AsNumber
  <1>3. Size \div 2 = 2^(WordSize - 1)
    BY WordSizes DEF Sign
  <1> QED
    BY <1>1, <1>2, <1>3 DEF Location

LEMMA ValueInjective ==
    ASSUME NEW a \in Word, NEW b \in Word, AsNumber(a) = AsNumber(b)
    PROVE  a = b
  <1>1. \A i \in Bits : a[i] <=> b[i]
    BY ValueIs
  <1>2. \A i \in Bits : a[i] \in BOOLEAN /\ b[i] \in BOOLEAN
    BY DEF Word
  <1>3. a = [i \in Bits |-> a[i]] /\ b = [i \in Bits |-> b[i]]
    BY DEF Word
  <1>4. \A i \in Bits : a[i] = b[i]
    BY <1>1, <1>2
  <1> QED
    BY <1>3, <1>4

LEMMA ValueOff == AsNumber(Off) = 0
  <1>1. \A i \in 0..(WordSize - 1) : Off[i] <=> BitOf(0, i)
    <2> TAKE i \in 0..(WordSize - 1)
    <2>1. i \in 0..15 /\ i \in Bits
      BY WordSizes
    <2>2. 2^i \in Nat \ {0}
      BY <2>1, Powers
    <2>3. 0 \div 2^i = 0
      BY <2>2
    <2>4. ~BitOf(0, i)
      <3>1. 0 % 2 # 1
        OBVIOUS
      <3>2. BitOf(0, i) <=> (0 \div 2^i) % 2 = 1
        BY DEF BitOf
      <3> QED
        BY <2>3, <3>1, <3>2, Zenon
    <2> QED
      BY <2>1, <2>4 DEF Off
  <1>2. WordSize \in 0..16 /\ 0 < 2^WordSize
    BY WordSizes
  <1> QED
    BY <1>1, <1>2, NumberFrom DEF AsNumber

(* Not16 takes a word from the greatest one.                               *)
LEMMA ValueNot ==
    ASSUME NEW a \in Word
    PROVE  Not16(a) \in Word /\ AsNumber(Not16(a)) = (Size - 1) - AsNumber(a)
  <1> DEFINE b == Not16(a)
             S == {n \in 0..WordSize : Number(a, n) + Number(b, n) + 1 = 2^n}
  <1>1. WordSize \in 0..16 /\ WordSize \in Nat /\ WordSize \in 0..WordSize
    BY WordSizes
  <1>2. 0 \in S
    <2>1. 2^0 = 1
      OBVIOUS
    <2> HIDE DEF b
    <2> QED
      BY <1>1, <2>1, NumberSteps
  <1>3. ASSUME NEW n \in 0..WordSize, n \in S, n + 1 \in 0..WordSize
        PROVE  n + 1 \in S
    <2>1. n + 1 \in 1..WordSize /\ (n + 1) - 1 = n /\ n \in Bits /\ n \in 0..15
      BY <1>1, <1>3, WordSizes
    <2>2. b[n] <=> ~a[n]
      BY <2>1 DEF Not16, Word
    <2> HIDE DEF b
    <2>3. PICK p \in Nat : p = 2^n /\ 2^(n + 1) = 2 * p
      BY <2>1, Powers
    <2>4. Number(a, n + 1) = Number(a, n) + Worth(a[n], n) /\ Number(a, n) \in Nat
      BY <1>1, <2>1, NumberSteps
    <2>5. Number(b, n + 1) = Number(b, n) + Worth(b[n], n) /\ Number(b, n) \in Nat
      BY <1>1, <2>1, NumberSteps
    <2> QED
      BY <1>3, <2>2, <2>3, <2>4, <2>5 DEF Worth
  <1>4. 0..WordSize \subseteq S
    <2> HIDE DEF S
    <2> QED
      BY <1>1, <1>2, <1>3, UpTo
  <1>5. Number(a, WordSize) + Number(b, WordSize) + 1 = 2^WordSize
    BY <1>1, <1>4
  <1>6. b \in Word
    BY DEF Not16, Word
  <1>7. AsNumber(a) \in Nat /\ AsNumber(b) \in Nat
    BY <1>6, ValueIs, WordSizes
  <1> HIDE DEF b
  <1>8. AsNumber(a) + AsNumber(b) + 1 = Size /\ Size \in Nat
    BY <1>5, WordSizes DEF AsNumber
  <1>9. AsNumber(b) = (Size - 1) - AsNumber(a)
    BY <1>7, <1>8
  <1> QED
    BY <1>6, <1>9 DEF b

-----------------------------------------------------------------------------
(* The adder and the incrementer.                                          *)

(* The carries of Add16, from the lowest bit up.                           *)
LEMMA CarrySteps ==
    ASSUME NEW a \in Word, NEW b \in Word
    PROVE  /\ Carry(a, b) \in [0..WordSize -> BOOLEAN]
           /\ ~Carry(a, b)[0]
           /\ \A n \in 1..WordSize :
                 Carry(a, b)[n] <=> FullCarry(a[n - 1], b[n - 1], Carry(a, b)[n - 1])
  <1> DEFINE step == [p \in (1..WordSize) \X BOOLEAN |-> FullCarry(a[p[1] - 1], b[p[1] - 1], p[2])]
             F(c) == [i \in 0..WordSize |->
                         IF i = 0 THEN FALSE ELSE FullCarry(a[i - 1], b[i - 1], c[i - 1])]
             c == CHOOSE c : c = F(c)
  <1>1. WordSize \in Nat
    BY WordSizes
  <1>2. step \in [(1..WordSize) \X BOOLEAN -> BOOLEAN]
    BY DEF FullCarry
  <1>3. PICK f : IsIteration(f, WordSize, BOOLEAN, FALSE, step)
    <2> HIDE DEF step
    <2> QED
      BY <1>1, <1>2, Iterated
  <1>4. f \in [0..WordSize -> BOOLEAN] /\ f[0] = FALSE
        /\ \A n \in 1..WordSize : f[n] = step[<<n, f[n - 1]>>]
    BY <1>3 DEF IsIteration
  <1>5. \A n \in 1..WordSize : n \in 0..WordSize /\ n - 1 \in 0..WordSize
    BY <1>1
  <1>6. \A n \in 1..WordSize : f[n] = FullCarry(a[n - 1], b[n - 1], f[n - 1])
    <2> TAKE n \in 1..WordSize
    <2>1. f[n - 1] \in BOOLEAN
      BY <1>4, <1>5
    <2>2. step[<<n, f[n - 1]>>] = FullCarry(a[n - 1], b[n - 1], f[n - 1])
      BY <2>1
    <2> HIDE DEF step
    <2> QED
      BY <1>4, <2>2
  <1>7. f = F(f)
    <2>1. \A n \in 0..WordSize : f[n] = F(f)[n]
      <3> TAKE n \in 0..WordSize
      <3>1. CASE n = 0
        BY <1>4, <3>1
      <3>2. CASE n # 0
        <4>1. n \in 1..WordSize
          BY <3>2
        <4>2. F(f)[n] = FullCarry(a[n - 1], b[n - 1], f[n - 1])
          BY <3>2
        <4> QED
          BY <1>6, <4>1, <4>2
      <3> QED
        BY <3>1, <3>2
    <2>2. f = [n \in 0..WordSize |-> f[n]] /\ F(f) = [n \in 0..WordSize |-> F(f)[n]]
      BY <1>4
    <2> HIDE DEF F
    <2> QED
      BY <2>1, <2>2
  <1>8. c = F(c)
    <2> HIDE DEF F
    <2> QED
      BY <1>7
  <1>9. Carry(a, b) = c
    BY DEF Carry
  <1> HIDE DEF c
  <1>10. c = [i \in 0..WordSize |->
                 IF i = 0 THEN FALSE ELSE FullCarry(a[i - 1], b[i - 1], c[i - 1])]
    BY <1>8
  <1>11. c \in [0..WordSize -> BOOLEAN]
    <2>1. \A i \in 0..WordSize :
             (IF i = 0 THEN FALSE ELSE FullCarry(a[i - 1], b[i - 1], c[i - 1])) \in BOOLEAN
      BY DEF FullCarry
    <2> QED
      BY <1>10, <2>1
  <1>12. c[0] = FALSE
    <2>1. 0 \in 0..WordSize
      BY <1>1
    <2> QED
      BY <1>10, <2>1
  <1>13. ASSUME NEW n \in 1..WordSize
         PROVE  c[n] = FullCarry(a[n - 1], b[n - 1], c[n - 1])
    <2>1. n \in 0..WordSize /\ n # 0
      BY <1>1
    <2> QED
      BY <1>10, <2>1
  <1> QED
    BY <1>9, <1>11, <1>12, <1>13

(* Add16 adds and loses the last carry.                                    *)
LEMMA ValueAdd ==
    ASSUME NEW a \in Word, NEW b \in Word
    PROVE  /\ Add16(a, b) \in Word
           /\ AsNumber(Add16(a, b)) = (AsNumber(a) + AsNumber(b)) % Size
  <1> DEFINE c == Carry(a, b)
             sum == Add16(a, b)
             S == {n \in 0..WordSize :
                     Number(a, n) + Number(b, n) = Number(sum, n) + Worth(c[n], n)}
  <1>1. WordSize \in 0..16 /\ WordSize \in Nat /\ WordSize \in 0..WordSize
    BY WordSizes
  <1>2. sum \in Word /\ \A i \in Bits : sum[i] <=> FullSum(a[i], b[i], c[i])
    BY DEF Add16, Word, FullSum, HalfSum, Xor
  <1> HIDE DEF sum
  <1>3. ~c[0] /\ \A n \in 1..WordSize : c[n] <=> FullCarry(a[n - 1], b[n - 1], c[n - 1])
    BY CarrySteps
  <1> HIDE DEF c
  <1>4. 0 \in S
    BY <1>1, <1>3, NumberSteps DEF Worth
  <1>5. ASSUME NEW n \in 0..WordSize, n \in S, n + 1 \in 0..WordSize
        PROVE  n + 1 \in S
    <2>1. n + 1 \in 1..WordSize /\ (n + 1) - 1 = n /\ n \in Bits /\ n \in 0..15
      BY <1>1, <1>5, WordSizes
    <2>2. /\ sum[n] <=> FullSum(a[n], b[n], c[n])
          /\ c[n + 1] <=> FullCarry(a[n], b[n], c[n])
      BY <1>2, <1>3, <2>1
    <2>3. PICK p \in Nat : p = 2^n /\ 2^(n + 1) = 2 * p
      BY <2>1, Powers
    <2>4. PICK u \in Nat, v \in Nat, w \in Nat :
             /\ u = Number(a, n) /\ Number(a, n + 1) = u + Worth(a[n], n)
             /\ v = Number(b, n) /\ Number(b, n + 1) = v + Worth(b[n], n)
             /\ w = Number(sum, n) /\ Number(sum, n + 1) = w + Worth(sum[n], n)
      BY <1>1, <2>1, NumberSteps
    <2>5. u + v = w + Worth(c[n], n)
      BY <1>5, <2>4
    <2>6. (u + Worth(a[n], n)) + (v + Worth(b[n], n))
            = (w + Worth(sum[n], n)) + Worth(c[n + 1], n + 1)
      <3>1. CASE a[n]
        BY <2>2, <2>3, <2>5, <3>1 DEF Worth, FullSum, FullCarry, HalfSum, Xor
      <3>2. CASE ~a[n]
        BY <2>2, <2>3, <2>5, <3>2 DEF Worth, FullSum, FullCarry, HalfSum, Xor
      <3> QED
        BY <3>1, <3>2
    <2> QED
      BY <1>5, <2>4, <2>6
  <1>6. WordSize \in S
    <2> HIDE DEF S
    <2>1. 0..WordSize \subseteq S
      BY <1>1, <1>4, <1>5, UpTo
    <2> QED
      BY <1>1, <2>1
  <1>7. PICK e \in 0..1 : AsNumber(a) + AsNumber(b) = Size * e + AsNumber(sum)
    <2>1. AsNumber(a) + AsNumber(b) = AsNumber(sum) + Worth(c[WordSize], WordSize)
      BY <1>6 DEF AsNumber
    <2>2. Worth(c[WordSize], WordSize) = IF c[WordSize] THEN Size ELSE 0
      BY WordSizes DEF Worth
    <2>3. AsNumber(sum) \in Nat /\ Size \in Nat
      BY <1>2, ValueIs, WordSizes
    <2>4. CASE c[WordSize]
      <3>1. AsNumber(a) + AsNumber(b) = Size * 1 + AsNumber(sum)
        BY <2>1, <2>2, <2>3, <2>4
      <3> QED
        BY <3>1
    <2>5. CASE ~c[WordSize]
      <3>1. AsNumber(a) + AsNumber(b) = Size * 0 + AsNumber(sum)
        BY <2>1, <2>2, <2>3, <2>5
      <3> QED
        BY <3>1
    <2> QED
      BY <2>4, <2>5
  <1>8. (Size * e + AsNumber(sum)) % Size = AsNumber(sum)
    <2>1. AsNumber(sum) \in 0..(Size - 1) /\ Size \in Nat \ {0}
      BY <1>2, ValueIs, WordSizes
    <2>2. PICK w \in Nat \ {0} : w = Size
      BY WordSizes
    <2>3. PICK v \in 0..(w - 1) : v = AsNumber(sum)
      BY <2>1, <2>2
    <2>4. (w * e + v) % w = v
      BY DivisionIsUnique
    <2> QED
      BY <2>2, <2>3, <2>4
  <1> QED
    BY <1>2, <1>7, <1>8 DEF sum

\* Every bit below bit n is on.
Filled(a, n) == \A i \in 0..(n - 1) : a[i]

(* A bit flips when all lower ones are on.                                 *)
LEMMA FlipIs ==
    ASSUME NEW a \in Word
    PROVE  Inc16(a) = [i \in Bits |-> Mux(a[i], ~a[i], Filled(a, i))]
  <1> DEFINE F(flip) == [i \in Bits |-> IF i = 0 THEN TRUE ELSE a[i - 1] /\ flip[i - 1]]
             flip == CHOOSE flip : flip = F(flip)
             g == [i \in Bits |-> Filled(a, i)]
  <1>1. Bits = 0..Sign /\ Sign \in Nat
    BY WordSizes
  <1>2. ASSUME NEW i \in Bits
        PROVE  g[i] = F(g)[i]
    <2>1. g[i] = Filled(a, i)
      OBVIOUS
    <2>2. CASE i = 0
      <3>1. Filled(a, i) = TRUE
        BY <2>2 DEF Filled
      <3> QED
        BY <2>1, <2>2, <3>1
    <2>3. CASE i # 0
      <3>1. i - 1 \in Bits
        BY <1>1, <2>3
      <3>2. F(g)[i] = (a[i - 1] /\ Filled(a, i - 1))
        BY <2>3, <3>1
      <3>3. Filled(a, i) <=> a[i - 1] /\ Filled(a, i - 1)
        <4>1. 0..(i - 1) = (0..((i - 1) - 1)) \cup {i - 1}
          BY <1>1, <3>1
        <4> QED
          BY <4>1 DEF Filled
      <3>4. Filled(a, i) \in BOOLEAN /\ (a[i - 1] /\ Filled(a, i - 1)) \in BOOLEAN
        BY DEF Filled
      <3> QED
        BY <2>1, <3>2, <3>3, <3>4
    <2> QED
      BY <2>2, <2>3
  <1>3. g = F(g)
    <2>1. g = [i \in Bits |-> g[i]] /\ F(g) = [i \in Bits |-> F(g)[i]]
      OBVIOUS
    <2> HIDE DEF F, g
    <2> QED
      BY <1>2, <2>1
  <1>4. flip = F(flip)
    <2> HIDE DEF F, g
    <2> QED
      BY <1>3
  <1> DEFINE S == {i \in 0..Sign : flip[i] <=> Filled(a, i)}
  <1> HIDE DEF flip, g
  <1>5. 0 \in S
    <2>1. 0 \in Bits
      BY <1>1
    <2>2. flip[0] = TRUE
      BY <1>4, <2>1
    <2> QED
      BY <1>1, <2>2 DEF Filled
  <1>6. ASSUME NEW i \in 0..Sign, i \in S, i + 1 \in 0..Sign
        PROVE  i + 1 \in S
    <2>1. i + 1 \in Bits /\ i + 1 # 0 /\ (i + 1) - 1 = i
      BY <1>1, <1>6
    <2>2. flip[i + 1] = (a[i] /\ flip[i])
      <3>1. F(flip)[i + 1] = (a[(i + 1) - 1] /\ flip[(i + 1) - 1])
        BY <2>1
      <3> HIDE DEF F
      <3> QED
        BY <1>4, <2>1, <3>1
    <2>3. Filled(a, i + 1) <=> a[i] /\ Filled(a, i)
      <3>1. 0..((i + 1) - 1) = (0..(i - 1)) \cup {i}
        BY <1>1, <1>6
      <3> QED
        BY <3>1 DEF Filled
    <2> QED
      BY <1>6, <2>2, <2>3
  <1>7. \A i \in Bits : flip[i] <=> Filled(a, i)
    <2> HIDE DEF S
    <2>1. 0..Sign \subseteq S
      BY <1>1, <1>5, <1>6, UpTo
    <2> QED
      BY <1>1, <2>1 DEF S
  <1>8. Inc16(a) = [i \in Bits |-> Mux(a[i], ~a[i], flip[i])]
    BY DEF Inc16, flip
  <1>9. \A i \in Bits : Mux(a[i], ~a[i], flip[i]) = Mux(a[i], ~a[i], Filled(a, i))
    BY <1>7 DEF Mux
  <1> QED
    BY <1>8, <1>9

(* Inc16 adds one.                                                         *)
LEMMA ValueInc ==
    ASSUME NEW a \in Word
    PROVE  Inc16(a) \in Word /\ AsNumber(Inc16(a)) = (AsNumber(a) + 1) % Size
  <1> DEFINE b == Inc16(a)
             S == {n \in 0..WordSize :
                     Number(a, n) + 1 = Number(b, n) + (IF Filled(a, n) THEN 2^n ELSE 0)}
  <1>1. WordSize \in 0..16 /\ WordSize \in Nat /\ WordSize \in 0..WordSize
    BY WordSizes
  <1>2. b \in Word /\ \A i \in Bits : b[i] <=> (IF Filled(a, i) THEN ~a[i] ELSE a[i])
    <2>1. b = [i \in Bits |-> Mux(a[i], ~a[i], Filled(a, i))]
      BY FlipIs
    <2> HIDE DEF b
    <2>2. \A i \in Bits : a[i] \in BOOLEAN
      BY DEF Word
    <2> QED
      BY <2>1, <2>2 DEF Word, Mux
  <1> HIDE DEF b
  <1>3. 0 \in S
    <2>1. Filled(a, 0) /\ 2^0 = 1
      BY DEF Filled
    <2> QED
      BY <1>1, <2>1, NumberSteps
  <1>4. ASSUME NEW n \in 0..WordSize, n \in S, n + 1 \in 0..WordSize
        PROVE  n + 1 \in S
    <2>1. n + 1 \in 1..WordSize /\ (n + 1) - 1 = n /\ n \in Bits /\ n \in 0..15
      BY <1>1, <1>4, WordSizes
    <2>2. Filled(a, n + 1) <=> Filled(a, n) /\ a[n]
      <3>1. 0..((n + 1) - 1) = (0..(n - 1)) \cup {n}
        BY <2>1
      <3> QED
        BY <3>1 DEF Filled
    <2>3. PICK p \in Nat : p = 2^n /\ 2^(n + 1) = 2 * p
      BY <2>1, Powers
    <2>4. PICK u \in Nat, v \in Nat :
             /\ u = Number(a, n) /\ Number(a, n + 1) = u + Worth(a[n], n)
             /\ v = Number(b, n) /\ Number(b, n + 1) = v + Worth(b[n], n)
      BY <1>1, <2>1, NumberSteps
    <2>5. u + 1 = v + (IF Filled(a, n) THEN p ELSE 0)
      BY <1>4, <2>3, <2>4
    <2>6. b[n] <=> (IF Filled(a, n) THEN ~a[n] ELSE a[n])
      BY <1>2, <2>1
    <2>7. (u + Worth(a[n], n)) + 1
            = (v + Worth(b[n], n)) + (IF Filled(a, n + 1) THEN 2 * p ELSE 0)
      BY <2>2, <2>3, <2>5, <2>6 DEF Worth
    <2> QED
      BY <1>4, <2>3, <2>4, <2>7
  <1>5. WordSize \in S
    <2> HIDE DEF S
    <2>1. 0..WordSize \subseteq S
      BY <1>1, <1>3, <1>4, UpTo
    <2> QED
      BY <1>1, <2>1
  <1>6. PICK w \in Nat \ {0} : w = Size /\ w = 2^WordSize
    BY WordSizes
  <1>7. PICK v \in 0..(w - 1) : v = AsNumber(b)
    BY <1>2, <1>6, ValueIs
  <1>8. PICK e \in 0..1 : AsNumber(a) + 1 = w * e + v
    <2>1. AsNumber(a) + 1 = v + (IF Filled(a, WordSize) THEN w ELSE 0)
      BY <1>5, <1>6, <1>7 DEF AsNumber
    <2>2. CASE Filled(a, WordSize)
      <3>1. AsNumber(a) + 1 = w * 1 + v
        BY <2>1, <2>2
      <3> QED
        BY <3>1
    <2>3. CASE ~Filled(a, WordSize)
      <3>1. AsNumber(a) + 1 = w * 0 + v
        BY <2>1, <2>3
      <3> QED
        BY <3>1
    <2> QED
      BY <2>2, <2>3
  <1>9. (w * e + v) % w = v
    BY DivisionIsUnique
  <1> QED
    BY <1>2, <1>6, <1>7, <1>8, <1>9 DEF b

(* And16 and the disjunction the ALU makes of it.                          *)
LEMMA ValueAnd ==
    ASSUME NEW a \in Word, NEW b \in Word
    PROVE  And16(a, b) \in Word /\ AsNumber(And16(a, b)) = And(AsNumber(a), AsNumber(b))
  <1>1. \A i \in Bits : a[i] \in BOOLEAN /\ b[i] \in BOOLEAN
    BY DEF Word
  <1>2. \A i \in Bits : (BitOf(AsNumber(a), i) <=> a[i]) /\ (BitOf(AsNumber(b), i) <=> b[i])
    BY ValueIs
  <1>3. And16(a, b) = [i \in Bits |-> BitOf(AsNumber(a), i) /\ BitOf(AsNumber(b), i)]
    BY <1>2 DEF And16
  <1>4. And16(a, b) \in Word
    BY DEF And16, Word
  <1> QED
    BY <1>3, <1>4 DEF And, AsNumber

LEMMA ValueOr ==
    ASSUME NEW a \in Word, NEW b \in Word
    PROVE  AsNumber(Not16(And16(Not16(a), Not16(b)))) = Or(AsNumber(a), AsNumber(b))
  <1>1. \A i \in Bits : a[i] \in BOOLEAN /\ b[i] \in BOOLEAN
    BY DEF Word
  <1>2. \A i \in Bits : (BitOf(AsNumber(a), i) <=> a[i]) /\ (BitOf(AsNumber(b), i) <=> b[i])
    BY ValueIs
  <1>3. Not16(And16(Not16(a), Not16(b))) = [i \in Bits |-> ~(~a[i] /\ ~b[i])]
    BY DEF Not16, And16
  <1>4. \A i \in Bits : ~(~a[i] /\ ~b[i]) <=> BitOf(AsNumber(a), i) \/ BitOf(AsNumber(b), i)
    BY <1>1, <1>2
  <1>5. [i \in Bits |-> ~(~a[i] /\ ~b[i])]
          = [i \in Bits |-> BitOf(AsNumber(a), i) \/ BitOf(AsNumber(b), i)]
    BY <1>4
  <1> QED
    BY <1>3, <1>5 DEF Or, AsNumber

-----------------------------------------------------------------------------
(* The ALU.                                                                *)

\* All bits on: the word -1.
On == Not16(Off)

LEMMA OnIs ==
    /\ On \in Word /\ AsNumber(On) = Size - 1
    /\ \A x \in Word : And16(x, On) = x /\ And16(On, x) = x
    /\ \A x \in Word : Not16(x) \in Word /\ Not16(Not16(x)) = x
    /\ \A x, y \in Word : And16(x, y) \in Word /\ Add16(x, y) \in Word
  <1>1. On \in Word /\ AsNumber(On) = Size - 1
    BY OffWord, ValueNot, ValueOff, WordSizes DEF On
  <1>2. \A x \in Word : And16(x, On) = x /\ And16(On, x) = x
    <2> TAKE x \in Word
    <2>1. x = [i \in Bits |-> x[i]] /\ \A i \in Bits : x[i] \in BOOLEAN
      BY DEF Word
    <2>2. \A i \in Bits : On[i] = TRUE
      BY DEF On, Not16, Off
    <2> QED
      BY <2>1, <2>2 DEF And16
  <1>3. \A x \in Word : Not16(x) \in Word /\ Not16(Not16(x)) = x
    <2> TAKE x \in Word
    <2>1. x = [i \in Bits |-> x[i]] /\ \A i \in Bits : x[i] \in BOOLEAN
      BY DEF Word
    <2> QED
      BY <2>1 DEF Not16, Word
  <1>4. \A x, y \in Word : And16(x, y) \in Word /\ Add16(x, y) \in Word
    BY ValueAnd, ValueAdd
  <1> QED
    BY <1>1, <1>2, <1>3, <1>4

\* The ALU with its selectors read.
Negated(x, negate) == IF negate THEN Not16(x) ELSE x
Prepared(x, zero, negate) == Negated(IF zero THEN Off ELSE x, negate)
Combined(x, y, add) == IF add THEN Add16(x, y) ELSE And16(x, y)

(* The ALU without its multiplexers.                                       *)
LEMMA ALUSelects ==
    ASSUME NEW x \in Word, NEW y \in Word, NEW c \in ALUControl
    PROVE  ALU(x, y, c) = Negated(Combined(Prepared(x, c[1], c[2]),
                                           Prepared(y, c[3], c[4]), c[5]), c[6])
  <1>1. \A n \in 1..6 : c[n] \in BOOLEAN
    BY DEF ALUControl
  <1>2. c[1] \in BOOLEAN /\ c[2] \in BOOLEAN /\ c[3] \in BOOLEAN /\ c[4] \in BOOLEAN
        /\ c[5] \in BOOLEAN /\ c[6] \in BOOLEAN
    BY <1>1
  <1>3. ASSUME NEW w \in Word, NEW zero \in BOOLEAN, NEW negate \in BOOLEAN
        PROVE  Prepare(w, zero, negate) = Prepared(w, zero, negate)
               /\ Prepared(w, zero, negate) \in Word
    <2>1. PICK w0 \in Word : w0 = Mux16(w, Off, zero) /\ w0 = IF zero THEN Off ELSE w
      BY OffWord, Mux16Selects
    <2>2. Not16(w0) \in Word /\ Mux16(w0, Not16(w0), negate) = IF negate THEN Not16(w0) ELSE w0
      BY OnIs, Mux16Selects
    <2>3. Prepare(w, zero, negate) = Mux16(w0, Not16(w0), negate)
      BY <2>1 DEF Prepare
    <2> QED
      BY <2>1, <2>2, <2>3 DEF Prepared, Negated
  <1>4. PICK x1 \in Word : x1 = Prepare(x, c[1], c[2]) /\ x1 = Prepared(x, c[1], c[2])
    BY <1>2, <1>3
  <1>5. PICK y1 \in Word : y1 = Prepare(y, c[3], c[4]) /\ y1 = Prepared(y, c[3], c[4])
    BY <1>2, <1>3
  <1>6. PICK f \in Word : f = Mux16(And16(x1, y1), Add16(x1, y1), c[5]) /\ f = Combined(x1, y1, c[5])
    <2>1. And16(x1, y1) \in Word /\ Add16(x1, y1) \in Word
      BY OnIs
    <2> QED
      BY <1>2, <2>1, Mux16Selects DEF Combined
  <1>7. Mux16(f, Not16(f), c[6]) = Negated(f, c[6])
    BY <1>2, OnIs, Mux16Selects DEF Negated
  <1>8. ALU(x, y, c) = Mux16(f, Not16(f), c[6])
    BY <1>4, <1>5, <1>6 DEF ALU
  <1> QED
    BY <1>4, <1>5, <1>6, <1>7, <1>8

\* A row of the table.
Row(comp, a, zx, nx, zy, ny, f, no) == computation[comp] = <<a, zx, nx, zy, ny, f, no>>

Outcome(x, y, zx, nx, zy, ny, f, no) ==
    Negated(Combined(Prepared(x, zx = 1, nx = 1), Prepared(y, zy = 1, ny = 1), f = 1), no = 1)

(* What the ALU returns for a row of the table.                            *)
LEMMA RowComputes ==
    ASSUME NEW comp, NEW x \in Word, NEW A \in Word, NEW M \in Word,
           NEW a \in 0..1, NEW zx \in 0..1, NEW nx \in 0..1, NEW zy \in 0..1, NEW ny \in 0..1,
           NEW f \in 0..1, NEW no \in 0..1,
           Row(comp, a, zx, nx, zy, ny, f, no)
    PROVE  BusCompute(comp, x, A, M)
             = Outcome(x, IF a = 1 THEN M ELSE A, zx, nx, zy, ny, f, no)
  <1> DEFINE y == IF a = 1 THEN M ELSE A
             c == [n \in 1..6 |-> computation[comp][n + 1] = 1]
  <1>1. /\ computation[comp][1] = a
        /\ c[1] = (zx = 1) /\ c[2] = (nx = 1) /\ c[3] = (zy = 1) /\ c[4] = (ny = 1)
        /\ c[5] = (f = 1) /\ c[6] = (no = 1)
    BY DEF Row
  <1>2. c \in ALUControl
    BY DEF ALUControl
  <1>3. BusCompute(comp, x, A, M) = ALU(x, y, c)
    BY <1>1 DEF BusCompute
  <1> HIDE DEF c
  <1>4. y \in Word
    OBVIOUS
  <1> HIDE DEF y
  <1>5. ALU(x, y, c) = Negated(Combined(Prepared(x, c[1], c[2]), Prepared(y, c[3], c[4]), c[5]), c[6])
    BY <1>2, <1>4, ALUSelects
  <1> QED
    BY <1>1, <1>3, <1>5 DEF y, Outcome

LEMMA Complement == \A n \in Int : (Size - 1) - (n % Size) = (-1 - n) % Size
  <1> TAKE n \in Int
  <1>1. PICK s \in Nat \ {0} : s = Size
    BY WordSizes
  <1>2. PICK q \in Int, r \in 0..(s - 1) : q = n \div s /\ r = n % s /\ n = s * q + r
    BY Division
  <1>3. (s - 1) - r \in 0..(s - 1) /\ -1 - q \in Int
    BY <1>2
  <1>4. PICK p \in Int, t \in 0..(s - 1) : p = -1 - q /\ t = (s - 1) - r
    BY <1>3
  <1>5. (s * p + t) % s = t
    BY DivisionIsUnique
  <1>6. s * p + t = -1 - n
    <2>1. s * p = (-s) - (s * q) /\ s * q \in Int
      BY <1>4
    <2> QED
      BY <1>2, <1>4, <2>1
  <1> QED
    BY <1>1, <1>2, <1>4, <1>5, <1>6

LEMMA Turns == \A n, k \in Int : (n + Size * k) % Size = n % Size
  <1> TAKE n, k \in Int
  <1>1. PICK s \in Nat \ {0} : s = Size
    BY WordSizes
  <1>2. PICK q \in Int, r \in 0..(s - 1) : q = n \div s /\ r = n % s /\ n = s * q + r
    BY Division
  <1>3. PICK p \in Int : p = q + k
    OBVIOUS
  <1>4. (s * p + r) % s = r
    BY DivisionIsUnique
  <1>5. s * p + r = n + s * k
    <2>1. s * p = s * q + s * k /\ s * q \in Int /\ s * k \in Int
      BY <1>3
    <2> QED
      BY <1>2, <2>1
  <1> QED
    BY <1>1, <1>2, <1>4, <1>5

(* The sums and complements of words, as numbers.                          *)
LEMMA Sums ==
    /\ AsNumber(Add16(Off, Off)) = 0
    /\ AsNumber(Not16(Add16(On, On))) = 1
    /\ AsNumber(Add16(On, Off)) = Wrap(-1)
    /\ \A x \in Word :
          /\ AsNumber(Not16(x)) = Wrap(-1 - AsNumber(x))
          /\ AsNumber(Add16(x, On)) = Wrap(AsNumber(x) - 1)
          /\ AsNumber(Add16(On, x)) = Wrap(AsNumber(x) - 1)
          /\ AsNumber(Not16(Add16(x, On))) = Wrap(-AsNumber(x))
          /\ AsNumber(Not16(Add16(On, x))) = Wrap(-AsNumber(x))
          /\ AsNumber(Not16(Add16(Not16(x), On))) = Wrap(AsNumber(x) + 1)
          /\ AsNumber(Not16(Add16(On, Not16(x)))) = Wrap(AsNumber(x) + 1)
    /\ \A x, y \in Word :
          /\ AsNumber(Add16(x, y)) = Wrap(AsNumber(x) + AsNumber(y))
          /\ AsNumber(Not16(Add16(Not16(x), y))) = Wrap(AsNumber(x) - AsNumber(y))
          /\ AsNumber(Not16(Add16(x, Not16(y)))) = Wrap(AsNumber(y) - AsNumber(x))
  <1>1. Size \in Nat \ {0} /\ \A x \in Word : AsNumber(x) \in 0..(Size - 1)
    BY ValueIs, WordSizes
  <1>2. \A x, y \in Word : AsNumber(Add16(x, y)) = Wrap(AsNumber(x) + AsNumber(y))
    BY ValueAdd DEF Wrap
  <1>3. ASSUME NEW x \in Word, NEW y \in Word
        PROVE  AsNumber(Not16(Add16(x, y))) = Wrap(-1 - (AsNumber(x) + AsNumber(y)))
    <2>1. PICK n \in Int : n = AsNumber(x) + AsNumber(y)
      BY <1>1
    <2>2. AsNumber(Not16(Add16(x, y))) = (Size - 1) - (n % Size)
      BY <2>1, ValueAdd, ValueNot
    <2> QED
      BY <2>1, <2>2, Complement DEF Wrap
  <1>4. ASSUME NEW m \in Int, NEW n \in Int, NEW k \in Int, m = n + Size * k
        PROVE  Wrap(m) = Wrap(n)
    BY <1>4, Turns DEF Wrap
  <1>5. \A x \in Word : /\ Not16(x) \in Word /\ AsNumber(Not16(x)) = (Size - 1) - AsNumber(x)
                        /\ Wrap(AsNumber(x)) = AsNumber(x)
    <2> TAKE x \in Word
    <2>1. PICK s \in Nat \ {0} : s = Size
      BY <1>1
    <2>2. PICK u \in 0..(s - 1) : u = AsNumber(x)
      BY <1>1, <2>1
    <2>3. u % s = u
      OBVIOUS
    <2> QED
      BY <2>1, <2>2, <2>3, ValueNot DEF Wrap
  <1>6. /\ Off \in Word /\ AsNumber(Off) = 0 /\ On \in Word /\ AsNumber(On) = Size - 1
    BY OffWord, ValueOff, OnIs
  <1> DEFINE turned(m, n, k) == m = n + Size * k
  <1>7. AsNumber(Add16(Off, Off)) = 0
    BY <1>1, <1>2, <1>6 DEF Wrap
  <1>8. AsNumber(Not16(Add16(On, On))) = 1
    <2>1. PICK s \in Nat \ {0} : s = Size
      BY <1>1
    <2>2. AsNumber(Not16(Add16(On, On))) = Wrap(-1 - ((s - 1) + (s - 1)))
      BY <1>3, <1>6, <2>1
    <2>3. -1 - ((s - 1) + (s - 1)) = 1 + s * (-2)
      OBVIOUS
    <2>4. Wrap(1 + s * (-2)) = Wrap(1)
      BY <1>4, <2>1
    <2>5. Wrap(1) = 1
      <3>1. s >= 2
        BY <2>1, WordSizes
      <3> QED
        BY <2>1, <3>1 DEF Wrap
    <2> QED
      BY <2>2, <2>3, <2>4, <2>5
  <1>9. AsNumber(Add16(On, Off)) = Wrap(-1)
    <2>1. PICK s \in Nat \ {0} : s = Size
      BY <1>1
    <2>2. AsNumber(Add16(On, Off)) = Wrap((s - 1) + 0)
      BY <1>2, <1>6, <2>1
    <2>3. (s - 1) + 0 = -1 + s * 1
      OBVIOUS
    <2>4. Wrap(-1 + s * 1) = Wrap(-1)
      BY <1>4, <2>1
    <2> QED
      BY <2>2, <2>3, <2>4
  <1>10. ASSUME NEW x \in Word
         PROVE  /\ AsNumber(Not16(x)) = Wrap(-1 - AsNumber(x))
                /\ AsNumber(Add16(x, On)) = Wrap(AsNumber(x) - 1)
                /\ AsNumber(Add16(On, x)) = Wrap(AsNumber(x) - 1)
                /\ AsNumber(Not16(Add16(x, On))) = Wrap(-AsNumber(x))
                /\ AsNumber(Not16(Add16(On, x))) = Wrap(-AsNumber(x))
                /\ AsNumber(Not16(Add16(Not16(x), On))) = Wrap(AsNumber(x) + 1)
                /\ AsNumber(Not16(Add16(On, Not16(x)))) = Wrap(AsNumber(x) + 1)
    <2>1. PICK s \in Nat \ {0} : s = Size
      BY <1>1
    <2>2. PICK u \in 0..(s - 1) : u = AsNumber(x)
      BY <1>1, <2>1
    <2>3. Not16(x) \in Word /\ AsNumber(Not16(x)) = (s - 1) - u
      BY <1>5, <2>1, <2>2
    <2>4. AsNumber(Not16(x)) = Wrap(-1 - u)
      <3>1. (s - 1) - (u % s) = (-1 - u) % s
        <4>1. \A n \in Int : (Size - 1) - (n % Size) = (-1 - n) % Size
          BY Complement
        <4>2. \A n \in Int : (s - 1) - (n % s) = (-1 - n) % s
          BY <2>1, <4>1
        <4>3. u \in Int
          OBVIOUS
        <4> QED
          BY <4>2, <4>3
      <3>2. u % s = u
        OBVIOUS
      <3> QED
        BY <2>1, <2>3, <3>1, <3>2 DEF Wrap
    <2>5. u + (s - 1) = (u - 1) + s * 1 /\ (s - 1) + u = (u - 1) + s * 1
      OBVIOUS
    <2>6. Wrap(u + (s - 1)) = Wrap(u - 1) /\ Wrap((s - 1) + u) = Wrap(u - 1)
      BY <1>4, <2>1, <2>5
    <2>7. /\ -1 - (u + (s - 1)) = -u + s * (-1) /\ -1 - ((s - 1) + u) = -u + s * (-1)
          /\ -1 - (u + (s - 1)) \in Int /\ -u \in Int
      OBVIOUS
    <2>8. Wrap(-1 - (u + (s - 1))) = Wrap(-u) /\ Wrap(-1 - ((s - 1) + u)) = Wrap(-u)
      BY <1>4, <2>1, <2>7
    <2>9. /\ -1 - (((s - 1) - u) + (s - 1)) = (u + 1) + s * (-2)
          /\ -1 - ((s - 1) + ((s - 1) - u)) = (u + 1) + s * (-2)
          /\ -1 - (((s - 1) - u) + (s - 1)) \in Int
      OBVIOUS
    <2>10. /\ Wrap(-1 - (((s - 1) - u) + (s - 1))) = Wrap(u + 1)
           /\ Wrap(-1 - ((s - 1) + ((s - 1) - u))) = Wrap(u + 1)
      <3>1. PICK p \in Int, q \in Int :
               p = -1 - (((s - 1) - u) + (s - 1)) /\ q = -1 - ((s - 1) + ((s - 1) - u))
        BY <2>9
      <3>2. PICK r \in Int : r = u + 1
        OBVIOUS
      <3>3. p = r + s * (-2) /\ q = r + s * (-2)
        BY <2>9, <3>1, <3>2
      <3>4. Wrap(p) = Wrap(r) /\ Wrap(q) = Wrap(r)
        BY <1>4, <2>1, <3>3
      <3> QED
        BY <3>1, <3>2, <3>4
    <2>11. AsNumber(On) = s - 1
      BY <1>6, <2>1
    <2>12. AsNumber(Add16(x, On)) = Wrap(u - 1) /\ AsNumber(Add16(On, x)) = Wrap(u - 1)
      BY <1>2, <1>6, <2>2, <2>6, <2>11
    <2>13. AsNumber(Not16(Add16(x, On))) = Wrap(-u) /\ AsNumber(Not16(Add16(On, x))) = Wrap(-u)
      BY <1>3, <1>6, <2>2, <2>8, <2>11
    <2>14. /\ AsNumber(Not16(Add16(Not16(x), On))) = Wrap(u + 1)
           /\ AsNumber(Not16(Add16(On, Not16(x)))) = Wrap(u + 1)
      BY <1>3, <1>6, <2>3, <2>10, <2>11
    <2> QED
      BY <2>2, <2>4, <2>12, <2>13, <2>14
  <1>11. ASSUME NEW x \in Word, NEW y \in Word
         PROVE  /\ AsNumber(Not16(Add16(Not16(x), y))) = Wrap(AsNumber(x) - AsNumber(y))
                /\ AsNumber(Not16(Add16(x, Not16(y)))) = Wrap(AsNumber(y) - AsNumber(x))
    <2>1. PICK s \in Nat \ {0} : s = Size
      BY <1>1
    <2>2. PICK u \in Int, v \in Int : u = AsNumber(x) /\ v = AsNumber(y)
      BY <1>1
    <2>3. /\ Not16(x) \in Word /\ AsNumber(Not16(x)) = (s - 1) - u
          /\ Not16(y) \in Word /\ AsNumber(Not16(y)) = (s - 1) - v
      BY <1>5, <2>1, <2>2
    <2>4. /\ -1 - (((s - 1) - u) + v) = (u - v) + s * (-1)
          /\ -1 - (u + ((s - 1) - v)) = (v - u) + s * (-1)
          /\ -1 - (((s - 1) - u) + v) \in Int /\ -1 - (u + ((s - 1) - v)) \in Int
      OBVIOUS
    <2>5. /\ Wrap(-1 - (((s - 1) - u) + v)) = Wrap(u - v)
          /\ Wrap(-1 - (u + ((s - 1) - v))) = Wrap(v - u)
      <3>1. PICK p \in Int, q \in Int :
               p = -1 - (((s - 1) - u) + v) /\ q = -1 - (u + ((s - 1) - v))
        BY <2>4
      <3>2. PICK r \in Int, t \in Int : r = u - v /\ t = v - u
        OBVIOUS
      <3>3. p = r + s * (-1) /\ q = t + s * (-1)
        BY <2>4, <3>1, <3>2
      <3>4. Wrap(p) = Wrap(r) /\ Wrap(q) = Wrap(t)
        BY <1>4, <2>1, <3>3
      <3> QED
        BY <3>1, <3>2, <3>4
    <2> QED
      BY <1>3, <2>2, <2>3, <2>5
  <1> QED
    BY <1>2, <1>7, <1>8, <1>9, <1>10, <1>11

(* The table, row by row.                                                  *)
LEMMA Rows ==
    /\ Row("0", 0, 1, 0, 1, 0, 1, 0)
    /\ Row("1", 0, 1, 1, 1, 1, 1, 1)
    /\ Row("-1", 0, 1, 1, 1, 0, 1, 0)
    /\ Row("D", 0, 0, 0, 1, 1, 0, 0)
    /\ Row("A", 0, 1, 1, 0, 0, 0, 0)
    /\ Row("M", 1, 1, 1, 0, 0, 0, 0)
    /\ Row("!D", 0, 0, 0, 1, 1, 0, 1)
    /\ Row("!A", 0, 1, 1, 0, 0, 0, 1)
    /\ Row("!M", 1, 1, 1, 0, 0, 0, 1)
    /\ Row("-D", 0, 0, 0, 1, 1, 1, 1)
    /\ Row("-A", 0, 1, 1, 0, 0, 1, 1)
    /\ Row("-M", 1, 1, 1, 0, 0, 1, 1)
    /\ Row("D+1", 0, 0, 1, 1, 1, 1, 1)
    /\ Row("A+1", 0, 1, 1, 0, 1, 1, 1)
    /\ Row("M+1", 1, 1, 1, 0, 1, 1, 1)
    /\ Row("D-1", 0, 0, 0, 1, 1, 1, 0)
    /\ Row("A-1", 0, 1, 1, 0, 0, 1, 0)
    /\ Row("M-1", 1, 1, 1, 0, 0, 1, 0)
    /\ Row("D+A", 0, 0, 0, 0, 0, 1, 0)
    /\ Row("D+M", 1, 0, 0, 0, 0, 1, 0)
    /\ Row("D-A", 0, 0, 1, 0, 0, 1, 1)
    /\ Row("D-M", 1, 0, 1, 0, 0, 1, 1)
    /\ Row("A-D", 0, 0, 0, 0, 1, 1, 1)
    /\ Row("M-D", 1, 0, 0, 0, 1, 1, 1)
    /\ Row("D&A", 0, 0, 0, 0, 0, 0, 0)
    /\ Row("D&M", 1, 0, 0, 0, 0, 0, 0)
    /\ Row("D|A", 0, 0, 1, 0, 1, 0, 1)
    /\ Row("D|M", 1, 0, 1, 0, 1, 0, 1)
  BY DEF Row, computation

(* The ALU on the row of a mnemonic does what the mnemonic spells.         *)
LEMMA ALUComputes ==
    ASSUME NEW comp \in Computations, NEW d \in Word, NEW a \in Word, NEW m \in Word
    PROVE  AsNumber(BusCompute(comp, d, a, m)) = Compute(comp, AsNumber(d), AsNumber(a), AsNumber(m))
  <1>1. CASE comp = "0"
    <2>1. BusCompute(comp, d, a, m) = Add16(Off, Off)
      <3>1. Row(comp, 0, 1, 0, 1, 0, 1, 0)
        BY <1>1, Rows
      <3>2. BusCompute(comp, d, a, m) = Outcome(d, a, 1, 0, 1, 0, 1, 0)
        BY <3>1, RowComputes
      <3> QED
        BY <3>2 DEF Outcome, Negated, Combined, Prepared, On
    <2> QED
      BY <1>1, <2>1, OnIs, Sums, ValueAnd, ValueOr DEF Compute
  <1>2. CASE comp = "1"
    <2>1. BusCompute(comp, d, a, m) = Not16(Add16(On, On))
      <3>1. Row(comp, 0, 1, 1, 1, 1, 1, 1)
        BY <1>2, Rows
      <3>2. BusCompute(comp, d, a, m) = Outcome(d, a, 1, 1, 1, 1, 1, 1)
        BY <3>1, RowComputes
      <3> QED
        BY <3>2 DEF Outcome, Negated, Combined, Prepared, On
    <2> QED
      BY <1>2, <2>1, OnIs, Sums, ValueAnd, ValueOr DEF Compute
  <1>3. CASE comp = "-1"
    <2>1. BusCompute(comp, d, a, m) = Add16(On, Off)
      <3>1. Row(comp, 0, 1, 1, 1, 0, 1, 0)
        BY <1>3, Rows
      <3>2. BusCompute(comp, d, a, m) = Outcome(d, a, 1, 1, 1, 0, 1, 0)
        BY <3>1, RowComputes
      <3> QED
        BY <3>2 DEF Outcome, Negated, Combined, Prepared, On
    <2> QED
      BY <1>3, <2>1, OnIs, Sums, ValueAnd, ValueOr DEF Compute
  <1>4. CASE comp = "D"
    <2>1. BusCompute(comp, d, a, m) = And16(d, On)
      <3>1. Row(comp, 0, 0, 0, 1, 1, 0, 0)
        BY <1>4, Rows
      <3>2. BusCompute(comp, d, a, m) = Outcome(d, a, 0, 0, 1, 1, 0, 0)
        BY <3>1, RowComputes
      <3> QED
        BY <3>2 DEF Outcome, Negated, Combined, Prepared, On
    <2> QED
      BY <1>4, <2>1, OnIs, Sums, ValueAnd, ValueOr DEF Compute
  <1>5. CASE comp = "A"
    <2>1. BusCompute(comp, d, a, m) = And16(On, a)
      <3>1. Row(comp, 0, 1, 1, 0, 0, 0, 0)
        BY <1>5, Rows
      <3>2. BusCompute(comp, d, a, m) = Outcome(d, a, 1, 1, 0, 0, 0, 0)
        BY <3>1, RowComputes
      <3> QED
        BY <3>2 DEF Outcome, Negated, Combined, Prepared, On
    <2> QED
      BY <1>5, <2>1, OnIs, Sums, ValueAnd, ValueOr DEF Compute
  <1>6. CASE comp = "M"
    <2>1. BusCompute(comp, d, a, m) = And16(On, m)
      <3>1. Row(comp, 1, 1, 1, 0, 0, 0, 0)
        BY <1>6, Rows
      <3>2. BusCompute(comp, d, a, m) = Outcome(d, m, 1, 1, 0, 0, 0, 0)
        BY <3>1, RowComputes
      <3> QED
        BY <3>2 DEF Outcome, Negated, Combined, Prepared, On
    <2> QED
      BY <1>6, <2>1, OnIs, Sums, ValueAnd, ValueOr DEF Compute
  <1>7. CASE comp = "!D"
    <2>1. BusCompute(comp, d, a, m) = Not16(And16(d, On))
      <3>1. Row(comp, 0, 0, 0, 1, 1, 0, 1)
        BY <1>7, Rows
      <3>2. BusCompute(comp, d, a, m) = Outcome(d, a, 0, 0, 1, 1, 0, 1)
        BY <3>1, RowComputes
      <3> QED
        BY <3>2 DEF Outcome, Negated, Combined, Prepared, On
    <2> QED
      BY <1>7, <2>1, OnIs, Sums, ValueAnd, ValueOr DEF Compute
  <1>8. CASE comp = "!A"
    <2>1. BusCompute(comp, d, a, m) = Not16(And16(On, a))
      <3>1. Row(comp, 0, 1, 1, 0, 0, 0, 1)
        BY <1>8, Rows
      <3>2. BusCompute(comp, d, a, m) = Outcome(d, a, 1, 1, 0, 0, 0, 1)
        BY <3>1, RowComputes
      <3> QED
        BY <3>2 DEF Outcome, Negated, Combined, Prepared, On
    <2> QED
      BY <1>8, <2>1, OnIs, Sums, ValueAnd, ValueOr DEF Compute
  <1>9. CASE comp = "!M"
    <2>1. BusCompute(comp, d, a, m) = Not16(And16(On, m))
      <3>1. Row(comp, 1, 1, 1, 0, 0, 0, 1)
        BY <1>9, Rows
      <3>2. BusCompute(comp, d, a, m) = Outcome(d, m, 1, 1, 0, 0, 0, 1)
        BY <3>1, RowComputes
      <3> QED
        BY <3>2 DEF Outcome, Negated, Combined, Prepared, On
    <2> QED
      BY <1>9, <2>1, OnIs, Sums, ValueAnd, ValueOr DEF Compute
  <1>10. CASE comp = "-D"
    <2>1. BusCompute(comp, d, a, m) = Not16(Add16(d, On))
      <3>1. Row(comp, 0, 0, 0, 1, 1, 1, 1)
        BY <1>10, Rows
      <3>2. BusCompute(comp, d, a, m) = Outcome(d, a, 0, 0, 1, 1, 1, 1)
        BY <3>1, RowComputes
      <3> QED
        BY <3>2 DEF Outcome, Negated, Combined, Prepared, On
    <2> QED
      BY <1>10, <2>1, OnIs, Sums, ValueAnd, ValueOr DEF Compute
  <1>11. CASE comp = "-A"
    <2>1. BusCompute(comp, d, a, m) = Not16(Add16(On, a))
      <3>1. Row(comp, 0, 1, 1, 0, 0, 1, 1)
        BY <1>11, Rows
      <3>2. BusCompute(comp, d, a, m) = Outcome(d, a, 1, 1, 0, 0, 1, 1)
        BY <3>1, RowComputes
      <3> QED
        BY <3>2 DEF Outcome, Negated, Combined, Prepared, On
    <2> QED
      BY <1>11, <2>1, OnIs, Sums, ValueAnd, ValueOr DEF Compute
  <1>12. CASE comp = "-M"
    <2>1. BusCompute(comp, d, a, m) = Not16(Add16(On, m))
      <3>1. Row(comp, 1, 1, 1, 0, 0, 1, 1)
        BY <1>12, Rows
      <3>2. BusCompute(comp, d, a, m) = Outcome(d, m, 1, 1, 0, 0, 1, 1)
        BY <3>1, RowComputes
      <3> QED
        BY <3>2 DEF Outcome, Negated, Combined, Prepared, On
    <2> QED
      BY <1>12, <2>1, OnIs, Sums, ValueAnd, ValueOr DEF Compute
  <1>13. CASE comp = "D+1"
    <2>1. BusCompute(comp, d, a, m) = Not16(Add16(Not16(d), On))
      <3>1. Row(comp, 0, 0, 1, 1, 1, 1, 1)
        BY <1>13, Rows
      <3>2. BusCompute(comp, d, a, m) = Outcome(d, a, 0, 1, 1, 1, 1, 1)
        BY <3>1, RowComputes
      <3> QED
        BY <3>2 DEF Outcome, Negated, Combined, Prepared, On
    <2> QED
      BY <1>13, <2>1, OnIs, Sums, ValueAnd, ValueOr DEF Compute
  <1>14. CASE comp = "A+1"
    <2>1. BusCompute(comp, d, a, m) = Not16(Add16(On, Not16(a)))
      <3>1. Row(comp, 0, 1, 1, 0, 1, 1, 1)
        BY <1>14, Rows
      <3>2. BusCompute(comp, d, a, m) = Outcome(d, a, 1, 1, 0, 1, 1, 1)
        BY <3>1, RowComputes
      <3> QED
        BY <3>2 DEF Outcome, Negated, Combined, Prepared, On
    <2> QED
      BY <1>14, <2>1, OnIs, Sums, ValueAnd, ValueOr DEF Compute
  <1>15. CASE comp = "M+1"
    <2>1. BusCompute(comp, d, a, m) = Not16(Add16(On, Not16(m)))
      <3>1. Row(comp, 1, 1, 1, 0, 1, 1, 1)
        BY <1>15, Rows
      <3>2. BusCompute(comp, d, a, m) = Outcome(d, m, 1, 1, 0, 1, 1, 1)
        BY <3>1, RowComputes
      <3> QED
        BY <3>2 DEF Outcome, Negated, Combined, Prepared, On
    <2> QED
      BY <1>15, <2>1, OnIs, Sums, ValueAnd, ValueOr DEF Compute
  <1>16. CASE comp = "D-1"
    <2>1. BusCompute(comp, d, a, m) = Add16(d, On)
      <3>1. Row(comp, 0, 0, 0, 1, 1, 1, 0)
        BY <1>16, Rows
      <3>2. BusCompute(comp, d, a, m) = Outcome(d, a, 0, 0, 1, 1, 1, 0)
        BY <3>1, RowComputes
      <3> QED
        BY <3>2 DEF Outcome, Negated, Combined, Prepared, On
    <2> QED
      BY <1>16, <2>1, OnIs, Sums, ValueAnd, ValueOr DEF Compute
  <1>17. CASE comp = "A-1"
    <2>1. BusCompute(comp, d, a, m) = Add16(On, a)
      <3>1. Row(comp, 0, 1, 1, 0, 0, 1, 0)
        BY <1>17, Rows
      <3>2. BusCompute(comp, d, a, m) = Outcome(d, a, 1, 1, 0, 0, 1, 0)
        BY <3>1, RowComputes
      <3> QED
        BY <3>2 DEF Outcome, Negated, Combined, Prepared, On
    <2> QED
      BY <1>17, <2>1, OnIs, Sums, ValueAnd, ValueOr DEF Compute
  <1>18. CASE comp = "M-1"
    <2>1. BusCompute(comp, d, a, m) = Add16(On, m)
      <3>1. Row(comp, 1, 1, 1, 0, 0, 1, 0)
        BY <1>18, Rows
      <3>2. BusCompute(comp, d, a, m) = Outcome(d, m, 1, 1, 0, 0, 1, 0)
        BY <3>1, RowComputes
      <3> QED
        BY <3>2 DEF Outcome, Negated, Combined, Prepared, On
    <2> QED
      BY <1>18, <2>1, OnIs, Sums, ValueAnd, ValueOr DEF Compute
  <1>19. CASE comp = "D+A"
    <2>1. BusCompute(comp, d, a, m) = Add16(d, a)
      <3>1. Row(comp, 0, 0, 0, 0, 0, 1, 0)
        BY <1>19, Rows
      <3>2. BusCompute(comp, d, a, m) = Outcome(d, a, 0, 0, 0, 0, 1, 0)
        BY <3>1, RowComputes
      <3> QED
        BY <3>2 DEF Outcome, Negated, Combined, Prepared, On
    <2> QED
      BY <1>19, <2>1, OnIs, Sums, ValueAnd, ValueOr DEF Compute
  <1>20. CASE comp = "D+M"
    <2>1. BusCompute(comp, d, a, m) = Add16(d, m)
      <3>1. Row(comp, 1, 0, 0, 0, 0, 1, 0)
        BY <1>20, Rows
      <3>2. BusCompute(comp, d, a, m) = Outcome(d, m, 0, 0, 0, 0, 1, 0)
        BY <3>1, RowComputes
      <3> QED
        BY <3>2 DEF Outcome, Negated, Combined, Prepared, On
    <2> QED
      BY <1>20, <2>1, OnIs, Sums, ValueAnd, ValueOr DEF Compute
  <1>21. CASE comp = "D-A"
    <2>1. BusCompute(comp, d, a, m) = Not16(Add16(Not16(d), a))
      <3>1. Row(comp, 0, 0, 1, 0, 0, 1, 1)
        BY <1>21, Rows
      <3>2. BusCompute(comp, d, a, m) = Outcome(d, a, 0, 1, 0, 0, 1, 1)
        BY <3>1, RowComputes
      <3> QED
        BY <3>2 DEF Outcome, Negated, Combined, Prepared, On
    <2> QED
      BY <1>21, <2>1, OnIs, Sums, ValueAnd, ValueOr DEF Compute
  <1>22. CASE comp = "D-M"
    <2>1. BusCompute(comp, d, a, m) = Not16(Add16(Not16(d), m))
      <3>1. Row(comp, 1, 0, 1, 0, 0, 1, 1)
        BY <1>22, Rows
      <3>2. BusCompute(comp, d, a, m) = Outcome(d, m, 0, 1, 0, 0, 1, 1)
        BY <3>1, RowComputes
      <3> QED
        BY <3>2 DEF Outcome, Negated, Combined, Prepared, On
    <2> QED
      BY <1>22, <2>1, OnIs, Sums, ValueAnd, ValueOr DEF Compute
  <1>23. CASE comp = "A-D"
    <2>1. BusCompute(comp, d, a, m) = Not16(Add16(d, Not16(a)))
      <3>1. Row(comp, 0, 0, 0, 0, 1, 1, 1)
        BY <1>23, Rows
      <3>2. BusCompute(comp, d, a, m) = Outcome(d, a, 0, 0, 0, 1, 1, 1)
        BY <3>1, RowComputes
      <3> QED
        BY <3>2 DEF Outcome, Negated, Combined, Prepared, On
    <2> QED
      BY <1>23, <2>1, OnIs, Sums, ValueAnd, ValueOr DEF Compute
  <1>24. CASE comp = "M-D"
    <2>1. BusCompute(comp, d, a, m) = Not16(Add16(d, Not16(m)))
      <3>1. Row(comp, 1, 0, 0, 0, 1, 1, 1)
        BY <1>24, Rows
      <3>2. BusCompute(comp, d, a, m) = Outcome(d, m, 0, 0, 0, 1, 1, 1)
        BY <3>1, RowComputes
      <3> QED
        BY <3>2 DEF Outcome, Negated, Combined, Prepared, On
    <2> QED
      BY <1>24, <2>1, OnIs, Sums, ValueAnd, ValueOr DEF Compute
  <1>25. CASE comp = "D&A"
    <2>1. BusCompute(comp, d, a, m) = And16(d, a)
      <3>1. Row(comp, 0, 0, 0, 0, 0, 0, 0)
        BY <1>25, Rows
      <3>2. BusCompute(comp, d, a, m) = Outcome(d, a, 0, 0, 0, 0, 0, 0)
        BY <3>1, RowComputes
      <3> QED
        BY <3>2 DEF Outcome, Negated, Combined, Prepared, On
    <2> QED
      BY <1>25, <2>1, OnIs, Sums, ValueAnd, ValueOr DEF Compute
  <1>26. CASE comp = "D&M"
    <2>1. BusCompute(comp, d, a, m) = And16(d, m)
      <3>1. Row(comp, 1, 0, 0, 0, 0, 0, 0)
        BY <1>26, Rows
      <3>2. BusCompute(comp, d, a, m) = Outcome(d, m, 0, 0, 0, 0, 0, 0)
        BY <3>1, RowComputes
      <3> QED
        BY <3>2 DEF Outcome, Negated, Combined, Prepared, On
    <2> QED
      BY <1>26, <2>1, OnIs, Sums, ValueAnd, ValueOr DEF Compute
  <1>27. CASE comp = "D|A"
    <2>1. BusCompute(comp, d, a, m) = Not16(And16(Not16(d), Not16(a)))
      <3>1. Row(comp, 0, 0, 1, 0, 1, 0, 1)
        BY <1>27, Rows
      <3>2. BusCompute(comp, d, a, m) = Outcome(d, a, 0, 1, 0, 1, 0, 1)
        BY <3>1, RowComputes
      <3> QED
        BY <3>2 DEF Outcome, Negated, Combined, Prepared, On
    <2> QED
      BY <1>27, <2>1, OnIs, Sums, ValueAnd, ValueOr DEF Compute
  <1>28. CASE comp = "D|M"
    <2>1. BusCompute(comp, d, a, m) = Not16(And16(Not16(d), Not16(m)))
      <3>1. Row(comp, 1, 0, 1, 0, 1, 0, 1)
        BY <1>28, Rows
      <3>2. BusCompute(comp, d, a, m) = Outcome(d, m, 0, 1, 0, 1, 0, 1)
        BY <3>1, RowComputes
      <3> QED
        BY <3>2 DEF Outcome, Negated, Combined, Prepared, On
    <2> QED
      BY <1>28, <2>1, OnIs, Sums, ValueAnd, ValueOr DEF Compute
  <1>29. comp \in {"0", "1", "-1", "D", "A", "M", "!D", "!A", "!M", "-D", "-A", "-M",
                   "D+1", "A+1", "M+1", "D-1", "A-1", "M-1", "D+A", "D+M", "D-A",
                   "D-M", "A-D", "M-D", "D&A", "D&M", "D|A", "D|M"}
    BY DEF Computations, computation
  <1> QED
    BY <1>1, <1>2, <1>3, <1>4, <1>5, <1>6, <1>7, <1>8, <1>9, <1>10,
       <1>11, <1>12, <1>13, <1>14, <1>15, <1>16, <1>17, <1>18, <1>19, <1>20,
       <1>21, <1>22, <1>23, <1>24, <1>25, <1>26, <1>27, <1>28, <1>29

-----------------------------------------------------------------------------
(* Instructions.                                                           *)

(* The bits of an A-instruction load its value.                            *)
LEMMA LoadBits ==
    ASSUME NEW n \in Nat
    PROVE  /\ translate(At(n)) \in InstructionBus
           /\ ~isCInstr(translate(At(n)))
           /\ Low(translate(At(n)), WordSize) = BusImmediate(n)
  <1>1. translate(At(n)) = [i \in 0..15 |-> i < Sign /\ BitOf(n, i)]
    BY DEF translate, At, translateA
  <1>2. Sign \in 3..15 /\ Bits = 0..(WordSize - 1) /\ Bits \subseteq 0..15
    BY WordSizeAssumption DEF Sign, Bits
  <1>3. Low(translate(At(n)), WordSize) = BusImmediate(n)
    BY <1>1, <1>2 DEF Low, BusImmediate
  <1>4. ~isCInstr(translate(At(n)))
    <2> DEFINE bit(i) == i < Sign /\ BitOf(n, i)
    <2>1. translate(At(n))[15] = bit(15)
      <3>1. 15 \in 0..15
        OBVIOUS
      <3> QED
        BY <1>1, <3>1, Zenon
    <2>2. ~bit(15)
      BY <1>2
    <2> HIDE DEF bit
    <2> QED
      BY <2>1, <2>2, Zenon DEF isCInstr
  <1>5. translate(At(n)) \in InstructionBus
    BY <1>1 DEF InstructionBus
  <1> QED
    BY <1>3, <1>4, <1>5

(* The bits of a C-instruction control the wires of the CPU.               *)
LEMMA OperateBits ==
    ASSUME NEW instr \in CInstruction
    PROVE  LET bus == translate(instr)
               c == computation[instr.comp]
               j == jumpBits(instr.jump)
           IN  /\ bus \in InstructionBus
               /\ isCInstr(bus)
               /\ bus[12] <=> c[1] = 1
               /\ ALUIn(bus) = [n \in 1..6 |-> c[n + 1] = 1]
               /\ (bus[5] <=> "A" \in instr.dest)
               /\ (bus[4] <=> "D" \in instr.dest)
               /\ (bus[3] <=> "M" \in instr.dest)
               /\ (bus[2] <=> j[1]) /\ (bus[1] <=> j[2]) /\ (bus[0] <=> j[3])
  <1> DEFINE bus == translate(instr)
             c == computation[instr.comp]
             j == jumpBits(instr.jump)
  <1>1. bus = [i \in 0..15 |->
                  \/ i \in 13..15
                  \/ i \in 6..12 /\ c[13 - i] = 1
                  \/ i = 5 /\ "A" \in instr.dest
                  \/ i = 4 /\ "D" \in instr.dest
                  \/ i = 3 /\ "M" \in instr.dest
                  \/ i \in 0..2 /\ j[3 - i]]
    BY DEF CInstruction, translate, translateC
  <1>2. j[1] \in BOOLEAN /\ j[2] \in BOOLEAN /\ j[3] \in BOOLEAN
    BY DEF jumpBits
  <1> HIDE DEF bus, c, j
  <1>3. bus[15]
    BY <1>1
  <1>4. \A i \in 6..12 : bus[i] <=> c[13 - i] = 1
    BY <1>1
  <1>5. (bus[5] <=> "A" \in instr.dest) /\ (bus[4] <=> "D" \in instr.dest)
           /\ (bus[3] <=> "M" \in instr.dest)
    BY <1>1
  <1>6. (bus[2] <=> j[1]) /\ (bus[1] <=> j[2]) /\ (bus[0] <=> j[3])
    BY <1>1
  <1>7. bus \in InstructionBus
    BY <1>1 DEF InstructionBus
  <1>8. ALUIn(bus) = [n \in 1..6 |-> c[n + 1] = 1]
    <2>1. \A n \in 1..6 : bus[12 - n] <=> c[n + 1] = 1
      <3> TAKE n \in 1..6
      <3>1. 12 - n \in 6..12 /\ 13 - (12 - n) = n + 1
        OBVIOUS
      <3> QED
        BY <1>4, <3>1
    <2>2. \A n \in 1..6 : bus[12 - n] \in BOOLEAN
      BY <1>7 DEF InstructionBus
    <2> QED
      BY <2>1, <2>2 DEF ALUIn
  <1>9. bus[12] <=> c[1] = 1
    BY <1>4
  <1> QED
    BY <1>3, <1>5, <1>6, <1>7, <1>8, <1>9 DEF isCInstr, bus, c, j

-----------------------------------------------------------------------------
(* Jumps.                                                                  *)

LEMMA JumpOutputs ==
    ASSUME NEW bus
    PROVE  /\ DMux8Way(bus, 1) <=> bus[0] /\ ~bus[1] /\ ~bus[2]
           /\ DMux8Way(bus, 2) <=> ~bus[0] /\ bus[1] /\ ~bus[2]
           /\ DMux8Way(bus, 3) <=> bus[0] /\ bus[1] /\ ~bus[2]
           /\ DMux8Way(bus, 4) <=> ~bus[0] /\ ~bus[1] /\ bus[2]
           /\ DMux8Way(bus, 5) <=> bus[0] /\ ~bus[1] /\ bus[2]
           /\ DMux8Way(bus, 6) <=> ~bus[0] /\ bus[1] /\ bus[2]
           /\ DMux8Way(bus, 7) <=> bus[0] /\ bus[1] /\ bus[2]
  BY DEF DMux8Way

LEMMA JumpConditions ==
    ASSUME NEW bus, NEW out
    PROVE  jumpCond(bus, out) <=>
             \/ DMux8Way(bus, 1) /\ ~zr(out) /\ ~ng(out)
             \/ DMux8Way(bus, 2) /\ zr(out)
             \/ DMux8Way(bus, 3) /\ (zr(out) \/ (~zr(out) /\ ~ng(out)))
             \/ DMux8Way(bus, 4) /\ ~(zr(out) \/ (~zr(out) /\ ~ng(out)))
             \/ DMux8Way(bus, 5) /\ ~zr(out)
             \/ DMux8Way(bus, 6) /\ ~(~zr(out) /\ ~ng(out))
             \/ DMux8Way(bus, 7)
  <1> DEFINE on(n) == DMux8Way(bus, n)
             c == conditions(out)
  <1>1. jumpCond(bus, out) <=> \E n \in 1..7 : on(n) /\ c[n]
    BY DEF jumpCond
  <1>2. /\ c[1] <=> ~zr(out) /\ ~ng(out)
        /\ c[2] <=> zr(out)
        /\ c[3] <=> (zr(out) \/ (~zr(out) /\ ~ng(out)))
        /\ c[4] <=> ~(zr(out) \/ (~zr(out) /\ ~ng(out)))
        /\ c[5] <=> ~zr(out)
        /\ c[6] <=> ~(~zr(out) /\ ~ng(out))
        /\ c[7]
    BY DEF conditions
  <1> HIDE DEF on, c
  <1>3. (\E n \in 1..7 : on(n) /\ c[n]) <=>
           \/ on(1) /\ c[1]
           \/ on(2) /\ c[2]
           \/ on(3) /\ c[3]
           \/ on(4) /\ c[4]
           \/ on(5) /\ c[5]
           \/ on(6) /\ c[6]
           \/ on(7) /\ c[7]
    <2>1. \A n \in 1..7 : n = 1 \/ n = 2 \/ n = 3 \/ n = 4 \/ n = 5 \/ n = 6 \/ n = 7
      OBVIOUS
    <2>2. 1 \in 1..7 /\ 2 \in 1..7 /\ 3 \in 1..7 /\ 4 \in 1..7 /\ 5 \in 1..7
             /\ 6 \in 1..7 /\ 7 \in 1..7
      OBVIOUS
    <2> QED
      BY <2>1, <2>2, Zenon
  <1> QED
    BY <1>1, <1>2, <1>3 DEF on

(* A word below zero is not zero.                                          *)
LEMMA FlagsExclude ==
    ASSUME NEW out \in Word
    PROVE  ~(zr(out) /\ ng(out))
  BY WordSizeAssumption DEF zr, ng, NonZero, Sign, Bits

(* The condition the decoder selects is the one the jump names.            *)
LEMMA JumpsDecoded ==
    ASSUME NEW bus, NEW out \in Word, NEW jump \in JumpNames,
           bus[2] <=> jumpBits(jump)[1],
           bus[1] <=> jumpBits(jump)[2],
           bus[0] <=> jumpBits(jump)[3]
    PROVE  jumpCond(bus, out) <=> Machine!Jumps(jump, out)
  <1>1. /\ bus[2] <=> jump \in {"JLT", "JNE", "JLE", "JMP"}
        /\ bus[1] <=> jump \in {"JEQ", "JGE", "JLE", "JMP"}
        /\ bus[0] <=> jump \in {"JGT", "JGE", "JNE", "JMP"}
    BY DEF jumpBits
  <1>2. jump \in {"", "JGT", "JEQ", "JGE", "JLT", "JNE", "JLE", "JMP"}
    BY DEF JumpNames
  <1> QED
    BY <1>1, <1>2, JumpOutputs, JumpConditions, FlagsExclude DEF Machine!Jumps

-----------------------------------------------------------------------------
(* Types.                                                                  *)

LEMMA Mux16Word ==
    ASSUME NEW x, NEW y, NEW s
    PROVE  Mux16(x, y, s) \in Word
  BY DEF Mux16, Mux, Word

LEMMA AddressTypes ==
    ASSUME NEW bus \in Word
    PROVE  /\ Low(bus, WordSize - 3) \in ScreenAddress
           /\ Low(bus, WordSize - 2) \in RAMAddress
           /\ BusLocation(bus) \in [0..(WordSize - 2) -> BOOLEAN]
  BY WordSizeAssumption DEF Low, Word, Bits, ScreenAddress, RAMAddress, BusLocation

LEMMA StoreType ==
    ASSUME TypeOK, NEW in \in Word, NEW load, NEW address \in Word,
           Store(in, load, address)
    PROVE  RAM16K' \in [RAMAddress -> Word] /\ Screen' \in [ScreenAddress -> Word]
  BY AddressTypes DEF TypeOK, Store

LEMMA TypeInit == Init => TypeOK
  BY OffWord DEF Init, TypeOK

LEMMA TypeNext == TypeOK /\ [Next]_vars => TypeOK'
  <1> SUFFICES ASSUME TypeOK, [Next]_vars PROVE TypeOK'
    OBVIOUS
  <1>1. ASSUME NEW reset \in Resets, Tick(reset) PROVE TypeOK'
    <2> DEFINE instruction == ROM32K(PC)
               out == outM(instruction)
    <2>1. out \in Word
      BY ALUWord DEF outM
    <2>2. ARegister' \in Word /\ DRegister' \in Word
      BY <1>1, <2>1, Mux16Word DEF Tick, TypeOK
    <2>3. PC' \in Word
      BY <1>1, Mux16Word DEF Tick, NextPC
    <2>4. RAM16K' \in [RAMAddress -> Word] /\ Screen' \in [ScreenAddress -> Word]
      BY <1>1, <2>1, StoreType DEF Tick, TypeOK
    <2>5. UNCHANGED <<program, Keyboard>>
      BY <1>1 DEF Tick
    <2> QED
      BY <2>2, <2>3, <2>4, <2>5 DEF TypeOK
  <1>2. CASE KeyChange
    BY <1>2, ProgramsAssumption DEF KeyChange, TypeOK
  <1>3. CASE UNCHANGED vars
    BY <1>3 DEF vars, TypeOK
  <1> QED
    BY <1>1, <1>2, <1>3 DEF Next, Clock

(* The registers, the memories and the inputs carry words in every state.  *)
THEOREM TypeCorrect == Spec => []TypeOK
  <1>1. Init /\ [][Next]_vars => []TypeOK
    BY TypeInit, TypeNext, PTL
  <1> QED
    BY <1>1, PTL DEF Spec

-----------------------------------------------------------------------------
(* The memory.                                                             *)

LEMMA LocationBits ==
    ASSUME NEW bus \in Word
    PROVE  /\ Low(BusLocation(bus), WordSize - 3) = Low(bus, WordSize - 3)
           /\ Low(BusLocation(bus), WordSize - 2) = Low(bus, WordSize - 2)
           /\ BusLocation(bus)[WordSize - 3] = bus[WordSize - 3]
           /\ BusLocation(bus)[WordSize - 2] = bus[WordSize - 2]
  <1>1. WordSize \in Nat /\ WordSize >= 4
    BY WordSizeAssumption
  <1>2. \A i \in 0..(WordSize - 2) : BusLocation(bus)[i] = bus[i]
    BY <1>1 DEF BusLocation, Low
  <1>3. Low(BusLocation(bus), WordSize - 3) = Low(bus, WordSize - 3)
    BY <1>1, <1>2 DEF Low
  <1>4. Low(BusLocation(bus), WordSize - 2) = Low(bus, WordSize - 2)
    BY <1>1, <1>2 DEF Low
  <1> QED
    BY <1>1, <1>2, <1>3, <1>4

(* Two locations of the same part with the same low bits are one.          *)
LEMMA LocationsDiffer ==
    ASSUME NEW l \in [0..(WordSize - 2) -> BOOLEAN], NEW m \in [0..(WordSize - 2) -> BOOLEAN],
           l[WordSize - 2] <=> m[WordSize - 2]
    PROVE  /\ Low(l, WordSize - 2) = Low(m, WordSize - 2) => l = m
           /\ (l[WordSize - 3] <=> m[WordSize - 3])
                /\ Low(l, WordSize - 3) = Low(m, WordSize - 3) => l = m
  <1>1. \A n \in 0..(WordSize - 1) :
           Low(l, n) = Low(m, n) => \A i \in 0..(n - 1) : l[i] = m[i]
    <2> TAKE n \in 0..(WordSize - 1)
    <2> HAVE Low(l, n) = Low(m, n)
    <2> TAKE i \in 0..(n - 1)
    <2>1. Low(l, n)[i] = l[i] /\ Low(m, n)[i] = m[i]
      BY DEF Low
    <2> QED
      BY <2>1
  <1>2. WordSize \in Nat /\ WordSize >= 4
    BY WordSizeAssumption
  <1>3. ASSUME \A i \in 0..(WordSize - 2) : l[i] = m[i] PROVE l = m
    <2>1. l = [i \in 0..(WordSize - 2) |-> l[i]] /\ m = [i \in 0..(WordSize - 2) |-> m[i]]
      OBVIOUS
    <2> QED
      BY <1>3, <2>1, Zenon
  <1>4. l[WordSize - 2] = m[WordSize - 2]
    BY <1>2
  <1>5. ASSUME Low(l, WordSize - 2) = Low(m, WordSize - 2) PROVE l = m
    <2>1. \A i \in 0..(WordSize - 3) : l[i] = m[i]
      BY <1>1, <1>2, <1>5
    <2> QED
      BY <1>2, <1>3, <1>4, <2>1
  <1>6. ASSUME l[WordSize - 3] <=> m[WordSize - 3], Low(l, WordSize - 3) = Low(m, WordSize - 3)
        PROVE  l = m
    <2>1. \A i \in 0..(WordSize - 4) : l[i] = m[i]
      BY <1>1, <1>2, <1>6
    <2>2. l[WordSize - 3] = m[WordSize - 3]
      BY <1>2, <1>6
    <2> QED
      BY <1>2, <1>3, <1>4, <2>1, <2>2
  <1> QED
    BY <1>5, <1>6

(* MemoryOut is the word A addresses.                                      *)
LEMMA MemoryRead ==
    ASSUME TypeOK
    PROVE  MemoryOut(ARegister) = Machine!M
  <1> DEFINE a == ARegister
             l == BusLocation(ARegister)
             RAMWord == RAM16K[Low(a, WordSize - 2)]
             ScreenWord == Screen[Low(a, WordSize - 3)]
  <1>1. a \in Word /\ Keyboard \in Word /\ RAMWord \in Word /\ ScreenWord \in Word
    BY AddressTypes DEF TypeOK
  <1>2. a[WordSize - 3] \in BOOLEAN /\ a[WordSize - 2] \in BOOLEAN
    BY <1>1, WordSizeAssumption DEF Word, Bits
  <1>3. MemoryOut(a) = IF a[WordSize - 2]
                       THEN IF a[WordSize - 3] THEN Keyboard ELSE ScreenWord
                       ELSE RAMWord
    <2>1. /\ Mux16(RAMWord, RAMWord, a[WordSize - 3]) = RAMWord
          /\ Mux16(ScreenWord, Keyboard, a[WordSize - 3])
               = IF a[WordSize - 3] THEN Keyboard ELSE ScreenWord
      BY <1>1, <1>2, Mux16Selects
    <2>2. MemoryOut(a) = Mux16(Mux16(RAMWord, RAMWord, a[WordSize - 3]),
                               Mux16(ScreenWord, Keyboard, a[WordSize - 3]), a[WordSize - 2])
      BY DEF MemoryOut, sel
    <2> QED
      BY <1>1, <1>2, <2>1, <2>2, Mux16Selects
  <1>4. l \in BusStored <=> ~(a[WordSize - 3] /\ a[WordSize - 2])
    BY <1>1, AddressTypes, LocationBits DEF BusStored
  <1>5. l \in BusStored => BusMemory[l] = IF a[WordSize - 2] THEN ScreenWord ELSE RAMWord
    BY <1>1, LocationBits DEF BusMemory
  <1>6. Machine!M = IF l \in BusStored THEN BusMemory[l] ELSE Keyboard
    BY DEF Machine!M
  <1> QED
    BY <1>2, <1>3, <1>4, <1>5, <1>6

(* A store changes the location A addresses and no other, and nothing when *)
(* that location is the keyboard's.                                        *)
LEMMA MemoryWrite ==
    ASSUME TypeOK, NEW in \in Word, NEW load \in BOOLEAN, Store(in, load, ARegister)
    PROVE  BusMemory' = IF load /\ BusLocation(ARegister) \in BusStored
                        THEN [BusMemory EXCEPT ![BusLocation(ARegister)] = in]
                        ELSE BusMemory
  <1> DEFINE a == ARegister
             here == BusLocation(ARegister)
             top(l) == l[WordSize - 2]
             second(l) == l[WordSize - 3]
  <1>1. a \in Word /\ RAM16K \in [RAMAddress -> Word] /\ Screen \in [ScreenAddress -> Word]
    BY DEF TypeOK
  <1>2. /\ here \in [0..(WordSize - 2) -> BOOLEAN]
        /\ Low(a, WordSize - 2) \in RAMAddress /\ Low(a, WordSize - 3) \in ScreenAddress
        /\ Low(here, WordSize - 2) = Low(a, WordSize - 2)
        /\ Low(here, WordSize - 3) = Low(a, WordSize - 3)
        /\ top(here) = top(a) /\ second(here) = second(a)
    BY <1>1, AddressTypes, LocationBits
  <1>3. here \in BusStored <=> ~(second(a) /\ top(a))
    BY <1>2 DEF BusStored
  <1>4. RAM16K' = IF load /\ ~top(a)
                  THEN [RAM16K EXCEPT ![Low(a, WordSize - 2)] = in] ELSE RAM16K
    BY DEF Store, loadRAM, sel
  <1>5. Screen' = IF load /\ ~second(a) /\ top(a)
                  THEN [Screen EXCEPT ![Low(a, WordSize - 3)] = in] ELSE Screen
    BY DEF Store, loadScreen, sel
  <1>6. ASSUME NEW l \in BusStored
        PROVE  BusMemory'[l] = IF load /\ here \in BusStored /\ l = here THEN in ELSE BusMemory[l]
    <2>1. l \in [0..(WordSize - 2) -> BOOLEAN] /\ ~(second(l) /\ top(l))
      BY DEF BusStored
    <2>2. BusMemory[l] = IF top(l) THEN Screen[Low(l, WordSize - 3)] ELSE RAM16K[Low(l, WordSize - 2)]
      BY DEF BusMemory
    <2>3. BusMemory'[l] = IF top(l) THEN Screen'[Low(l, WordSize - 3)] ELSE RAM16K'[Low(l, WordSize - 2)]
      BY DEF BusMemory
    <2>4. Low(l, WordSize - 3) \in ScreenAddress /\ Low(l, WordSize - 2) \in RAMAddress
      BY <2>1, WordSizeAssumption DEF Low, ScreenAddress, RAMAddress
    <2>5. CASE top(l)
      <3>1. CASE load /\ ~second(a) /\ top(a)
        <4>1. Screen'[Low(l, WordSize - 3)]
                = IF Low(l, WordSize - 3) = Low(a, WordSize - 3) THEN in
                  ELSE Screen[Low(l, WordSize - 3)]
          BY <1>1, <1>5, <2>4, <3>1
        <4>2. Low(l, WordSize - 3) = Low(a, WordSize - 3) <=> l = here
          BY <1>2, <2>1, <2>5, <3>1, LocationsDiffer
        <4> QED
          BY <1>3, <2>2, <2>3, <2>5, <3>1, <4>1, <4>2
      <3>2. CASE ~(load /\ ~second(a) /\ top(a))
        <4>1. ~(load /\ here \in BusStored /\ l = here)
          BY <1>2, <1>3, <2>5, <3>2
        <4> QED
          BY <1>5, <2>2, <2>3, <2>5, <3>2, <4>1
      <3> QED
        BY <3>1, <3>2
    <2>6. CASE ~top(l)
      <3>1. CASE load /\ ~top(a)
        <4>1. RAM16K'[Low(l, WordSize - 2)]
                = IF Low(l, WordSize - 2) = Low(a, WordSize - 2) THEN in
                  ELSE RAM16K[Low(l, WordSize - 2)]
          BY <1>1, <1>4, <2>4, <3>1
        <4>2. Low(l, WordSize - 2) = Low(a, WordSize - 2) <=> l = here
          BY <1>2, <2>1, <2>6, <3>1, LocationsDiffer
        <4> QED
          BY <1>3, <2>2, <2>3, <2>6, <3>1, <4>1, <4>2
      <3>2. CASE ~(load /\ ~top(a))
        <4>1. ~(load /\ here \in BusStored /\ l = here)
          BY <1>2, <2>6, <3>2
        <4> QED
          BY <1>4, <2>2, <2>3, <2>6, <3>2, <4>1
      <3> QED
        BY <3>1, <3>2
    <2> QED
      BY <2>5, <2>6
  <1>7. BusMemory' = [l \in BusStored |-> BusMemory'[l]] /\ BusMemory = [l \in BusStored |-> BusMemory[l]]
    BY DEF BusMemory
  <1> QED
    BY <1>6, <1>7

-----------------------------------------------------------------------------
(* The program counter.                                                    *)

(* The chip PC: reset, or else load, or else increment.                    *)
LEMMA CounterNext ==
    ASSUME NEW in \in Word, PC \in Word, NEW load \in BOOLEAN, NEW reset \in BOOLEAN
    PROVE  NextPC(in, load, ~(load \/ reset), reset)
             = IF reset THEN Off ELSE IF load THEN in ELSE Inc16(PC)
  <1> DEFINE held == Mux16(PC, Off, reset)
             loaded == Mux16(held, in, load /\ ~reset)
             counted == ~(load \/ reset) /\ ~load /\ ~reset
  <1>1. held = IF reset THEN Off ELSE PC
    BY OffWord, Mux16Selects
  <1>2. loaded = IF load /\ ~reset THEN in ELSE held
    BY Mux16Selects, Mux16Word
  <1>3. Mux16(loaded, Inc16(PC), counted) = IF counted THEN Inc16(PC) ELSE loaded
    BY Mux16Selects, Mux16Word, Inc16Word
  <1>4. NextPC(in, load, ~(load \/ reset), reset) = Mux16(loaded, Inc16(PC), counted)
    BY DEF NextPC
  <1> HIDE DEF loaded, held
  <1> QED
    BY <1>1, <1>2, <1>3, <1>4

-----------------------------------------------------------------------------
(* One clock cycle is one step of the machine.                             *)

Fetched == BusFetch(program, PC)

LEMMA Fetching ==
    ASSUME TypeOK
    PROVE  Fetched \in AInstruction \cup CInstruction /\ ROM32K(PC) = translate(Fetched)
  <1>1. program \in Seq(AInstruction \cup CInstruction)
    BY ProgramsAssumption DEF TypeOK
  <1>2. At(0) \in AInstruction
    BY WordSizes DEF At, AInstruction, MAX_VALUE
  <1> DEFINE n == Number(PC, WordSize - 1)
  <1>3. CASE n + 1 \in DOMAIN program
    BY <1>1, <1>3 DEF Fetched, BusFetch, ROM32K
  <1>4. CASE ~(n + 1 \in DOMAIN program)
    BY <1>2, <1>4 DEF Fetched, BusFetch, ROM32K
  <1> QED
    BY <1>3, <1>4

\* What the step of an instruction needs to know of the cycle.
CycleOf(bus, out, reset) ==
    /\ ARegister' = IF loadA(bus) THEN Mux16(Low(bus, WordSize), out, isCInstr(bus)) ELSE ARegister
    /\ DRegister' = IF loadD(bus) THEN out ELSE DRegister
    /\ PC' = NextPC(ARegister, jumpCond(bus, out) /\ isCInstr(bus),
                    ~((jumpCond(bus, out) /\ isCInstr(bus)) \/ reset), reset)
    /\ Store(out, writeM(bus), ARegister)
    /\ UNCHANGED <<program, Keyboard>>

(* A cycle with an A-instruction is a Load, one with a C-instruction an    *)
(* Operate.                                                                *)
LEMMA LoadCycle ==
    ASSUME TypeOK, NEW n \in Nat, NEW reset \in BOOLEAN, NEW out \in Word,
           CycleOf(translate(At(n)), out, reset)
    PROVE  Machine!Load(At(n), reset)
  <1> DEFINE bus == translate(At(n))
  <1>1. ~isCInstr(bus) /\ Low(bus, WordSize) = BusImmediate(n) /\ isCInstr(bus) \in BOOLEAN
    BY LoadBits DEF InstructionBus, isCInstr
  <1>2. BusImmediate(n) \in Word
    BY DEF BusImmediate, Word
  <1> HIDE DEF bus
  <1>3. ARegister' = BusImmediate(n)
    <2>1. Mux16(Low(bus, WordSize), out, isCInstr(bus)) = BusImmediate(n)
      BY <1>1, <1>2, Mux16Selects
    <2> QED
      BY <1>1, <2>1 DEF CycleOf, loadA, bus
  <1>4. DRegister' = DRegister
    BY <1>1 DEF CycleOf, loadD, bus
  <1>5. BusMemory' = BusMemory
    <2>1. writeM(bus) \in BOOLEAN /\ ~writeM(bus)
      BY <1>1 DEF writeM
    <2>2. Store(out, writeM(bus), ARegister)
      BY DEF CycleOf, bus
    <2> QED
      BY <2>1, <2>2, MemoryWrite
  <1>6. PC' = IF reset THEN Off ELSE Inc16(PC)
    <2> DEFINE load == jumpCond(bus, out) /\ isCInstr(bus)
    <2>1. load \in BOOLEAN /\ ~load
      BY <1>1
    <2>2. PC' = NextPC(ARegister, load, ~(load \/ reset), reset)
      BY DEF CycleOf, bus
    <2>3. ARegister \in Word /\ PC \in Word
      BY DEF TypeOK
    <2> HIDE DEF load
    <2> QED
      BY <2>1, <2>2, <2>3, CounterNext
  <1> QED
    BY <1>3, <1>4, <1>5, <1>6 DEF Machine!Load, Machine!Continue, At

LEMMA OperateCycle ==
    ASSUME TypeOK, NEW instr \in CInstruction, NEW reset \in BOOLEAN,
           CycleOf(translate(instr), outM(translate(instr)), reset)
    PROVE  Machine!Operate(instr, reset)
  <1> DEFINE bus == translate(instr)
             out == outM(bus)
             result == BusCompute(instr.comp, DRegister, ARegister, Machine!M)
  <1>1. /\ bus \in InstructionBus /\ isCInstr(bus)
        /\ bus[12] <=> computation[instr.comp][1] = 1
        /\ ALUIn(bus) = [n \in 1..6 |-> computation[instr.comp][n + 1] = 1]
        /\ bus[5] <=> "A" \in instr.dest
        /\ bus[4] <=> "D" \in instr.dest
        /\ bus[3] <=> "M" \in instr.dest
        /\ bus[2] <=> jumpBits(instr.jump)[1]
        /\ bus[1] <=> jumpBits(instr.jump)[2]
        /\ bus[0] <=> jumpBits(instr.jump)[3]
    BY OperateBits
  <1>2. /\ instr.op = "C" /\ instr.jump \in JumpNames
        /\ ARegister \in Word /\ DRegister \in Word /\ PC \in Word
    BY DEF CInstruction, TypeOK
  <1>3. out \in Word
    BY ALUWord DEF outM
  <1> HIDE DEF bus
  <1>4. out = result
    <2>1. MemoryOut(ARegister) = Machine!M
      BY MemoryRead
    <2>2. MemoryOut(ARegister) \in Word
      BY Mux16Word DEF MemoryOut
    <2>3. AorMout(bus) = IF computation[instr.comp][1] = 1 THEN Machine!M ELSE ARegister
      <3>1. (bus[12] /\ isCInstr(bus)) \in BOOLEAN
        OBVIOUS
      <3>2. Mux16(ARegister, MemoryOut(ARegister), bus[12] /\ isCInstr(bus))
              = IF bus[12] /\ isCInstr(bus) THEN MemoryOut(ARegister) ELSE ARegister
        BY <1>2, <2>2, <3>1, Mux16Selects
      <3> QED
        BY <1>1, <2>1, <3>2 DEF AorMout
    <2> QED
      BY <1>1, <2>3 DEF outM, BusCompute
  <1> HIDE DEF out, result
  <1>5. ARegister' = IF "A" \in instr.dest THEN out ELSE ARegister
    <2>1. Low(bus, WordSize) \in Word
      BY <1>1, WordSizeAssumption DEF Low, Word, Bits, InstructionBus
    <2>2. isCInstr(bus) \in BOOLEAN
      BY <1>1 DEF isCInstr, InstructionBus
    <2>3. Mux16(Low(bus, WordSize), out, isCInstr(bus)) = out
      BY <1>1, <1>3, <2>1, <2>2, Mux16Selects
    <2>4. loadA(bus) <=> "A" \in instr.dest
      BY <1>1 DEF loadA
    <2>5. ARegister' = IF loadA(bus) THEN Mux16(Low(bus, WordSize), out, isCInstr(bus)) ELSE ARegister
      BY DEF CycleOf, bus, out
    <2> QED
      BY <2>3, <2>4, <2>5
  <1>6. DRegister' = IF "D" \in instr.dest THEN out ELSE DRegister
    <2>1. loadD(bus) <=> "D" \in instr.dest
      BY <1>1 DEF loadD
    <2>2. DRegister' = IF loadD(bus) THEN out ELSE DRegister
      BY DEF CycleOf, bus, out
    <2> QED
      BY <2>1, <2>2
  <1>7. BusMemory' = IF "M" \in instr.dest /\ BusLocation(ARegister) \in BusStored
                     THEN [BusMemory EXCEPT ![BusLocation(ARegister)] = out] ELSE BusMemory
    <2>1. writeM(bus) \in BOOLEAN /\ (writeM(bus) <=> "M" \in instr.dest)
      BY <1>1 DEF writeM
    <2>2. Store(out, writeM(bus), ARegister)
      BY DEF CycleOf, bus, out
    <2>3. BusMemory' = IF writeM(bus) /\ BusLocation(ARegister) \in BusStored
                       THEN [BusMemory EXCEPT ![BusLocation(ARegister)] = out] ELSE BusMemory
      BY <1>3, <2>1, <2>2, MemoryWrite
    <2> QED
      BY <2>1, <2>3
  <1>8. PC' = IF reset THEN Off
              ELSE IF Machine!Jumps(instr.jump, out) THEN ARegister ELSE Inc16(PC)
    <2> DEFINE load == jumpCond(bus, out) /\ isCInstr(bus)
    <2>1. load \in BOOLEAN /\ (load <=> Machine!Jumps(instr.jump, out))
      BY <1>1, <1>2, <1>3, JumpsDecoded
    <2>2. PC' = NextPC(ARegister, load, ~(load \/ reset), reset)
      BY DEF CycleOf, bus, out
    <2> HIDE DEF load
    <2>3. PC' = IF reset THEN Off ELSE IF load THEN ARegister ELSE Inc16(PC)
      BY <1>2, <2>1, <2>2, CounterNext
    <2> QED
      BY <2>1, <2>3
  <1>9. Machine!Operate(instr, reset) <=>
          /\ instr.op = "C"
          /\ ARegister' = IF "A" \in instr.dest THEN result ELSE ARegister
          /\ DRegister' = IF "D" \in instr.dest THEN result ELSE DRegister
          /\ BusMemory' = IF "M" \in instr.dest /\ BusLocation(ARegister) \in BusStored
                          THEN [BusMemory EXCEPT ![BusLocation(ARegister)] = result] ELSE BusMemory
          /\ PC' = IF reset THEN Off
                   ELSE IF Machine!Jumps(instr.jump, result) THEN ARegister ELSE Inc16(PC)
    BY DEF Machine!Operate, Machine!Continue, result
  <1> QED
    BY <1>2, <1>4, <1>5, <1>6, <1>7, <1>8, <1>9

LEMMA MachineStep ==
    ASSUME TypeOK, NEW reset \in Resets, Tick(reset)
    PROVE  Machine!Step
  <1>1. reset \in BOOLEAN
    BY ProgramsAssumption
  <1>2. CycleOf(translate(Fetched), outM(translate(Fetched)), reset)
    BY Fetching DEF Tick, CycleOf
  <1>3. UNCHANGED <<program, Keyboard>>
    BY DEF Tick
  <1>4. Machine!Load(Fetched, reset) \/ Machine!Operate(Fetched, reset)
    <2>1. CASE Fetched \in AInstruction
      <3>1. PICK n \in 0..(MAX_VALUE - 1) : Fetched = At(n)
        BY <2>1 DEF AInstruction, At
      <3>2. outM(translate(Fetched)) \in Word
        BY ALUWord DEF outM
      <3>3. n \in Nat
        BY WordSizes DEF MAX_VALUE
      <3> QED
        BY <1>1, <1>2, <3>1, <3>2, <3>3, LoadCycle
    <2>2. CASE Fetched \in CInstruction
      BY <1>1, <1>2, <2>2, OperateCycle
    <2> QED
      BY <2>1, <2>2, Fetching
  <1> QED
    BY <1>3, <1>4 DEF Machine!Step, Fetched

LEMMA MachineInit == Init => Machine!Init
  <1> SUFFICES ASSUME Init PROVE Machine!Init
    OBVIOUS
  <1>1. BusMemory = [l \in BusStored |-> Off]
    <2>1. \A l \in BusStored : Low(l, WordSize - 3) \in ScreenAddress /\ Low(l, WordSize - 2) \in RAMAddress
      BY WordSizeAssumption DEF Low, ScreenAddress, RAMAddress, BusStored
    <2> QED
      BY <2>1 DEF Init, BusMemory
  <1> QED
    BY <1>1 DEF Init, Machine!Init

(* The computer of cpu_hdl/05 implements the machine its documentation     *)
(* describes: one instruction a cycle, executed on the registers and the   *)
(* memory as they were when the cycle began, with the jumps of the         *)
(* mnemonics, the screen after the RAM, a keyboard no store can change,    *)
(* and a reset that overrides the jump.                                    *)
THEOREM ComputerImplementsMachine == Spec => Machine!Spec
  <1>1. TypeOK /\ [Next]_vars => [Machine!Next]_Machine!vars
    <2> SUFFICES ASSUME TypeOK, [Next]_vars PROVE [Machine!Next]_Machine!vars
      OBVIOUS
    <2>1. ASSUME NEW reset \in Resets, Tick(reset) PROVE Machine!Next
      BY <2>1, MachineStep DEF Machine!Next
    <2>2. CASE KeyChange
      BY <2>2 DEF KeyChange, Machine!Next, Machine!Key, BusMemory
    <2>3. CASE UNCHANGED vars
      BY <2>3 DEF vars, Machine!vars, BusMemory
    <2> QED
      BY <2>1, <2>2, <2>3 DEF Next, Clock
  <1> QED
    BY <1>1, MachineInit, TypeCorrect, PTL DEF Spec, Machine!Spec

-----------------------------------------------------------------------------
(* Words as numbers.                                                       *)

(* The word an A-instruction loads is its value.                           *)
LEMMA ValueImmediate ==
    ASSUME NEW n \in 0..(MAX_VALUE - 1)
    PROVE  BusImmediate(n) \in Word /\ AsNumber(BusImmediate(n)) = n
  <1> DEFINE b == BusImmediate(n)
  <1>1. WordSize \in 0..16 /\ n \in Nat /\ n < 2^Sign /\ n < 2^WordSize
    BY WordSizes DEF MAX_VALUE
  <1>2. b \in Word
    BY DEF BusImmediate, Word
  <1>3. ~BitOf(n, Sign)
    <2>1. PICK p \in Nat \ {0} : p = 2^Sign
      BY WordSizes
    <2>2. n \div p = 0
      BY <1>1, <2>1
    <2>3. 0 % 2 # 1
      OBVIOUS
    <2>4. BitOf(n, Sign) <=> (n \div p) % 2 = 1
      BY <2>1 DEF BitOf
    <2> QED
      BY <2>2, <2>3, <2>4, Zenon
  <1>4. \A i \in 0..(WordSize - 1) : b[i] <=> BitOf(n, i)
    <2> TAKE i \in 0..(WordSize - 1)
    <2>1. i \in Bits /\ (i < Sign \/ i = Sign)
      BY WordSizes
    <2>2. b[i] <=> i < Sign /\ BitOf(n, i)
      BY <2>1 DEF BusImmediate
    <2> QED
      BY <1>3, <2>1, <2>2, WordSizes
  <1> HIDE DEF b
  <1>5. AsNumber(b) = n
    BY <1>1, <1>4, NumberFrom DEF AsNumber
  <1> QED
    BY <1>2, <1>5 DEF b

(* The flags of the ALU tell zero and the negative numbers.                *)
LEMMA FlagsAre ==
    ASSUME NEW out \in Word
    PROVE  /\ zr(out) <=> IsZero(AsNumber(out))
           /\ ng(out) <=> IsNegative(AsNumber(out))
  <1>1. zr(out) <=> out = Off
    <2>1. out = [i \in Bits |-> out[i]] /\ \A i \in Bits : out[i] \in BOOLEAN
      BY DEF Word
    <2> QED
      BY <2>1 DEF zr, NonZero, Off
  <1>2. out = Off <=> AsNumber(out) = 0
    BY OffWord, ValueOff, ValueInjective
  <1>3. AsNumber(out) = Number(out, Sign) + Worth(out[Sign], Sign)
    <2>1. WordSize \in 0..16 /\ WordSize \in 1..WordSize /\ WordSize - 1 = Sign
      BY WordSizes
    <2> QED
      BY <2>1, NumberSteps DEF AsNumber
  <1>4. Number(out, Sign) \in 0..(2^Sign - 1)
    <2>1. Sign \in 0..16
      BY WordSizes
    <2> QED
      BY <2>1, NumberBits
  <1>5. ng(out) <=> IsNegative(AsNumber(out))
    <2>1. PICK p \in Nat \ {0} : p = 2^Sign /\ p = Size \div 2
      BY WordSizes
    <2> QED
      BY <1>3, <1>4, <2>1 DEF ng, IsNegative, Worth
  <1> QED
    BY <1>1, <1>2, <1>5 DEF IsZero

(* The gates fetch the instruction the program counter numbers.            *)
LEMMA FetchIs ==
    ASSUME NEW S, NEW instructions \in Seq(S), NEW counter \in Word
    PROVE  Fetch(instructions, AsNumber(counter)) = BusFetch(instructions, counter)
  <1>1. PICK n \in Nat : n = Location(AsNumber(counter)) /\ n = Number(counter, WordSize - 1)
    <2>1. WordSize - 1 \in 0..16 /\ WordSize - 1 \in 0..(WordSize - 1)
      BY WordSizes
    <2>2. Number(counter, WordSize - 1) \in Nat
      BY <2>1, NumberSteps
    <2> QED
      BY <2>2, ValueIs
  <1>2. n + 1 \in DOMAIN instructions <=> n < Len(instructions)
    BY <1>1
  <1> QED
    BY <1>1, <1>2 DEF Fetch, BusFetch

-----------------------------------------------------------------------------
(* The memory as one array.                                                *)

MemoryOf(ram, screen) ==
    [n \in Stored |->
        IF n < RAMSize THEN AsNumber(ram[RAMBus[n]]) ELSE AsNumber(screen[ScreenBus[n - RAMSize]])]

BusMemoryOf(ram, screen) ==
    [l \in BusStored |->
        IF l[WordSize - 2] THEN screen[Low(l, WordSize - 3)] ELSE ram[Low(l, WordSize - 2)]]

Locations == [0..(WordSize - 2) -> BOOLEAN]
NumberOf(l) == Number(l, WordSize - 1)

LEMMA MemorySizes ==
    /\ RAMSize \in Nat \ {0} /\ ScreenSize \in Nat \ {0}
    /\ RAMSize = 2^(WordSize - 2) /\ ScreenSize = 2^(WordSize - 3)
    /\ RAMSize = 2 * ScreenSize /\ 2^(WordSize - 1) = 4 * ScreenSize
  <1>1. PICK k \in 0..15 : k = WordSize - 3 /\ k + 1 = WordSize - 2 /\ k + 2 = WordSize - 1
                            /\ k + 3 = WordSize /\ k + 1 \in 0..15 /\ k + 2 \in 0..15
    <2>1. /\ WordSize - 3 \in 0..15 /\ (WordSize - 3) + 1 = WordSize - 2
          /\ (WordSize - 3) + 2 = WordSize - 1 /\ (WordSize - 3) + 3 = WordSize
          /\ (WordSize - 3) + 1 \in 0..15 /\ (WordSize - 3) + 2 \in 0..15
      BY WordSizes
    <2> QED
      BY <2>1
  <1>2. PICK p \in Nat \ {0} : p = 2^k
    BY Powers
  <1>3. 2^(k + 1) = 2 * p
    BY <1>2, Powers
  <1>4. 2^(k + 2) = 4 * p
    <2>1. (k + 1) + 1 = k + 2
      OBVIOUS
    <2>2. 2^((k + 1) + 1) = 2 * 2^(k + 1)
      BY <1>1, Powers
    <2> QED
      BY <1>3, <2>1, <2>2
  <1>5. 2^(k + 3) = 8 * p
    <2>1. (k + 2) + 1 = k + 3
      OBVIOUS
    <2>2. 2^((k + 2) + 1) = 2 * 2^(k + 2)
      BY <1>1, Powers
    <2> QED
      BY <1>4, <2>1, <2>2
  <1>6. Size = 8 * p
    BY <1>1, <1>5 DEF Size
  <1>7. (8 * p) \div 4 = 2 * p /\ (8 * p) \div 8 = p
    OBVIOUS
  <1> QED
    BY <1>1, <1>2, <1>3, <1>4, <1>6, <1>7 DEF RAMSize, ScreenSize

(* The number of a location tells whether it is stored, in the RAM or in   *)
(* the screen, and where.                                                  *)
LEMMA LocationNumber ==
    ASSUME NEW l \in Locations
    PROVE  /\ NumberOf(l) \in Nat
           /\ NumberOf(l) \in Stored <=> l \in BusStored
           /\ ~l[WordSize - 2] => /\ NumberOf(l) \in 0..(RAMSize - 1)
                                  /\ RAMBus[NumberOf(l)] = Low(l, WordSize - 2)
           /\ l[WordSize - 2] /\ ~l[WordSize - 3] =>
                 /\ NumberOf(l) >= RAMSize
                 /\ NumberOf(l) - RAMSize \in 0..(ScreenSize - 1)
                 /\ ScreenBus[NumberOf(l) - RAMSize] = Low(l, WordSize - 3)
  <1>1. PICK w \in 4..16 : w = WordSize
    BY WordSizes
  <1>2. PICK k \in 1..13 : k = w - 3 /\ k + 1 = w - 2 /\ k + 2 = w - 1
    <2>1. w - 3 \in 1..13 /\ (w - 3) + 1 = w - 2 /\ (w - 3) + 2 = w - 1
      OBVIOUS
    <2> QED
      BY <2>1
  <1>3. l \in [0..(k + 1) -> BOOLEAN] /\ l[k] \in BOOLEAN /\ l[k + 1] \in BOOLEAN
    BY <1>1, <1>2 DEF Locations
  <1>4. PICK p \in Nat \ {0} : p = 2^k /\ 2^(k + 1) = 2 * p /\ ScreenSize = p /\ RAMSize = 2 * p
    BY <1>1, <1>2, MemorySizes
  <1>5. /\ Number(l, k) \in Nat /\ Number(l, k + 1) \in Nat /\ Number(l, k + 2) \in Nat
        /\ Number(l, k + 1) = Number(l, k) + Worth(l[k], k)
        /\ Number(l, k + 2) = Number(l, k + 1) + Worth(l[k + 1], k + 1)
    <2>1. k + 2 \in 0..16 /\ k + 1 \in 1..(k + 2) /\ k + 2 \in 1..(k + 2) /\ k \in 0..(k + 2)
          /\ (k + 1) - 1 = k /\ (k + 2) - 1 = k + 1 /\ k + 1 \in 0..(k + 2) /\ k + 2 \in 0..(k + 2)
      OBVIOUS
    <2> QED
      BY <2>1, NumberSteps
  <1>6. Number(l, k) \in 0..(p - 1)
    <2>1. k \in 0..16
      OBVIOUS
    <2> QED
      BY <1>4, <2>1, NumberBits
  <1>7. \A i \in 0..(k - 1) : BitOf(Number(l, k), i) <=> l[i]
    <2>1. k \in 0..16
      OBVIOUS
    <2> QED
      BY <2>1, NumberBits
  <1>8. \A i \in 0..k : BitOf(Number(l, k + 1), i) <=> l[i]
    <2>1. k + 1 \in 0..16 /\ (k + 1) - 1 = k
      OBVIOUS
    <2> QED
      BY <2>1, NumberBits
  <1>9. NumberOf(l) = Number(l, k) + Worth(l[k], k) + Worth(l[k + 1], k + 1)
    BY <1>1, <1>2, <1>5 DEF NumberOf
  <1>10. Worth(l[k], k) = (IF l[k] THEN p ELSE 0) /\ Worth(l[k + 1], k + 1) = (IF l[k + 1] THEN 2 * p ELSE 0)
    BY <1>4 DEF Worth
  <1>11. NumberOf(l) \in Stored <=> l \in BusStored
    <2>1. NumberOf(l) \in Stored <=> NumberOf(l) \in 0..(3 * p - 1)
      BY <1>4 DEF Stored
    <2>2. l \in BusStored <=> ~(l[k] /\ l[k + 1])
      BY <1>1, <1>2 DEF BusStored, Locations
    <2> QED
      BY <1>6, <1>9, <1>10, <2>1, <2>2
  <1>12. ASSUME ~l[k + 1]
         PROVE  NumberOf(l) \in 0..(RAMSize - 1) /\ RAMBus[NumberOf(l)] = Low(l, k + 1)
    <2>1. PICK n \in 0..(RAMSize - 1) : n = NumberOf(l) /\ n = Number(l, k + 1)
      BY <1>4, <1>5, <1>6, <1>9, <1>10, <1>12
    <2>2. RAMBus[n] = [i \in 0..k |-> BitOf(n, i)]
      <3>1. RAMBus[n] = Bus(n, WordSize - 2)
        BY DEF RAMBus
      <3>2. WordSize - 2 = k + 1 /\ (k + 1) - 1 = k
        BY <1>1, <1>2
      <3> QED
        BY <3>1, <3>2 DEF Bus
    <2>3. Low(l, k + 1) = [i \in 0..k |-> l[i]]
      <3>1. (k + 1) - 1 = k
        OBVIOUS
      <3> QED
        BY <3>1 DEF Low
    <2>4. \A i \in 0..k : l[i] \in BOOLEAN /\ BitOf(n, i) \in BOOLEAN
      BY <1>3 DEF BitOf
    <2>5. \A i \in 0..k : BitOf(n, i) = l[i]
      BY <1>8, <2>1, <2>4
    <2> QED
      BY <2>1, <2>2, <2>3, <2>5
  <1>13. ASSUME l[k + 1], ~l[k]
         PROVE  /\ NumberOf(l) >= RAMSize /\ NumberOf(l) - RAMSize \in 0..(ScreenSize - 1)
                /\ ScreenBus[NumberOf(l) - RAMSize] = Low(l, k)
    <2>0. NumberOf(l) = Number(l, k) + 2 * p
      <3>1. Worth(l[k], k) = 0 /\ Worth(l[k + 1], k + 1) = 2 * p
        BY <1>10, <1>13
      <3> QED
        BY <1>6, <1>9, <3>1
    <2>1. NumberOf(l) >= RAMSize
      BY <1>4, <1>6, <2>0
    <2>2. PICK n \in 0..(ScreenSize - 1) : n = NumberOf(l) - RAMSize /\ n = Number(l, k)
      BY <1>4, <1>6, <2>0
    <2>3. ScreenBus[n] = [i \in 0..(k - 1) |-> BitOf(n, i)]
      <3>1. ScreenBus[n] = Bus(n, WordSize - 3)
        BY DEF ScreenBus
      <3>2. WordSize - 3 = k
        BY <1>1, <1>2
      <3> QED
        BY <3>1, <3>2 DEF Bus
    <2>4. Low(l, k) = [i \in 0..(k - 1) |-> l[i]]
      BY DEF Low
    <2>5. \A i \in 0..(k - 1) : l[i] \in BOOLEAN /\ BitOf(n, i) \in BOOLEAN
      BY <1>3 DEF BitOf
    <2>6. \A i \in 0..(k - 1) : BitOf(n, i) = l[i]
      BY <1>7, <2>2, <2>5
    <2> QED
      BY <2>1, <2>2, <2>3, <2>4, <2>6
  <1>14. NumberOf(l) \in Nat
    BY <1>1, <1>2, <1>5 DEF NumberOf
  <1> QED
    BY <1>1, <1>2, <1>11, <1>12, <1>13, <1>14

(* Locations and their numbers correspond one to one.                      *)
LEMMA LocationsCover ==
    /\ \A l \in BusStored : l \in Locations /\ NumberOf(l) \in Stored
    /\ \A l \in BusStored, m \in BusStored : NumberOf(l) = NumberOf(m) => l = m
    /\ \A n \in Stored : \E l \in BusStored : NumberOf(l) = n
  <1>1. PICK w \in 3..15 : w = WordSize - 1 /\ w - 1 = WordSize - 2 /\ w \in 0..16
    <2>1. WordSize - 1 \in 3..15 /\ (WordSize - 1) - 1 = WordSize - 2 /\ WordSize - 1 \in 0..16
      BY WordSizes
    <2> QED
      BY <2>1
  <1>2. \A l \in BusStored : l \in Locations
    BY DEF BusStored, Locations
  <1>3. \A l \in BusStored : NumberOf(l) \in Stored
    BY <1>2, LocationNumber
  <1>4. ASSUME NEW l \in BusStored, NEW m \in BusStored, NumberOf(l) = NumberOf(m)
        PROVE  l = m
    <2>1. l \in [0..(w - 1) -> BOOLEAN] /\ m \in [0..(w - 1) -> BOOLEAN]
      BY <1>1, <1>2 DEF Locations
    <2>2. Number(l, w) = Number(m, w)
      BY <1>1, <1>4 DEF NumberOf
    <2>3. \A i \in 0..(w - 1) : BitOf(Number(l, w), i) <=> l[i]
      BY <1>1, NumberBits
    <2>4. \A i \in 0..(w - 1) : BitOf(Number(m, w), i) <=> m[i]
      BY <1>1, NumberBits
    <2>5. \A i \in 0..(w - 1) : l[i] = m[i]
      <3> TAKE i \in 0..(w - 1)
      <3>1. l[i] \in BOOLEAN /\ m[i] \in BOOLEAN
        BY <2>1
      <3>2. l[i] <=> m[i]
        BY <2>2, <2>3, <2>4
      <3> QED
        BY <3>1, <3>2
    <2>6. l = [i \in 0..(w - 1) |-> l[i]] /\ m = [i \in 0..(w - 1) |-> m[i]]
      BY <2>1
    <2> QED
      BY <2>5, <2>6, Zenon
  <1>5. ASSUME NEW n \in Stored
        PROVE  \E l \in BusStored : NumberOf(l) = n
    <2>1. n \in Nat /\ n < 2^w
      <3>1. n \in 0..(RAMSize + ScreenSize - 1)
        BY DEF Stored
      <3> QED
        BY <1>1, <3>1, MemorySizes
    <2> DEFINE l == [i \in 0..(w - 1) |-> BitOf(n, i)]
    <2>2. l \in Locations
      BY <1>1 DEF Locations, BitOf
    <2>3. \A i \in 0..(w - 1) : l[i] <=> BitOf(n, i)
      OBVIOUS
    <2> HIDE DEF l
    <2>4. NumberOf(l) = n
      BY <1>1, <2>1, <2>3, NumberFrom DEF NumberOf
    <2>5. l \in BusStored
      BY <2>2, <2>4, LocationNumber
    <2> QED
      BY <2>4, <2>5
  <1> QED
    BY <1>2, <1>3, <1>4, <1>5

(* A location holds the number the gates keep there.                       *)
LEMMA MemoryIs ==
    ASSUME NEW ram, NEW screen, NEW l \in BusStored
    PROVE  MemoryOf(ram, screen)[NumberOf(l)] = AsNumber(BusMemoryOf(ram, screen)[l])
  <1>1. PICK n \in Stored : n = NumberOf(l)
    BY LocationsCover
  <1>2. l \in Locations /\ ~(l[WordSize - 3] /\ l[WordSize - 2])
    BY DEF BusStored, Locations
  <1>3. CASE l[WordSize - 2]
    <2>1. n >= RAMSize /\ n - RAMSize \in 0..(ScreenSize - 1)
             /\ ScreenBus[n - RAMSize] = Low(l, WordSize - 3)
      BY <1>1, <1>2, <1>3, LocationNumber
    <2>2. ~(n < RAMSize)
      <3>1. n \in Nat
        BY <1>1, <1>2, LocationNumber
      <3> QED
        BY <2>1, <3>1, MemorySizes
    <2> QED
      BY <1>1, <1>3, <2>1, <2>2 DEF MemoryOf, BusMemoryOf
  <1>4. CASE ~l[WordSize - 2]
    <2>1. n \in 0..(RAMSize - 1) /\ RAMBus[n] = Low(l, WordSize - 2)
      BY <1>1, <1>2, <1>4, LocationNumber
    <2>2. n < RAMSize
      BY <2>1, MemorySizes
    <2> QED
      BY <1>1, <1>4, <2>1, <2>2 DEF MemoryOf, BusMemoryOf
  <1> QED
    BY <1>3, <1>4

(* A store changes one number of the memory.                               *)
LEMMA MemoryMaps ==
    ASSUME NEW ram, NEW screen, NEW ram2, NEW screen2
    PROVE  /\ BusMemoryOf(ram2, screen2) = BusMemoryOf(ram, screen)
                => MemoryOf(ram2, screen2) = MemoryOf(ram, screen)
           /\ \A here \in BusStored : \A in :
                BusMemoryOf(ram2, screen2) = [BusMemoryOf(ram, screen) EXCEPT ![here] = in]
                => MemoryOf(ram2, screen2)
                     = [MemoryOf(ram, screen) EXCEPT ![NumberOf(here)] = AsNumber(in)]
  <1> DEFINE old == BusMemoryOf(ram, screen)
             new == BusMemoryOf(ram2, screen2)
             Old == MemoryOf(ram, screen)
             New == MemoryOf(ram2, screen2)
  <1>1. Old = [n \in Stored |-> Old[n]] /\ New = [n \in Stored |-> New[n]]
    BY DEF MemoryOf
  <1>2. old = [l \in BusStored |-> old[l]]
    BY DEF BusMemoryOf
  <1>3. \A l \in BusStored : Old[NumberOf(l)] = AsNumber(old[l]) /\ New[NumberOf(l)] = AsNumber(new[l])
    BY MemoryIs
  <1> HIDE DEF old, new, Old, New
  <1>4. ASSUME new = old PROVE New = Old
    <2>1. \A n \in Stored : New[n] = Old[n]
      BY <1>3, <1>4, LocationsCover
    <2> QED
      BY <1>1, <2>1
  <1>5. ASSUME NEW here \in BusStored, NEW in, new = [old EXCEPT ![here] = in]
        PROVE  New = [Old EXCEPT ![NumberOf(here)] = AsNumber(in)]
    <2>1. ASSUME NEW n \in Stored
          PROVE  New[n] = IF n = NumberOf(here) THEN AsNumber(in) ELSE Old[n]
      <3>1. PICK l \in BusStored : NumberOf(l) = n
        BY LocationsCover
      <3>2. new[l] = IF l = here THEN in ELSE old[l]
        BY <1>2, <1>5
      <3>3. l = here <=> n = NumberOf(here)
        BY <3>1, LocationsCover
      <3> QED
        BY <1>3, <3>1, <3>2, <3>3
    <2> QED
      BY <1>1, <2>1
  <1> QED
    BY <1>4, <1>5 DEF old, new, Old, New

-----------------------------------------------------------------------------
(* A step of the machine on words is one on numbers.                       *)

LEMMA MemoriesAre ==
    /\ memory = MemoryOf(RAM16K, Screen) /\ BusMemory = BusMemoryOf(RAM16K, Screen)
    /\ memory' = MemoryOf(RAM16K', Screen') /\ BusMemory' = BusMemoryOf(RAM16K', Screen')
  BY DEF memory, MemoryOf, BusMemory, BusMemoryOf, AsNumber

LEMMA LocationIs ==
    ASSUME NEW a \in Word
    PROVE  /\ Location(AsNumber(a)) = NumberOf(BusLocation(a))
           /\ Location(AsNumber(a)) \in Stored <=> BusLocation(a) \in BusStored
  <1>1. BusLocation(a) \in Locations
    BY AddressTypes DEF Locations
  <1>2. Number(BusLocation(a), WordSize - 1) = Number(a, WordSize - 1)
    <2>1. PICK w \in 0..16 : w = WordSize - 1 /\ w \in 0..w
      <3>1. WordSize - 1 \in 0..16 /\ WordSize - 1 \in 0..(WordSize - 1)
        BY WordSizes
      <3> QED
        BY <3>1
    <2>2. \A i \in 0..(w - 1) : BusLocation(a)[i] = a[i]
      BY <2>1 DEF BusLocation, Low
    <2> QED
      BY <2>1, <2>2, NumberAgrees
  <1>3. Location(AsNumber(a)) = NumberOf(BusLocation(a))
    BY <1>2, ValueIs DEF NumberOf
  <1> QED
    BY <1>1, <1>3, LocationNumber

(* What A addresses, as a number.                                          *)
LEMMA ReadsAre ==
    ASSUME TypeOK
    PROVE  Machine!M \in Word /\ Documented!M = AsNumber(Machine!M)
  <1> DEFINE l == BusLocation(ARegister)
  <1>1. ARegister \in Word /\ Keyboard \in Word
    BY DEF TypeOK
  <1>2. Machine!M \in Word
    <2>1. MemoryOut(ARegister) \in Word
      BY Mux16Word DEF MemoryOut
    <2> QED
      BY <2>1, MemoryRead
  <1>3. Machine!M = IF l \in BusStored THEN BusMemory[l] ELSE Keyboard
    BY DEF Machine!M
  <1>4. Documented!M = IF Location(AsNumber(ARegister)) \in Stored
                       THEN memory[Location(AsNumber(ARegister))] ELSE AsNumber(Keyboard)
    BY DEF Documented!M, AsNumber
  <1>5. l \in BusStored => memory[NumberOf(l)] = AsNumber(BusMemory[l])
    BY MemoriesAre, MemoryIs
  <1>6. Location(AsNumber(ARegister)) = NumberOf(l)
        /\ (Location(AsNumber(ARegister)) \in Stored <=> l \in BusStored)
    BY <1>1, LocationIs
  <1> HIDE DEF l
  <1> QED
    BY <1>2, <1>3, <1>4, <1>5, <1>6

LEMMA NumberLoad ==
    ASSUME TypeOK, NEW instr \in AInstruction, NEW reset \in BOOLEAN,
           Machine!Load(instr, reset)
    PROVE  Documented!Load(instr, reset)
  <1>1. instr.op = "A" /\ instr.value \in 0..(MAX_VALUE - 1)
    BY DEF AInstruction
  <1>2. ARegister' = BusImmediate(instr.value) /\ UNCHANGED <<DRegister, BusMemory>>
        /\ PC' = IF reset THEN Off ELSE Inc16(PC)
    BY DEF Machine!Load, Machine!Continue
  <1>3. AsNumber(ARegister') = instr.value
    BY <1>1, <1>2, ValueImmediate
  <1>4. AsNumber(PC') = IF reset THEN 0 ELSE Successor(AsNumber(PC))
    BY <1>2, ValueOff, ValueInc DEF TypeOK, Successor, Wrap
  <1>5. memory' = memory
    <2>1. BusMemoryOf(RAM16K', Screen') = BusMemoryOf(RAM16K, Screen)
      BY <1>2, MemoriesAre
    <2>2. MemoryOf(RAM16K', Screen') = MemoryOf(RAM16K, Screen)
      BY <2>1, MemoryMaps
    <2> QED
      BY <2>2, MemoriesAre
  <1> QED
    BY <1>1, <1>2, <1>3, <1>4, <1>5
    DEF Documented!Load, Documented!Continue, AsNumber, Immediate

LEMMA NumberOperate ==
    ASSUME TypeOK, NEW instr \in CInstruction, NEW reset \in BOOLEAN,
           Machine!Operate(instr, reset)
    PROVE  Documented!Operate(instr, reset)
  <1> DEFINE out == BusCompute(instr.comp, DRegister, ARegister, Machine!M)
             result == Compute(instr.comp, AsNumber(DRegister), AsNumber(ARegister), Documented!M)
             l == BusLocation(ARegister)
  <1>1. instr.op = "C" /\ instr.comp \in Computations /\ instr.jump \in JumpNames
    BY DEF CInstruction
  <1>2. ARegister \in Word /\ DRegister \in Word /\ PC \in Word
    BY DEF TypeOK
  <1>3. out \in Word /\ AsNumber(out) = result
    <2>1. out \in Word
      BY ALUWord DEF BusCompute
    <2> QED
      BY <1>1, <1>2, <2>1, ReadsAre, ALUComputes
  <1>4. /\ ARegister' = IF "A" \in instr.dest THEN out ELSE ARegister
        /\ DRegister' = IF "D" \in instr.dest THEN out ELSE DRegister
        /\ BusMemory' = IF "M" \in instr.dest /\ l \in BusStored
                        THEN [BusMemory EXCEPT ![l] = out] ELSE BusMemory
        /\ PC' = IF reset THEN Off ELSE IF Machine!Jumps(instr.jump, out) THEN ARegister ELSE Inc16(PC)
    BY DEF Machine!Operate, Machine!Continue
  <1> HIDE DEF out, result
  <1>5. Machine!Jumps(instr.jump, out) <=> Documented!Jumps(instr.jump, result)
    BY <1>3, FlagsAre DEF Machine!Jumps, Documented!Jumps
  <1>6. AsNumber(PC') = IF reset THEN 0
                     ELSE IF Documented!Jumps(instr.jump, result) THEN AsNumber(ARegister)
                     ELSE Successor(AsNumber(PC))
    BY <1>2, <1>4, <1>5, ValueOff, ValueInc DEF Successor, Wrap
  <1>7. AsNumber(ARegister') = (IF "A" \in instr.dest THEN result ELSE AsNumber(ARegister))
        /\ AsNumber(DRegister') = (IF "D" \in instr.dest THEN result ELSE AsNumber(DRegister))
    BY <1>3, <1>4
  <1>8. memory' = IF "M" \in instr.dest /\ Location(AsNumber(ARegister)) \in Stored
                  THEN [memory EXCEPT ![Location(AsNumber(ARegister))] = result] ELSE memory
    <2>1. Location(AsNumber(ARegister)) = NumberOf(l)
          /\ (Location(AsNumber(ARegister)) \in Stored <=> l \in BusStored)
      BY <1>2, LocationIs
    <2> HIDE DEF l
    <2>2. CASE "M" \in instr.dest /\ l \in BusStored
      <3>1. BusMemoryOf(RAM16K', Screen') = [BusMemoryOf(RAM16K, Screen) EXCEPT ![l] = out]
        BY <1>4, <2>2, MemoriesAre
      <3>2. MemoryOf(RAM16K', Screen')
              = [MemoryOf(RAM16K, Screen) EXCEPT ![NumberOf(l)] = AsNumber(out)]
        BY <2>2, <3>1, MemoryMaps
      <3> QED
        BY <1>3, <2>1, <2>2, <3>2, MemoriesAre
    <2>3. CASE ~("M" \in instr.dest /\ l \in BusStored)
      <3>1. BusMemoryOf(RAM16K', Screen') = BusMemoryOf(RAM16K, Screen)
        BY <1>4, <2>3, MemoriesAre
      <3>2. MemoryOf(RAM16K', Screen') = MemoryOf(RAM16K, Screen)
        BY <3>1, MemoryMaps
      <3> QED
        BY <2>1, <2>3, <3>2, MemoriesAre
    <2> QED
      BY <2>2, <2>3
  <1>9. Documented!Operate(instr, reset) <=>
          /\ instr.op = "C"
          /\ AsNumber(ARegister') = IF "A" \in instr.dest THEN result ELSE AsNumber(ARegister)
          /\ AsNumber(DRegister') = IF "D" \in instr.dest THEN result ELSE AsNumber(DRegister)
          /\ memory' = IF "M" \in instr.dest /\ Location(AsNumber(ARegister)) \in Stored
                       THEN [memory EXCEPT ![Location(AsNumber(ARegister))] = result] ELSE memory
          /\ AsNumber(PC') = IF reset THEN 0
                          ELSE IF Documented!Jumps(instr.jump, result) THEN AsNumber(ARegister)
                          ELSE Successor(AsNumber(PC))
    BY DEF Documented!Operate, Documented!Continue, result, AsNumber
  <1> QED
    BY <1>1, <1>6, <1>7, <1>8, <1>9

(* A step on words is one on numbers.                                      *)
LEMMA NumberStep ==
    ASSUME TypeOK, Machine!Step
    PROVE  Documented!Step
  <1> DEFINE instr == BusFetch(program, PC)
  <1>1. PICK reset \in Resets : Machine!Load(instr, reset) \/ Machine!Operate(instr, reset)
    BY DEF Machine!Step
  <1>2. UNCHANGED <<program, Keyboard>>
    BY DEF Machine!Step
  <1>3. reset \in BOOLEAN
    BY ProgramsAssumption
  <1>4. instr \in AInstruction \cup CInstruction
    BY Fetching DEF Fetched
  <1>5. Fetch(program, AsNumber(PC)) = instr
    <2>1. program \in Seq(AInstruction \cup CInstruction) /\ PC \in Word
      BY ProgramsAssumption DEF TypeOK
    <2> QED
      BY <2>1, FetchIs
  <1> HIDE DEF instr
  <1>6. Documented!Load(instr, reset) \/ Documented!Operate(instr, reset)
    <2>1. CASE Machine!Load(instr, reset)
      <3>1. instr \in AInstruction
        BY <1>4, <2>1 DEF Machine!Load, CInstruction
      <3> QED
        BY <1>3, <2>1, <3>1, NumberLoad
    <2>2. CASE Machine!Operate(instr, reset)
      <3>1. instr \in CInstruction
        BY <1>4, <2>2 DEF Machine!Operate, AInstruction
      <3> QED
        BY <1>3, <2>2, <3>1, NumberOperate
    <2> QED
      BY <1>1, <2>1, <2>2
  <1> QED
    BY <1>2, <1>5, <1>6 DEF Documented!Step, AsNumber

LEMMA NumberInit == Init => Documented!Init
  <1> SUFFICES ASSUME Init PROVE Documented!Init
    OBVIOUS
  <1>1. program \in Programs /\ ARegister = Off /\ DRegister = Off /\ PC = Off /\ Keyboard = Off
    BY DEF Init
  <1>2. BusMemory = [l \in BusStored |-> Off]
    BY MachineInit DEF Machine!Init
  <1>3. memory = [n \in Stored |-> 0]
    <2>1. \A n \in Stored : memory[n] = 0
      <3> TAKE n \in Stored
      <3>1. PICK l \in BusStored : NumberOf(l) = n
        BY LocationsCover
      <3>2. memory[NumberOf(l)] = AsNumber(BusMemory[l])
        BY MemoriesAre, MemoryIs
      <3> QED
        BY <1>2, <3>1, <3>2, ValueOff
    <2>2. memory = [n \in Stored |-> memory[n]]
      BY DEF memory
    <2> QED
      BY <2>1, <2>2
  <1> QED
    BY <1>1, <1>3, ValueOff DEF Documented!Init, AsNumber

(* The gates do what the documentation of the chips says, in numbers: each *)
(* cycle executes one instruction of the program as its mnemonic spells it *)
(* (ImplementsISA).                                                        *)
THEOREM ComputerImplementsISA == Spec => ImplementsISA
  <1>1. TypeOK /\ [Next]_vars => [Documented!Next]_Documented!vars
    <2> SUFFICES ASSUME TypeOK, [Next]_vars PROVE [Documented!Next]_Documented!vars
      OBVIOUS
    <2>1. ASSUME NEW reset \in Resets, Tick(reset) PROVE Documented!Next
      BY <2>1, MachineStep, NumberStep DEF Documented!Next
    <2>2. CASE KeyChange
      <3>1. memory' = memory /\ UNCHANGED <<program, ARegister, DRegister, PC>>
        BY <2>2, MemoriesAre DEF KeyChange
      <3>2. Number(Keyboard', WordSize) \in {Number(k, WordSize) : k \in Keys}
        BY <2>2 DEF KeyChange
      <3> QED
        BY <3>1, <3>2 DEF Documented!Next, Documented!Key
    <2>3. CASE UNCHANGED vars
      <3>1. memory' = memory
        BY <2>3, MemoriesAre DEF vars
      <3> QED
        BY <2>3, <3>1 DEF vars, Documented!vars
    <2> QED
      BY <2>1, <2>2, <2>3 DEF Next, Clock
  <1> QED
    BY <1>1, NumberInit, TypeCorrect, PTL DEF Spec, ImplementsISA, Documented!Spec

-----------------------------------------------------------------------------
(* What the assembler makes of the text.                                   *)

(* The text, line by line.                                                 *)
LEMMA SourceLines ==
    /\ Len(Source) = 55 /\ DOMAIN Source = 1..55
    /\ Source[1] = SymbolicA("color")        /\ Source[2] = Assign({"M"}, "0")
    /\ Source[3] = Label("EVENT_LOOP")       /\ Source[4] = SymbolicA("KBD")
    /\ Source[5] = Assign({"D"}, "M")        /\ Source[6] = SymbolicA("KEY_PRESSED")
    /\ Source[7] = JumpIf("D", "JNE")        /\ Source[8] = SymbolicA("KEY_NOT_PRESSED")
    /\ Source[9] = JumpIf("0", "JMP")        /\ Source[10] = Label("KEY_PRESSED")
    /\ Source[11] = SymbolicA("color")       /\ Source[12] = Assign({"D"}, "M+1")
    /\ Source[13] = SymbolicA("EVENT_LOOP")  /\ Source[14] = JumpIf("D", "JEQ")
    /\ Source[15] = SymbolicA("color")       /\ Source[16] = Assign({"M"}, "-1")
    /\ Source[17] = SymbolicA("COLOR_SCREEN") /\ Source[18] = JumpIf("0", "JMP")
    /\ Source[19] = Label("KEY_NOT_PRESSED") /\ Source[20] = SymbolicA("color")
    /\ Source[21] = Assign({"D"}, "M")       /\ Source[22] = SymbolicA("EVENT_LOOP")
    /\ Source[23] = JumpIf("D", "JEQ")       /\ Source[24] = SymbolicA("color")
    /\ Source[25] = Assign({"M"}, "0")       /\ Source[26] = SymbolicA("COLOR_SCREEN")
    /\ Source[27] = JumpIf("0", "JMP")       /\ Source[28] = Label("COLOR_SCREEN")
    /\ Source[29] = SymbolicA("SCREEN")      /\ Source[30] = Assign({"D"}, "A")
    /\ Source[31] = SymbolicA("i")           /\ Source[32] = Assign({"M"}, "D")
    /\ Source[33] = NumericA(ScreenWords)    /\ Source[34] = Assign({"D"}, "D+A")
    /\ Source[35] = SymbolicA("end")         /\ Source[36] = Assign({"M"}, "D")
    /\ Source[37] = Label("COLOR_SCREEN_LOOP") /\ Source[38] = SymbolicA("i")
    /\ Source[39] = Assign({"D"}, "M")       /\ Source[40] = SymbolicA("end")
    /\ Source[41] = Assign({"D"}, "D-M")     /\ Source[42] = SymbolicA("COLOR_SCREEN_DONE")
    /\ Source[43] = JumpIf("D", "JGE")       /\ Source[44] = SymbolicA("color")
    /\ Source[45] = Assign({"D"}, "M")       /\ Source[46] = SymbolicA("i")
    /\ Source[47] = Assign({"A"}, "M")       /\ Source[48] = Assign({"M"}, "D")
    /\ Source[49] = SymbolicA("i")           /\ Source[50] = Assign({"M"}, "M+1")
    /\ Source[51] = SymbolicA("COLOR_SCREEN_LOOP") /\ Source[52] = JumpIf("0", "JMP")
    /\ Source[53] = Label("COLOR_SCREEN_DONE") /\ Source[54] = SymbolicA("EVENT_LOOP")
    /\ Source[55] = JumpIf("0", "JMP")
  BY DEF Source, EventLoop, KeyPressed, KeyNotPressed, ColorScreen, ColorScreenLoop, goto

LabelLines == {3, 10, 19, 28, 37, 53}

(* The kinds of lines apart.                                               *)
LEMMA LineKinds ==
    /\ \A s : SymbolicA(s).op = "symbol" /\ SymbolicA(s).name = s
    /\ \A s : Label(s).op = "label" /\ Label(s).name = s
    /\ \A n : NumericA(n).op = "number" /\ NumericA(n).value = n
    /\ \A dest, comp : Assign(dest, comp).op = "C"
    /\ \A comp, jump : JumpIf(comp, jump).op = "C"
  BY DEF SymbolicA, Label, NumericA, Assign, JumpIf, C

(* The kind of each line and the symbol it names.                          *)
LEMMA LineFields ==
    /\ Source[1].op = "symbol" /\ Source[1].name = "color"
    /\ Source[2].op = "C"
    /\ Source[3].op = "label" /\ Source[3].name = "EVENT_LOOP"
    /\ Source[4].op = "symbol" /\ Source[4].name = "KBD"
    /\ Source[5].op = "C"
    /\ Source[6].op = "symbol" /\ Source[6].name = "KEY_PRESSED"
    /\ Source[7].op = "C"
    /\ Source[8].op = "symbol" /\ Source[8].name = "KEY_NOT_PRESSED"
    /\ Source[9].op = "C"
    /\ Source[10].op = "label" /\ Source[10].name = "KEY_PRESSED"
    /\ Source[11].op = "symbol" /\ Source[11].name = "color"
    /\ Source[12].op = "C"
    /\ Source[13].op = "symbol" /\ Source[13].name = "EVENT_LOOP"
    /\ Source[14].op = "C"
    /\ Source[15].op = "symbol" /\ Source[15].name = "color"
    /\ Source[16].op = "C"
    /\ Source[17].op = "symbol" /\ Source[17].name = "COLOR_SCREEN"
    /\ Source[18].op = "C"
    /\ Source[19].op = "label" /\ Source[19].name = "KEY_NOT_PRESSED"
    /\ Source[20].op = "symbol" /\ Source[20].name = "color"
    /\ Source[21].op = "C"
    /\ Source[22].op = "symbol" /\ Source[22].name = "EVENT_LOOP"
    /\ Source[23].op = "C"
    /\ Source[24].op = "symbol" /\ Source[24].name = "color"
    /\ Source[25].op = "C"
    /\ Source[26].op = "symbol" /\ Source[26].name = "COLOR_SCREEN"
    /\ Source[27].op = "C"
    /\ Source[28].op = "label" /\ Source[28].name = "COLOR_SCREEN"
    /\ Source[29].op = "symbol" /\ Source[29].name = "SCREEN"
    /\ Source[30].op = "C"
    /\ Source[31].op = "symbol" /\ Source[31].name = "i"
    /\ Source[32].op = "C"
    /\ Source[33].op = "number"
    /\ Source[34].op = "C"
    /\ Source[35].op = "symbol" /\ Source[35].name = "end"
    /\ Source[36].op = "C"
    /\ Source[37].op = "label" /\ Source[37].name = "COLOR_SCREEN_LOOP"
    /\ Source[38].op = "symbol" /\ Source[38].name = "i"
    /\ Source[39].op = "C"
    /\ Source[40].op = "symbol" /\ Source[40].name = "end"
    /\ Source[41].op = "C"
    /\ Source[42].op = "symbol" /\ Source[42].name = "COLOR_SCREEN_DONE"
    /\ Source[43].op = "C"
    /\ Source[44].op = "symbol" /\ Source[44].name = "color"
    /\ Source[45].op = "C"
    /\ Source[46].op = "symbol" /\ Source[46].name = "i"
    /\ Source[47].op = "C"
    /\ Source[48].op = "C"
    /\ Source[49].op = "symbol" /\ Source[49].name = "i"
    /\ Source[50].op = "C"
    /\ Source[51].op = "symbol" /\ Source[51].name = "COLOR_SCREEN_LOOP"
    /\ Source[52].op = "C"
    /\ Source[53].op = "label" /\ Source[53].name = "COLOR_SCREEN_DONE"
    /\ Source[54].op = "symbol" /\ Source[54].name = "EVENT_LOOP"
    /\ Source[55].op = "C"
  BY SourceLines, LineKinds

(* Every line that is not a label is an instruction.                       *)
LEMMA Instructing == \A i \in 1..55 : IsInstruction(Source[i]) <=> i \notin LabelLines
  BY LineFields DEF IsInstruction, LabelLines

(* What the labels are, and where.                                         *)
LEMMA LabelsOf ==
    ASSUME NEW i \in 1..55, NEW s
    PROVE  Source[i] = Label(s) <=>
             \/ i = 3 /\ s = "EVENT_LOOP"
             \/ i = 10 /\ s = "KEY_PRESSED"
             \/ i = 19 /\ s = "KEY_NOT_PRESSED"
             \/ i = 28 /\ s = "COLOR_SCREEN"
             \/ i = 37 /\ s = "COLOR_SCREEN_LOOP"
             \/ i = 53 /\ s = "COLOR_SCREEN_DONE"
  <1>1. Label(s).op = "label" /\ Label(s).name = s
    BY LineKinds
  <1>2. ASSUME Source[i] = Label(s)
        PROVE  \/ i = 3 /\ s = "EVENT_LOOP"
               \/ i = 10 /\ s = "KEY_PRESSED"
               \/ i = 19 /\ s = "KEY_NOT_PRESSED"
               \/ i = 28 /\ s = "COLOR_SCREEN"
               \/ i = 37 /\ s = "COLOR_SCREEN_LOOP"
               \/ i = 53 /\ s = "COLOR_SCREEN_DONE"
    <2>1. Source[i].op = "label" /\ Source[i].name = s
      BY <1>1, <1>2
    <2> QED
      BY <2>1, LineFields
  <1> QED
    BY <1>2, SourceLines

(* What the symbols of the instructions are, and where the last two        *)
(* variables come up first.                                                *)
LEMMA SymbolsOf ==
    ASSUME NEW j \in 1..55, NEW s, Source[j] = SymbolicA(s)
    PROVE  /\ s \in {"color", "i", "end", "SCREEN", "KBD", "EVENT_LOOP", "KEY_PRESSED",
                     "KEY_NOT_PRESSED", "COLOR_SCREEN", "COLOR_SCREEN_LOOP",
                     "COLOR_SCREEN_DONE"}
           /\ s = "i" => j >= 31
           /\ s = "end" => j >= 35
  <1>1. SymbolicA(s).op = "symbol" /\ SymbolicA(s).name = s
    BY LineKinds
  <1>2. Source[j].op = "symbol" /\ Source[j].name = s
    BY <1>1
  <1> QED
    BY <1>2, LineFields

\* The labels before a line.
Skipped(i) ==
    IF i <= 3 THEN 0 ELSE IF i <= 10 THEN 1 ELSE IF i <= 19 THEN 2
    ELSE IF i <= 28 THEN 3 ELSE IF i <= 37 THEN 4 ELSE IF i <= 53 THEN 5 ELSE 6

(* The ROM address of each line.                                           *)
LEMMA RomAddresses == \A i \in 1..56 : RomAddress(Source, i) = (i - 1) - Skipped(i)
  <1> DEFINE Before(n) == {j \in 1..n : IsInstruction(Source[j])}
             S == {n \in 0..55 : IsFiniteSet(Before(n))
                                 /\ Cardinality(Before(n)) = n - Skipped(n + 1)}
  <1>1. 0 \in S
    <2>1. Before(0) = {}
      OBVIOUS
    <2>2. IsFiniteSet({}) /\ Cardinality({}) = 0
      BY FS_EmptySet
    <2> HIDE DEF Before
    <2> QED
      BY <2>1, <2>2 DEF Skipped
  <1>2. ASSUME NEW n \in 0..55, n \in S, n + 1 \in 0..55 PROVE n + 1 \in S
    <2>1. n + 1 \in 1..55 /\ n \in Nat
      BY <1>2
    <2>2. IsFiniteSet(Before(n)) /\ Cardinality(Before(n)) = n - Skipped(n + 1)
      BY <1>2
    <2>3. CASE n + 1 \in LabelLines
      <3>1. Before(n + 1) = Before(n)
        BY <2>1, <2>3, Instructing
      <3>2. Skipped((n + 1) + 1) = Skipped(n + 1) + 1
        BY <2>1, <2>3 DEF LabelLines, Skipped
      <3>3. Skipped(n + 1) \in 0..6
        BY <2>1 DEF Skipped
      <3> HIDE DEF Before
      <3> QED
        BY <2>1, <2>2, <3>1, <3>2, <3>3
    <2>4. CASE n + 1 \notin LabelLines
      <3>1. Before(n + 1) = Before(n) \cup {n + 1} /\ n + 1 \notin Before(n)
        BY <2>1, <2>4, Instructing
      <3>2. Skipped((n + 1) + 1) = Skipped(n + 1)
        BY <2>1, <2>4 DEF LabelLines, Skipped
      <3>3. Skipped(n + 1) \in 0..6
        BY <2>1 DEF Skipped
      <3> HIDE DEF Before
      <3>4. /\ IsFiniteSet(Before(n + 1))
            /\ Cardinality(Before(n + 1)) = Cardinality(Before(n)) + 1
        BY <2>2, <3>1, FS_AddElement
      <3> QED
        BY <2>1, <2>2, <3>2, <3>3, <3>4
    <2> QED
      BY <2>3, <2>4
  <1>3. 0..55 \subseteq S
    <2> HIDE DEF S
    <2> QED
      BY <1>1, <1>2, UpTo
  <1> TAKE i \in 1..56
  <1>4. i - 1 \in S /\ (i - 1) + 1 = i
    <2>1. i - 1 \in 0..55 /\ (i - 1) + 1 = i
      OBVIOUS
    <2> HIDE DEF S
    <2> QED
      BY <1>3, <2>1
  <1> QED
    BY <1>4 DEF RomAddress

\* The line of the n-th instruction.
LineOf(n) ==
    n + (IF n <= 2 THEN 0 ELSE IF n <= 8 THEN 1 ELSE IF n <= 16 THEN 2
         ELSE IF n <= 24 THEN 3 ELSE IF n <= 32 THEN 4 ELSE IF n <= 47 THEN 5 ELSE 6)

(* The text makes 49 instructions, and which line each of them is.         *)
LEMMA LinesLoaded ==
    /\ RomAddress(Source, 56) = 49
    /\ \A n \in 1..49 : InstructionAt(Source, n - 1) = LineOf(n)
  <1>1. RomAddress(Source, 56) = 49
    BY RomAddresses DEF Skipped
  <1> SUFFICES ASSUME NEW n \in 1..49 PROVE InstructionAt(Source, n - 1) = LineOf(n)
    BY <1>1
  <1>2. \A i \in 1..55 :
           IsInstruction(Source[i]) /\ RomAddress(Source, i) = n - 1 <=> i = LineOf(n)
    BY RomAddresses, Instructing DEF LabelLines, Skipped, LineOf
  <1>3. LineOf(n) \in 1..55
    BY DEF LineOf
  <1>4. DOMAIN Source = 1..55
    BY SourceLines
  <1> QED
    BY <1>2, <1>3, <1>4 DEF InstructionAt

LabelNames == {"EVENT_LOOP", "KEY_PRESSED", "KEY_NOT_PRESSED",
               "COLOR_SCREEN", "COLOR_SCREEN_LOOP", "COLOR_SCREEN_DONE"}

(* The labels of the program.                                              *)
LEMMA LabelsAre == Labels = LabelNames
  <1>1. DOMAIN Source = 1..55
    BY SourceLines
  <1>2. LabelNames \subseteq Symbol
    BY FillAssumption DEF LabelNames
  <1>3. \A s : (\E i \in 1..55 : Source[i] = Label(s)) <=> s \in LabelNames
    BY LabelsOf DEF LabelNames
  <1> QED
    BY <1>1, <1>2, <1>3 DEF Labels, Declared

(* The variables of the program.                                           *)
LEMMA NamesAre == Names = {"color", "i", "end"}
  <1>1. DOMAIN Source = 1..55
    BY SourceLines
  <1>2. {"color", "i", "end"} \subseteq Symbol
    BY FillAssumption
  <1>3. /\ {"color", "i", "end"} \cap DOMAIN PredefinedSymbols = {}
        /\ "SCREEN" \in DOMAIN PredefinedSymbols /\ "KBD" \in DOMAIN PredefinedSymbols
    BY DEF PredefinedSymbols
  <1>4. \A s : (\E i \in 1..55 : Source[i] = SymbolicA(s))
              => s \in LabelNames \cup {"color", "i", "end", "SCREEN", "KBD"}
    BY SymbolsOf DEF LabelNames
  <1>5. \A s \in {"color", "i", "end"} : \E i \in 1..55 : Source[i] = SymbolicA(s)
    BY SourceLines
  <1>6. Declared(Source) = LabelNames
    BY LabelsAre DEF Labels
  <1>7. {"color", "i", "end"} \cap LabelNames = {}
    BY DEF LabelNames
  <1> QED
    BY <1>1, <1>2, <1>3, <1>4, <1>5, <1>6, <1>7 DEF Names, Variables

(* Each label is the ROM address of the line after it.                     *)
LEMMA LabelAddresses ==
    /\ LabelAddress(Source, "EVENT_LOOP") = 2
    /\ LabelAddress(Source, "KEY_PRESSED") = 8
    /\ LabelAddress(Source, "KEY_NOT_PRESSED") = 16
    /\ LabelAddress(Source, "COLOR_SCREEN") = 24
    /\ LabelAddress(Source, "COLOR_SCREEN_LOOP") = 32
    /\ LabelAddress(Source, "COLOR_SCREEN_DONE") = 47
  <1>1. DOMAIN Source = 1..55 /\ Len(Source) = 55
    BY SourceLines
  <1>2. ASSUME NEW s, NEW k \in 1..55, \A i \in 1..55 : Source[i] = Label(s) <=> i = k
        PROVE  LabelAddress(Source, s) = (k - 1) - Skipped(k)
    <2>1. \A i \in 1..55 : DeclaresLast(Source, 55, i, s) <=> i = k
      BY <1>2 DEF DeclaresLast
    <2>2. LabelAddress(Source, s) = RomAddress(Source, k)
      BY <1>1, <2>1 DEF LabelAddress
    <2> QED
      BY <2>2, RomAddresses
  <1>3. /\ \A i \in 1..55 : Source[i] = Label("EVENT_LOOP") <=> i = 3
        /\ \A i \in 1..55 : Source[i] = Label("KEY_PRESSED") <=> i = 10
        /\ \A i \in 1..55 : Source[i] = Label("KEY_NOT_PRESSED") <=> i = 19
        /\ \A i \in 1..55 : Source[i] = Label("COLOR_SCREEN") <=> i = 28
        /\ \A i \in 1..55 : Source[i] = Label("COLOR_SCREEN_LOOP") <=> i = 37
        /\ \A i \in 1..55 : Source[i] = Label("COLOR_SCREEN_DONE") <=> i = 53
    BY LabelsOf
  <1>4. /\ LabelAddress(Source, "EVENT_LOOP") = (3 - 1) - Skipped(3)
        /\ LabelAddress(Source, "KEY_PRESSED") = (10 - 1) - Skipped(10)
        /\ LabelAddress(Source, "KEY_NOT_PRESSED") = (19 - 1) - Skipped(19)
        /\ LabelAddress(Source, "COLOR_SCREEN") = (28 - 1) - Skipped(28)
        /\ LabelAddress(Source, "COLOR_SCREEN_LOOP") = (37 - 1) - Skipped(37)
        /\ LabelAddress(Source, "COLOR_SCREEN_DONE") = (53 - 1) - Skipped(53)
    BY <1>2, <1>3
  <1> QED
    BY <1>4 DEF Skipped

(* The variables get addresses in the order of their first use.            *)
LEMMA VariableAddresses ==
    /\ VariableAddress(Source, "color") = VARIABLE_START
    /\ VariableAddress(Source, "i") = VARIABLE_START + 1
    /\ VariableAddress(Source, "end") = VARIABLE_START + 2
  <1>1. DOMAIN Source = 1..55
    BY SourceLines
  <1>2. /\ FirstUse(Source, "color") = 1
        /\ FirstUse(Source, "i") = 31
        /\ FirstUse(Source, "end") = 35
    <2>1. ASSUME NEW s, NEW k \in 1..55, Source[k] = SymbolicA(s),
                 \A j \in 1..55 : Source[j] = SymbolicA(s) => j >= k
          PROVE  FirstUse(Source, s) = k
      <3>1. \A i \in 1..55 : (/\ Source[i] = SymbolicA(s)
                             /\ \A j \in 1..(i - 1) : Source[j] # SymbolicA(s)) <=> i = k
        BY <2>1
      <3> QED
        BY <1>1, <3>1 DEF FirstUse
    <2>2. /\ \A j \in 1..55 : Source[j] = SymbolicA("color") => j >= 1
          /\ \A j \in 1..55 : Source[j] = SymbolicA("i") => j >= 31
          /\ \A j \in 1..55 : Source[j] = SymbolicA("end") => j >= 35
      BY SymbolsOf
    <2>3. Source[1] = SymbolicA("color") /\ Source[31] = SymbolicA("i")
          /\ Source[35] = SymbolicA("end")
      BY SourceLines
    <2> QED
      BY <2>1, <2>2, <2>3
  <1>3. Variables(Source) = {"color", "i", "end"}
    BY NamesAre DEF Names
  <1> DEFINE Earlier(s) ==
                 {t \in Variables(Source) : FirstUse(Source, t) < FirstUse(Source, s)}
  <1>4. /\ Earlier("color") = {} /\ Earlier("i") = {"color"}
        /\ Earlier("end") = {"color"} \cup {"i"}
    BY <1>2, <1>3
  <1>5. /\ Cardinality(Earlier("color")) = 0
        /\ Cardinality(Earlier("i")) = 1
        /\ Cardinality(Earlier("end")) = 2
    <2>1. IsFiniteSet({"color"}) /\ Cardinality({"color"}) = 1
      BY FS_Singleton
    <2>2. Cardinality({"color"} \cup {"i"}) = Cardinality({"color"}) + 1
      BY <2>1, FS_AddElement
    <2> QED
      BY <1>4, <2>1, <2>2, FS_EmptySet
  <1>6. \A s : VariableAddress(Source, s) = VARIABLE_START + Cardinality(Earlier(s))
    BY DEF VariableAddress
  <1> HIDE DEF Earlier
  <1> QED
    BY <1>5, <1>6, BoundsAssumption

(* The address of every symbol of the program.                             *)
LEMMA Addresses ==
    /\ Address(Source, "EVENT_LOOP") = 2
    /\ Address(Source, "KEY_PRESSED") = 8
    /\ Address(Source, "KEY_NOT_PRESSED") = 16
    /\ Address(Source, "COLOR_SCREEN") = 24
    /\ Address(Source, "COLOR_SCREEN_LOOP") = 32
    /\ Address(Source, "COLOR_SCREEN_DONE") = 47
    /\ Address(Source, "SCREEN") = RAMSize
    /\ Address(Source, "KBD") = RAMSize + ScreenSize
    /\ Address(Source, "color") = VARIABLE_START
    /\ Address(Source, "i") = VARIABLE_START + 1
    /\ Address(Source, "end") = VARIABLE_START + 2
  <1>1. Declared(Source) = LabelNames
    BY LabelsAre DEF Labels
  <1>2. /\ PredefinedSymbols.SCREEN = SCREEN /\ PredefinedSymbols.KBD = KBD
        /\ "SCREEN" \in DOMAIN PredefinedSymbols /\ "KBD" \in DOMAIN PredefinedSymbols
        /\ {"color", "i", "end"} \cap DOMAIN PredefinedSymbols = {}
    BY DEF PredefinedSymbols
  <1>3. \A s \in LabelNames : Address(Source, s) = LabelAddress(Source, s)
    BY <1>1 DEF Address
  <1>4. Address(Source, "SCREEN") = RAMSize /\ Address(Source, "KBD") = RAMSize + ScreenSize
    BY <1>1, <1>2, FillAssumption DEF Address, LabelNames
  <1>5. \A s \in {"color", "i", "end"} : Address(Source, s) = VariableAddress(Source, s)
    BY <1>1, <1>2 DEF Address, LabelNames
  <1> QED
    BY <1>3, <1>4, <1>5, LabelAddresses, VariableAddresses DEF LabelNames

\* A C-instruction that does not jump, and one that stores nothing.
Computing(dest, comp) == Do(dest, comp, "")
Jumping(comp, jump) == Do({}, comp, jump)

(* An instruction of the ROM is the one of its line, its symbol replaced.  *)
LEMMA Coded ==
    /\ DOMAIN Assembled = 1..49
    /\ \A n \in 1..49 : \A line : Source[LineOf(n)] = line =>
          /\ line.op = "symbol" => Assembled[n] = At(Address(Source, line.name))
          /\ line.op = "number" => Assembled[n] = At(line.value)
          /\ line.op = "C" => Assembled[n] = line.fields
  <1>1. Instructions(Source) = [n \in 1..49 |-> Source[LineOf(n)]]
    BY SourceLines, LinesLoaded DEF Instructions
  <1>2. Code(Source) = [n \in 1..49 |-> Resolve(Source, Source[LineOf(n)])]
    BY <1>1 DEF Code
  <1>3. DOMAIN Assembled = 1..49
        /\ \A n \in 1..49 : Assembled[n] =
              IF Code(Source)[n].op = "number" THEN At(Code(Source)[n].value)
              ELSE Code(Source)[n].fields
    BY <1>2 DEF Assembled
  <1> SUFFICES ASSUME NEW n \in 1..49, NEW line, Source[LineOf(n)] = line
               PROVE  /\ line.op = "symbol" => Assembled[n] = At(Address(Source, line.name))
                      /\ line.op = "number" => Assembled[n] = At(line.value)
                      /\ line.op = "C" => Assembled[n] = line.fields
    BY <1>3
  <1>4. Code(Source)[n] = Resolve(Source, line)
    BY <1>2
  <1>5. line.op = "symbol" => Resolve(Source, line) = NumericA(Address(Source, line.name))
    BY DEF Resolve
  <1>6. line.op # "symbol" => Resolve(Source, line) = line
    BY DEF Resolve
  <1>7. NumericA(Address(Source, line.name)).op = "number"
        /\ NumericA(Address(Source, line.name)).value = Address(Source, line.name)
    BY LineKinds
  <1> QED
    BY <1>3, <1>4, <1>5, <1>6, <1>7

(* The fields of the two kinds of C-instructions.                          *)
LEMMA CodeKinds ==
    /\ \A dest, comp : Assign(dest, comp).fields = Computing(dest, comp)
    /\ \A comp, jump : JumpIf(comp, jump).fields = Jumping(comp, jump)
  BY DEF Assign, JumpIf, C, Computing, Jumping
(* What the ROM holds.                                                     *)
LEMMA ROM ==
    /\ Assembled[1] = At(VARIABLE_START)
    /\ Assembled[2] = Computing({"M"}, "0")
    /\ Assembled[3] = At(RAMSize + ScreenSize)
    /\ Assembled[4] = Computing({"D"}, "M")
    /\ Assembled[5] = At(8)
    /\ Assembled[6] = Jumping("D", "JNE")
    /\ Assembled[7] = At(16)
    /\ Assembled[8] = Jumping("0", "JMP")
    /\ Assembled[9] = At(VARIABLE_START)
    /\ Assembled[10] = Computing({"D"}, "M+1")
    /\ Assembled[11] = At(2)
    /\ Assembled[12] = Jumping("D", "JEQ")
    /\ Assembled[13] = At(VARIABLE_START)
    /\ Assembled[14] = Computing({"M"}, "-1")
    /\ Assembled[15] = At(24)
    /\ Assembled[16] = Jumping("0", "JMP")
    /\ Assembled[17] = At(VARIABLE_START)
    /\ Assembled[18] = Computing({"D"}, "M")
    /\ Assembled[19] = At(2)
    /\ Assembled[20] = Jumping("D", "JEQ")
    /\ Assembled[21] = At(VARIABLE_START)
    /\ Assembled[22] = Computing({"M"}, "0")
    /\ Assembled[23] = At(24)
    /\ Assembled[24] = Jumping("0", "JMP")
    /\ Assembled[25] = At(RAMSize)
    /\ Assembled[26] = Computing({"D"}, "A")
    /\ Assembled[27] = At(VARIABLE_START + 1)
    /\ Assembled[28] = Computing({"M"}, "D")
    /\ Assembled[29] = At(ScreenWords)
    /\ Assembled[30] = Computing({"D"}, "D+A")
    /\ Assembled[31] = At(VARIABLE_START + 2)
    /\ Assembled[32] = Computing({"M"}, "D")
    /\ Assembled[33] = At(VARIABLE_START + 1)
    /\ Assembled[34] = Computing({"D"}, "M")
    /\ Assembled[35] = At(VARIABLE_START + 2)
    /\ Assembled[36] = Computing({"D"}, "D-M")
    /\ Assembled[37] = At(47)
    /\ Assembled[38] = Jumping("D", "JGE")
    /\ Assembled[39] = At(VARIABLE_START)
    /\ Assembled[40] = Computing({"D"}, "M")
    /\ Assembled[41] = At(VARIABLE_START + 1)
    /\ Assembled[42] = Computing({"A"}, "M")
    /\ Assembled[43] = Computing({"M"}, "D")
    /\ Assembled[44] = At(VARIABLE_START + 1)
    /\ Assembled[45] = Computing({"M"}, "M+1")
    /\ Assembled[46] = At(32)
    /\ Assembled[47] = Jumping("0", "JMP")
    /\ Assembled[48] = At(2)
    /\ Assembled[49] = Jumping("0", "JMP")
  <1>1. ASSUME NEW n \in 1..49, NEW s, Source[LineOf(n)] = SymbolicA(s)
        PROVE  Assembled[n] = At(Address(Source, s))
    <2>1. SymbolicA(s).op = "symbol" /\ SymbolicA(s).name = s
      BY LineKinds
    <2> QED
      BY <1>1, <2>1, Coded
  <1>2. ASSUME NEW n \in 1..49, NEW v, Source[LineOf(n)] = NumericA(v)
        PROVE  Assembled[n] = At(v)
    <2>1. NumericA(v).op = "number" /\ NumericA(v).value = v
      BY LineKinds
    <2> QED
      BY <1>2, <2>1, Coded
  <1>3. ASSUME NEW n \in 1..49, NEW dest, NEW comp, Source[LineOf(n)] = Assign(dest, comp)
        PROVE  Assembled[n] = Computing(dest, comp)
    <2>1. Assign(dest, comp).op = "C" /\ Assign(dest, comp).fields = Computing(dest, comp)
      BY LineKinds, CodeKinds
    <2> QED
      BY <1>3, <2>1, Coded
  <1>4. ASSUME NEW n \in 1..49, NEW comp, NEW jump, Source[LineOf(n)] = JumpIf(comp, jump)
        PROVE  Assembled[n] = Jumping(comp, jump)
    <2>1. JumpIf(comp, jump).op = "C" /\ JumpIf(comp, jump).fields = Jumping(comp, jump)
      BY LineKinds, CodeKinds
    <2> QED
      BY <1>4, <2>1, Coded
  <1> QED
    BY <1>1, <1>2, <1>3, <1>4, SourceLines, Addresses DEF LineOf

AValue == Number(ARegister, WordSize)
DValue == Number(DRegister, WordSize)
Counter == Number(PC, WordSize)

\* The word A addresses.
Read == Documented!M

\* The next instruction is the one at k, unless there is a reset.
Goes(k) == Counter' = k \/ (TRUE \in Resets /\ Counter' = 0)

(* The sizes of the memory, in words of the screen.                        *)
LEMMA FillSizes ==
    /\ ScreenSize \in Nat /\ ScreenSize >= 16 /\ ScreenWords = ScreenSize
    /\ RAMSize = 2 * ScreenSize /\ Size = 8 * ScreenSize /\ Size \div 2 = 4 * ScreenSize
    /\ Stored = 0..(3 * ScreenSize - 1)
    /\ VARIABLE_START \in Nat /\ VARIABLE_START + 2 < 2 * ScreenSize
  <1>1. PICK k \in 0..15 : k = WordSize - 3 /\ k >= 4
    <2>1. WordSize - 3 \in 0..15 /\ WordSize - 3 >= 4
      BY WordSizes, FillAssumption
    <2> QED
      BY <2>1
  <1>2. 2^k >= 16
    <2>1. 2^4 = 16
      OBVIOUS
    <2>2. \A i \in 0..15 : 2^i \in Nat \ {0} /\ 2^(i + 1) = 2 * 2^i
      BY Powers
    <2>3. \A j \in 4..15 : 2^j >= 16
      <3> DEFINE S == {d \in 0..11 : 2^(d + 4) >= 16}
      <3>1. 0 \in S
        BY <2>1
      <3>2. ASSUME NEW d \in 0..11, d \in S, d + 1 \in 0..11 PROVE d + 1 \in S
        <4>1. d + 4 \in 0..15 /\ (d + 4) + 1 = (d + 1) + 4 /\ 2^(d + 4) >= 16
          BY <3>2
        <4>2. PICK p \in Nat : p = 2^(d + 4)
          BY <2>2, <4>1
        <4>3. 2^((d + 1) + 4) = 2 * p
          BY <2>2, <4>1, <4>2
        <4> QED
          BY <3>2, <4>1, <4>2, <4>3
      <3>3. 0..11 \subseteq S
        <4> HIDE DEF S
        <4> QED
          BY <3>1, <3>2, UpTo
      <3> TAKE j \in 4..15
      <3>4. j - 4 \in 0..11 /\ (j - 4) + 4 = j
        OBVIOUS
      <3> QED
        BY <3>3, <3>4
    <2>4. k \in 4..15
      BY <1>1
    <2> QED
      BY <2>3, <2>4
  <1>3. ScreenWords = ScreenSize /\ ScreenSize >= 16
    BY <1>1, <1>2, MemorySizes DEF ScreenWords
  <1>4. Size \div 2 = 4 * ScreenSize /\ Size = 8 * ScreenSize
    BY WordSizes, MemorySizes DEF Sign
  <1>5. Stored = 0..(3 * ScreenSize - 1)
    BY MemorySizes DEF Stored
  <1> QED
    BY <1>3, <1>4, <1>5, MemorySizes, FillAssumption, BoundsAssumption

(* The instructions of the program by their addresses.                     *)
LEMMA FetchAt == \A k \in 0..48 : Fetch(Assembled, k) = Assembled[k + 1]
  <1> TAKE k \in 0..48
  <1>1. Len(Assembled) = 49
    <2>1. Assembled \in Seq(AInstruction \cup CInstruction)
      BY ProgramsAssumption, FillAssumption
    <2> QED
      BY <2>1, Coded
  <1>2. Location(k) = k
    <2>1. PICK n \in Nat : n = ScreenSize /\ n >= 16 /\ Size \div 2 = 4 * n
      BY FillSizes
    <2>2. k % (4 * n) = k
      BY <2>1
    <2> QED
      BY <2>1, <2>2 DEF Location
  <1> QED
    BY <1>1, <1>2 DEF Fetch

(* A cycle executes the instruction of the program at the counter.         *)
LEMMA Executes ==
    ASSUME TypeOK, Clock, NEW k \in 0..48, Counter = k
    PROVE  \E reset \in Resets :
              \/ Documented!Load(Assembled[k + 1], reset)
              \/ Documented!Operate(Assembled[k + 1], reset)
  <1>1. Machine!Step
    BY MachineStep DEF Clock
  <1>2. Documented!Step
    BY <1>1, NumberStep
  <1>3. program = Assembled
    BY FillAssumption DEF TypeOK
  <1>4. Fetch(program, Counter) = Assembled[k + 1]
    BY <1>3, FetchAt
  <1> QED
    BY <1>2, <1>4 DEF Documented!Step, Counter

(* Where a reset, or none, sends the program.                              *)
LEMMA Continues ==
    ASSUME NEW reset \in Resets, NEW next
    PROVE  Documented!Continue(reset, next) => Goes(next)
  BY ProgramsAssumption DEF Documented!Continue, Goes, Counter

(* The counter does not wrap within the program.                           *)
LEMMA CounterGrows == \A k \in 0..48 : Successor(k) = k + 1
  <1> TAKE k \in 0..48
  <1>1. PICK n \in Nat : n = ScreenSize /\ n >= 16 /\ Size = 8 * n
    BY FillSizes
  <1>2. (k + 1) % (8 * n) = k + 1
    BY <1>1
  <1> QED
    BY <1>1, <1>2 DEF Successor, Wrap

(* A cycle that executes an A-instruction.                                 *)
LEMMA Loading ==
    ASSUME TypeOK, Clock, NEW k \in 0..48, Counter = k, NEW v, Assembled[k + 1] = At(v)
    PROVE  AValue' = v /\ DValue' = DValue /\ memory' = memory /\ Goes(k + 1)
  <1>1. At(v).op = "A" /\ At(v).value = v
    BY DEF At
  <1>2. PICK reset \in Resets : Documented!Load(At(v), reset)
    BY <1>1, Executes DEF Documented!Operate
  <1>3. /\ AValue' = v /\ DValue' = DValue /\ memory' = memory
        /\ Documented!Continue(reset, Successor(k))
    BY <1>1, <1>2 DEF Documented!Load, AValue, DValue, Counter, Immediate
  <1> QED
    BY <1>3, Continues, CounterGrows

\* What a C-instruction does to the registers and to the memory.
Effect(dest, out) ==
    /\ AValue' = IF "A" \in dest THEN out ELSE AValue
    /\ DValue' = IF "D" \in dest THEN out ELSE DValue
    /\ memory' = IF "M" \in dest /\ Location(AValue) \in Stored
                 THEN [memory EXCEPT ![Location(AValue)] = out] ELSE memory

(* A cycle that executes a C-instruction.                                  *)
LEMMA Operating ==
    ASSUME TypeOK, Clock, NEW k \in 0..48, Counter = k, NEW instr, instr.op = "C",
           Assembled[k + 1] = instr
    PROVE  LET out == Compute(instr.comp, DValue, AValue, Read)
           IN  /\ Effect(instr.dest, out)
               /\ Goes(IF Documented!Jumps(instr.jump, out) THEN AValue ELSE k + 1)
  <1> DEFINE out == Compute(instr.comp, DValue, AValue, Read)
  <1>1. PICK reset \in Resets : Documented!Operate(instr, reset)
    BY Executes DEF Documented!Load
  <1>2. /\ Effect(instr.dest, out)
        /\ Documented!Continue(reset, IF Documented!Jumps(instr.jump, out) THEN AValue
                                      ELSE Successor(k))
    BY <1>1 DEF Documented!Operate, Effect, AValue, DValue, Counter, Read
  <1> HIDE DEF out
  <1>3. Goes(IF Documented!Jumps(instr.jump, out) THEN AValue ELSE k + 1)
    BY <1>2, Continues, CounterGrows
  <1> QED
    BY <1>2, <1>3 DEF out

(* A cycle that executes a C-instruction that does not jump.               *)
LEMMA Assigning ==
    ASSUME TypeOK, Clock, NEW k \in 0..48, Counter = k, NEW dest, NEW comp,
           Assembled[k + 1] = Computing(dest, comp)
    PROVE  /\ Effect(dest, Compute(comp, DValue, AValue, Read))
           /\ Goes(k + 1)
  <1> DEFINE instr == Computing(dest, comp)
  <1>1. instr.op = "C" /\ instr.comp = comp /\ instr.dest = dest
    BY DEF Computing, Do
  <1>2. \A out : ~Documented!Jumps(instr.jump, out)
    BY DEF Computing, Do, Documented!Jumps
  <1> HIDE DEF instr
  <1>3. Assembled[k + 1] = instr
    BY DEF instr
  <1> QED
    BY <1>1, <1>2, <1>3, Operating

(* A cycle that executes a C-instruction that stores nothing.              *)
LEMMA JumpingTo ==
    ASSUME TypeOK, Clock, NEW k \in 0..48, Counter = k, NEW comp, NEW jump,
           Assembled[k + 1] = Jumping(comp, jump)
    PROVE  /\ AValue' = AValue /\ DValue' = DValue /\ memory' = memory
           /\ Goes(IF Documented!Jumps(jump, Compute(comp, DValue, AValue, Read))
                   THEN AValue ELSE k + 1)
  <1> DEFINE instr == Jumping(comp, jump)
  <1>1. instr.op = "C" /\ instr.comp = comp /\ instr.dest = {} /\ instr.jump = jump
    BY DEF Jumping, Do
  <1> HIDE DEF instr
  <1>2. Assembled[k + 1] = instr
    BY DEF instr
  <1>3. LET out == Compute(comp, DValue, AValue, Read)
        IN  /\ Effect({}, out)
            /\ Goes(IF Documented!Jumps(jump, out) THEN AValue ELSE k + 1)
    BY <1>1, <1>2, Operating
  <1> QED
    BY <1>3 DEF Effect

Color == memory[VARIABLE_START]
Here  == memory[VARIABLE_START + 1]
End   == memory[VARIABLE_START + 2]

KeyboardAt == RAMSize + ScreenSize
Shades == {0, Size - 1}

(* The words of the screen and the color are white or black.               *)
InPlace ==
    /\ \A l \in RAMSize..(KeyboardAt - 1) : memory[l] \in Shades
    /\ Color \in Shades

(* An A-instruction has left its value in A.                               *)
Held == Counter \in 1..48 => \A v : Assembled[Counter] = At(v) => AValue = v

(* What D, and at 42 A, has been computed to.                              *)
Computed ==
    /\ Counter \in 26..29 => DValue = RAMSize
    /\ Counter \in 30..31 => DValue = KeyboardAt
    /\ Counter \in 34..35 => DValue = Here
    /\ Counter \in 36..37 => DValue = Wrap(Here - KeyboardAt)
    /\ Counter \in 40..42 => DValue = Color
    /\ Counter = 42 => AValue = Here

(* The loop goes through the screen.                                       *)
OnScreen ==
    /\ Counter \in 28..31 => Here = RAMSize
    /\ Counter \in 32..46 => End = KeyboardAt /\ Here \in RAMSize..KeyboardAt
    /\ Counter \in 38..44 => Here < KeyboardAt

FillInv == TypeOK /\ Counter \in 0..48 /\ InPlace /\ Held /\ Computed /\ OnScreen

Shows(m) == \A l \in RAMSize..(m - 1) : memory[l] = Color

(* The part of the screen before i has the color of the variable, all of   *)
(* it between two drawings.                                                *)
Drawn ==
    /\ Counter \in (0..13) \cup (16..21) \cup (47..48) => Shows(KeyboardAt)
    /\ Counter \in 32..46 => Shows(Here)
    /\ Counter \in 43..44 => memory[Here] = Color
    /\ Counter \in 0..1 => Color = 0

LoadAddresses == {0, 2, 4, 6, 8, 10, 12, 14, 16, 18, 20, 22, 24, 26, 28, 30, 32, 34,
                  36, 38, 40, 43, 45, 47}

\* One number of the memory is replaced.
Sets(l, x) ==
    /\ AValue' = AValue /\ DValue' = DValue
    /\ memory'[l] = x
    /\ \A m \in Stored \ {l} : memory'[m] = memory[m]

Loads ==
    /\ Counter \in LoadAddresses
    /\ Assembled[Counter + 1] = At(AValue') /\ DValue' = DValue /\ memory' = memory
    /\ Goes(Counter + 1)

Stores ==
    /\ \/ Counter = 1 /\ Sets(VARIABLE_START, 0)
       \/ Counter = 13 /\ Sets(VARIABLE_START, Size - 1)
       \/ Counter = 21 /\ Sets(VARIABLE_START, 0)
       \/ Counter = 27 /\ Sets(VARIABLE_START + 1, RAMSize)
       \/ Counter = 31 /\ Sets(VARIABLE_START + 2, KeyboardAt)
       \/ Counter = 42 /\ Sets(Here, Color)
       \/ Counter = 44 /\ Sets(VARIABLE_START + 1, Here + 1)
    /\ Goes(Counter + 1)

Computes ==
    /\ memory' = memory
    /\ \/ Counter \in {3, 9, 17}
       \/ Counter = 25 /\ DValue' = RAMSize
       \/ Counter = 29 /\ DValue' = KeyboardAt
       \/ Counter = 33 /\ DValue' = Here
       \/ Counter = 35 /\ DValue' = Wrap(Here - KeyboardAt)
       \/ Counter = 39 /\ DValue' = Color
       \/ Counter = 41 /\ AValue' = Here /\ DValue' = DValue
    /\ Goes(Counter + 1)

Jumps ==
    /\ memory' = memory
    /\ \/ Counter = 5 /\ (Goes(6) \/ Goes(8))
       \/ Counter = 7 /\ Goes(16)
       \/ Counter \in {11, 19} /\ (Goes(Counter + 1) \/ Goes(2))
       \/ Counter \in {15, 23} /\ Goes(24)
       \/ Counter = 37 /\ ((Here = KeyboardAt /\ Goes(47)) \/ (Here < KeyboardAt /\ Goes(38)))
       \/ Counter = 46 /\ Goes(32)
       \/ Counter = 48 /\ Goes(2)

(* A location of the memory is addressed by its number.                    *)
LEMMA LocationsIn ==
    ASSUME NEW l \in Stored
    PROVE  Location(l) = l /\ (AValue = l => Read = memory[l])
  <1>1. Location(l) = l
    <2>1. PICK n \in Nat : /\ n = ScreenSize /\ n >= 16 /\ Size \div 2 = 4 * n
                            /\ Stored = 0..(3 * n - 1)
      BY FillSizes
    <2>2. l % (4 * n) = l
      BY <2>1
    <2> QED
      BY <2>1, <2>2 DEF Location
  <1> QED
    BY <1>1 DEF Read, Documented!M, AValue

(* A store into M with A at a location of the memory.                      *)
LEMMA StoreSets ==
    ASSUME NEW l \in Stored, AValue = l, NEW out, Effect({"M"}, out)
    PROVE  Sets(l, out)
  <1>1. AValue' = AValue /\ DValue' = DValue
    BY DEF Effect
  <1>2. memory' = [memory EXCEPT ![l] = out]
    BY LocationsIn DEF Effect
  <1>3. memory = [m \in Stored |-> memory[m]]
    BY DEF memory
  <1> QED
    BY <1>1, <1>2, <1>3 DEF Sets

(* The variables lie in the RAM, the screen in the memory.                 *)
LEMMA VariablesStored ==
    /\ VARIABLE_START \in Stored /\ VARIABLE_START + 1 \in Stored
    /\ VARIABLE_START + 2 \in Stored
    /\ RAMSize..(KeyboardAt - 1) \subseteq Stored
    /\ VARIABLE_START \in 0..(RAMSize - 1)
    /\ VARIABLE_START + 1 \in 0..(RAMSize - 1)
    /\ VARIABLE_START + 2 \in 0..(RAMSize - 1)
  BY FillSizes DEF KeyboardAt

(* The A-instructions load what they carry.                                *)
LEMMA LoadCases ==
    ASSUME TypeOK, Clock, Counter \in LoadAddresses
    PROVE  Loads
  <1>1. Counter \in 0..48
    BY DEF LoadAddresses
  <1>2. PICK v : Assembled[Counter + 1] = At(v)
    <2>1. PICK k \in LoadAddresses : k = Counter
      OBVIOUS
    <2>2. \E v : Assembled[k + 1] = At(v)
      BY ROM DEF LoadAddresses
    <2> QED
      BY <2>1, <2>2
  <1> QED
    BY <1>1, <1>2, Loading DEF Loads

(* What an A-instruction has loaded when the next one runs.                *)
LEMMA HeldAt ==
    ASSUME Held
    PROVE  /\ Counter \in {1, 9, 13, 17, 21, 39} => AValue = VARIABLE_START
           /\ Counter \in {27, 33, 41, 44} => AValue = VARIABLE_START + 1
           /\ Counter \in {31, 35} => AValue = VARIABLE_START + 2
           /\ Counter = 25 => AValue = RAMSize
           /\ Counter = 29 => AValue = ScreenWords
           /\ Counter = 5 => AValue = 8
           /\ Counter = 7 => AValue = 16
           /\ Counter \in {11, 19, 48} => AValue = 2
           /\ Counter \in {15, 23} => AValue = 24
           /\ Counter = 37 => AValue = 47
           /\ Counter = 46 => AValue = 32
  BY ROM DEF Held

(* The computations the program uses.                                      *)
LEMMA ComputeIs ==
    ASSUME NEW d, NEW a, NEW m
    PROVE  /\ Compute("0", d, a, m) = 0
           /\ Compute("-1", d, a, m) = Wrap(-1)
           /\ Compute("D", d, a, m) = d
           /\ Compute("A", d, a, m) = a
           /\ Compute("M", d, a, m) = m
           /\ Compute("M+1", d, a, m) = Wrap(m + 1)
           /\ Compute("D+A", d, a, m) = Wrap(d + a)
           /\ Compute("D-M", d, a, m) = Wrap(d - m)
  BY DEF Compute

(* The sums and the difference the program computes do not wrap, except    *)
(* that i - end is negative until i reaches end.                           *)
LEMMA Wraps ==
    /\ Wrap(-1) = Size - 1
    /\ \A x \in 0..(3 * ScreenSize) : Wrap(x) = x
    /\ \A x \in RAMSize..KeyboardAt :
          /\ IsZero(Wrap(x - KeyboardAt)) <=> x = KeyboardAt
          /\ ~IsNegative(Wrap(x - KeyboardAt)) <=> x = KeyboardAt
  <1>1. PICK n \in Nat : /\ n = ScreenSize /\ n >= 16 /\ RAMSize = 2 * n
                          /\ Size = 8 * n /\ Size \div 2 = 4 * n
    BY FillSizes
  <1>2. (-1) % (8 * n) = 8 * n - 1
    BY <1>1
  <1>3. \A x \in 0..(3 * n) : x % (8 * n) = x
    BY <1>1
  <1>4. \A x \in (2 * n)..(3 * n) : (x - 3 * n) % (8 * n) = IF x = 3 * n THEN 0 ELSE 5 * n + x
    <2> TAKE x \in (2 * n)..(3 * n)
    <2>1. CASE x = 3 * n
      BY <1>1, <2>1
    <2>2. CASE x # 3 * n
      <3>1. /\ x - 3 * n = (8 * n) * (-1) + (5 * n + x)
            /\ 5 * n + x \in 0..(8 * n - 1) /\ 8 * n \in Nat \ {0}
        BY <1>1, <2>2
      <3>2. ((8 * n) * (-1) + (5 * n + x)) % (8 * n) = 5 * n + x
        BY <3>1, DivisionIsUnique
      <3> QED
        BY <2>2, <3>1, <3>2
    <2> QED
      BY <2>1, <2>2
  <1> QED
    BY <1>1, <1>2, <1>3, <1>4 DEF Wrap, IsZero, IsNegative, KeyboardAt

(* The stores of the program.                                              *)
LEMMA StoreCases ==
    ASSUME FillInv, Clock, Counter \in {1, 13, 21, 27, 31, 42, 44}
    PROVE  Stores
  <1> USE DEF FillInv
  <1>1. CASE Counter = 1
    <2>1. Effect({"M"}, 0) /\ Goes(1 + 1)
      BY <1>1, Assigning, ROM, ComputeIs
    <2> QED
      BY <1>1, <2>1, HeldAt, StoreSets, VariablesStored DEF Stores
  <1>2. CASE Counter = 13
    <2>1. Effect({"M"}, Size - 1) /\ Goes(13 + 1)
      BY <1>2, Assigning, ROM, ComputeIs, Wraps
    <2> QED
      BY <1>2, <2>1, HeldAt, StoreSets, VariablesStored DEF Stores
  <1>3. CASE Counter = 21
    <2>1. Effect({"M"}, 0) /\ Goes(21 + 1)
      BY <1>3, Assigning, ROM, ComputeIs
    <2> QED
      BY <1>3, <2>1, HeldAt, StoreSets, VariablesStored DEF Stores
  <1>4. CASE Counter = 27
    <2>1. Effect({"M"}, RAMSize) /\ Goes(27 + 1)
      BY <1>4, Assigning, ROM, ComputeIs DEF Computed
    <2> QED
      BY <1>4, <2>1, HeldAt, StoreSets, VariablesStored DEF Stores
  <1>5. CASE Counter = 31
    <2>1. Effect({"M"}, KeyboardAt) /\ Goes(31 + 1)
      BY <1>5, Assigning, ROM, ComputeIs DEF Computed
    <2> QED
      BY <1>5, <2>1, HeldAt, StoreSets, VariablesStored DEF Stores
  <1>6. CASE Counter = 42
    <2>1. Effect({"M"}, Color) /\ Goes(42 + 1)
      BY <1>6, Assigning, ROM, ComputeIs DEF Computed
    <2>2. AValue = Here /\ Here \in RAMSize..(KeyboardAt - 1)
      BY <1>6, FillSizes DEF Computed, OnScreen, KeyboardAt
    <2> QED
      BY <1>6, <2>1, <2>2, StoreSets, VariablesStored DEF Stores
  <1>7. CASE Counter = 44
    <2>1. Read = Here
      BY <1>7, HeldAt, LocationsIn, VariablesStored DEF Here
    <2>2. Wrap(Here + 1) = Here + 1
      BY <1>7, FillSizes, Wraps DEF OnScreen, KeyboardAt
    <2>3. Effect({"M"}, Here + 1) /\ Goes(44 + 1)
      BY <1>7, <2>1, <2>2, Assigning, ROM, ComputeIs
    <2> QED
      BY <1>7, <2>3, HeldAt, StoreSets, VariablesStored DEF Stores
  <1> QED
    BY <1>1, <1>2, <1>3, <1>4, <1>5, <1>6, <1>7

(* The computations of the program.                                        *)
LEMMA ComputeCases ==
    ASSUME FillInv, Clock, Counter \in {3, 9, 17, 25, 29, 33, 35, 39, 41}
    PROVE  Computes
  <1> USE DEF FillInv
  <1>1. CASE Counter = 3
    BY <1>1, Assigning, ROM DEF Effect, Computes
  <1>2. CASE Counter = 9
    BY <1>2, Assigning, ROM DEF Effect, Computes
  <1>3. CASE Counter = 17
    BY <1>3, Assigning, ROM DEF Effect, Computes
  <1>4. CASE Counter = 25
    <2>1. Effect({"D"}, AValue) /\ Goes(25 + 1)
      BY <1>4, Assigning, ROM, ComputeIs
    <2> QED
      BY <1>4, <2>1, HeldAt DEF Effect, Computes
  <1>5. CASE Counter = 29
    <2>1. Wrap(DValue + AValue) = KeyboardAt
      BY <1>5, HeldAt, FillSizes, Wraps DEF Computed, KeyboardAt
    <2>2. Effect({"D"}, KeyboardAt) /\ Goes(29 + 1)
      BY <1>5, <2>1, Assigning, ROM, ComputeIs
    <2> QED
      BY <1>5, <2>2 DEF Effect, Computes
  <1>6. CASE Counter = 33
    <2>1. Read = Here
      BY <1>6, HeldAt, LocationsIn, VariablesStored DEF Here
    <2>2. Effect({"D"}, Here) /\ Goes(33 + 1)
      BY <1>6, <2>1, Assigning, ROM, ComputeIs
    <2> QED
      BY <1>6, <2>2 DEF Effect, Computes
  <1>7. CASE Counter = 35
    <2>1. Read = KeyboardAt /\ DValue = Here
      BY <1>7, HeldAt, LocationsIn, VariablesStored DEF End, OnScreen, Computed
    <2>2. Effect({"D"}, Wrap(Here - KeyboardAt)) /\ Goes(35 + 1)
      BY <1>7, <2>1, Assigning, ROM, ComputeIs
    <2> QED
      BY <1>7, <2>2 DEF Effect, Computes
  <1>8. CASE Counter = 39
    <2>1. Read = Color
      BY <1>8, HeldAt, LocationsIn, VariablesStored DEF Color
    <2>2. Effect({"D"}, Color) /\ Goes(39 + 1)
      BY <1>8, <2>1, Assigning, ROM, ComputeIs
    <2> QED
      BY <1>8, <2>2 DEF Effect, Computes
  <1>9. CASE Counter = 41
    <2>1. Read = Here
      BY <1>9, HeldAt, LocationsIn, VariablesStored DEF Here
    <2>2. Effect({"A"}, Here) /\ Goes(41 + 1)
      BY <1>9, <2>1, Assigning, ROM, ComputeIs
    <2> QED
      BY <1>9, <2>2 DEF Effect, Computes
  <1> QED
    BY <1>1, <1>2, <1>3, <1>4, <1>5, <1>6, <1>7, <1>8, <1>9

(* The jumps of the program.                                               *)
LEMMA JumpCases ==
    ASSUME FillInv, Clock, Counter \in {5, 7, 11, 15, 19, 23, 37, 46, 48}
    PROVE  Jumps
  <1> USE DEF FillInv
  <1>0. \A out : Documented!Jumps("JMP", out)
    BY DEF Documented!Jumps
  <1>1. CASE Counter = 5
    <2>1. memory' = memory /\ (Goes(AValue) \/ Goes(5 + 1))
      BY <1>1, JumpingTo, ROM
    <2> QED
      BY <1>1, <2>1, HeldAt DEF Jumps
  <1>2. CASE Counter \in {7, 15, 23, 46, 48}
    <2>1. PICK k \in {7, 15, 23, 46, 48} : k = Counter
      BY <1>2
    <2>2. Assembled[k + 1] = Jumping("0", "JMP")
      BY ROM
    <2>3. memory' = memory /\ Goes(AValue)
      BY <1>0, <2>1, <2>2, JumpingTo
    <2> QED
      BY <1>2, <2>3, HeldAt DEF Jumps
  <1>3. CASE Counter \in {11, 19}
    <2>1. PICK k \in {11, 19} : k = Counter
      BY <1>3
    <2>2. Assembled[k + 1] = Jumping("D", "JEQ")
      BY ROM
    <2>3. memory' = memory /\ (Goes(AValue) \/ Goes(k + 1))
      BY <2>1, <2>2, JumpingTo
    <2> QED
      BY <1>3, <2>1, <2>3, HeldAt DEF Jumps
  <1>4. CASE Counter = 37
    <2>1. \A out : Documented!Jumps("JGE", out) <=> ~IsNegative(out)
      BY DEF Documented!Jumps
    <2>2. Here \in RAMSize..KeyboardAt /\ DValue = Wrap(Here - KeyboardAt)
      BY <1>4 DEF OnScreen, Computed
    <2>3. Documented!Jumps("JGE", Compute("D", DValue, AValue, Read)) <=> Here = KeyboardAt
      BY <2>1, <2>2, ComputeIs, Wraps
    <2>4. memory' = memory /\ Goes(IF Here = KeyboardAt THEN AValue ELSE 37 + 1)
      BY <1>4, <2>3, JumpingTo, ROM
    <2>5. Here # KeyboardAt => Here < KeyboardAt
      BY <2>2, FillSizes DEF KeyboardAt
    <2>6. AValue = 47
      BY <1>4, HeldAt
    <2>7. memory' = memory
      BY <2>4
    <2>8. (Here = KeyboardAt /\ Goes(47)) \/ (Here < KeyboardAt /\ Goes(38))
      BY <2>4, <2>5, <2>6
    <2> QED
      BY <1>4, <2>7, <2>8 DEF Jumps
  <1> QED
    BY <1>1, <1>2, <1>3, <1>4

(* What a cycle of the program is.                                         *)
LEMMA Cycles ==
    ASSUME FillInv, Clock
    PROVE  Loads \/ Stores \/ Computes \/ Jumps
  <1>1. Counter \in 0..48 /\ TypeOK
    BY DEF FillInv
  <1>2. \/ Counter \in LoadAddresses
        \/ Counter \in {1, 13, 21, 27, 31, 42, 44}
        \/ Counter \in {3, 9, 17, 25, 29, 33, 35, 39, 41}
        \/ Counter \in {5, 7, 11, 15, 19, 23, 37, 46, 48}
    BY <1>1 DEF LoadAddresses
  <1> QED
    BY <1>1, <1>2, LoadCases, StoreCases, ComputeCases, JumpCases

(* A step that is not a cycle leaves the program where it is.              *)
LEMMA Rests ==
    ASSUME [Next]_vars, ~Clock
    PROVE  AValue' = AValue /\ DValue' = DValue /\ Counter' = Counter /\ memory' = memory
  <1>1. UNCHANGED <<ARegister, DRegister, PC, RAM16K, Screen>>
    BY DEF Next, KeyChange, vars
  <1> QED
    BY <1>1 DEF AValue, DValue, Counter, memory

-----------------------------------------------------------------------------
(* The program is where it should be.                                      *)

(* Where a cycle can go.                                                   *)
LEMMA Going == \A k : Goes(k) => Counter' = k \/ Counter' = 0
  BY DEF Goes

(* The counter stays in the program.                                       *)
LEMMA CounterStays ==
    ASSUME Counter \in 0..48, Loads \/ Stores \/ Computes \/ Jumps
    PROVE  Counter' \in 0..48
  BY Going DEF Loads, LoadAddresses, Stores, Computes, Jumps

(* A cycle stores in the variables and in the screen only.                 *)
LEMMA InPlaceNext ==
    ASSUME FillInv, Loads \/ Stores \/ Computes \/ Jumps
    PROVE  InPlace'
  <1> USE DEF FillInv, InPlace
  <1>1. CASE memory' = memory
    BY <1>1 DEF Color
  <1>2. CASE Stores
    <2>1. CASE Counter = 42
      <3>1. Here \in RAMSize..(KeyboardAt - 1)
        BY <2>1, FillSizes DEF OnScreen, KeyboardAt
      <3> QED
        BY <1>2, <2>1, <3>1, VariablesStored, FillSizes
        DEF Stores, Sets, Color, Shades, KeyboardAt
    <2>2. CASE Counter # 42
      BY <1>2, <2>2, VariablesStored, FillSizes DEF Stores, Sets, Color, Shades, KeyboardAt
    <2> QED
      BY <2>1, <2>2
  <1> QED
    BY <1>1, <1>2 DEF Loads, Computes, Jumps

(* After a cycle A holds what an A-instruction loaded.                     *)
LEMMA HeldNext ==
    ASSUME FillInv, Loads \/ Stores \/ Computes \/ Jumps
    PROVE  Held'
  <1>1. \A v, w : At(v) = At(w) => v = w
    BY DEF At
  <1>2. \A v, dest, comp : At(v) # Computing(dest, comp)
    BY DEF At, Computing, Do
  <1>3. \A v, comp, jump : At(v) # Jumping(comp, jump)
    BY DEF At, Jumping, Do
  <1>4. CASE Loads
    BY Going, <1>1, <1>4 DEF Loads, LoadAddresses, Held
  <1>5. CASE Stores \/ Computes \/ Jumps
    <2> DEFINE Others == {2, 4, 6, 8, 10, 12, 14, 16, 18, 20, 22, 24, 26, 28, 30, 32, 34, 36,
                          38, 40, 42, 43, 45, 47}
    <2>1. Counter' \in {0} \cup Others
      BY Going, <1>5 DEF Stores, Computes, Jumps
    <2>2. ASSUME Counter' \in 1..48, NEW v PROVE Assembled[Counter'] # At(v)
      <3>1. PICK k \in Others : k = Counter'
        BY <2>1, <2>2
      <3>2. Assembled[k] # At(v)
        BY <1>2, <1>3, ROM
      <3> QED
        BY <3>1, <3>2
    <2> QED
      BY <2>2 DEF Held
  <1> QED
    BY <1>4, <1>5

(* After a cycle D holds what it is used for.                              *)
LEMMA ComputedNext ==
    ASSUME FillInv, Loads \/ Stores \/ Computes \/ Jumps
    PROVE  Computed'
  <1> USE DEF FillInv
  <1>1. CASE Loads
    BY Going, <1>1 DEF Loads, LoadAddresses, Computed, Here, Color
  <1>2. CASE Stores
    BY Going, <1>2, VariablesStored, FillSizes
    DEF Stores, Sets, Computed, Here, Color, OnScreen
  <1>3. CASE Computes
    BY Going, <1>3 DEF Computes, Computed, Here, Color
  <1>4. CASE Jumps
    BY Going, <1>4 DEF Jumps, Computed
  <1> QED
    BY <1>1, <1>2, <1>3, <1>4

(* The loop stays on the screen.                                           *)
LEMMA OnScreenNext ==
    ASSUME FillInv, Loads \/ Stores \/ Computes \/ Jumps
    PROVE  OnScreen'
  <1> USE DEF FillInv
  <1>1. CASE Loads
    BY Going, <1>1 DEF Loads, LoadAddresses, OnScreen, Here, End
  <1>2. CASE Stores
    <2>1. CASE Counter \in {1, 13, 21}
      BY Going, <1>2, <2>1 DEF Stores, OnScreen
    <2>2. CASE Counter = 27
      BY Going, <1>2, <2>2 DEF Stores, Sets, OnScreen, Here
    <2>3. CASE Counter = 31
      <3>1. Here \in RAMSize..KeyboardAt /\ Here = RAMSize
        BY <2>3, FillSizes DEF OnScreen, KeyboardAt
      <3>2. End' = KeyboardAt /\ Here' = Here
        BY <1>2, <2>3, VariablesStored, FillSizes DEF Stores, Sets, Here, End
      <3> QED
        BY Going, <1>2, <2>3, <3>1, <3>2 DEF Stores, OnScreen
    <2>4. CASE Counter = 42
      <3>1. Here \in RAMSize..(KeyboardAt - 1)
        BY <2>4, FillSizes DEF OnScreen, KeyboardAt
      <3>2. End' = End /\ Here' = Here
        BY <1>2, <2>4, <3>1, VariablesStored, FillSizes DEF Stores, Sets, Here, End
      <3> QED
        BY Going, <1>2, <2>4, <3>1, <3>2 DEF Stores, OnScreen
    <2>5. CASE Counter = 44
      <3>1. Here' = Here + 1 /\ End' = End
        BY <1>2, <2>5, VariablesStored, FillSizes DEF Stores, Sets, Here, End
      <3>2. Here + 1 \in RAMSize..KeyboardAt
        BY <2>5, FillSizes DEF OnScreen, KeyboardAt
      <3> QED
        BY Going, <1>2, <2>5, <3>1, <3>2 DEF Stores, OnScreen
    <2> QED
      BY <1>2, <2>1, <2>2, <2>3, <2>4, <2>5 DEF Stores
  <1>3. CASE Computes
    BY Going, <1>3 DEF Computes, OnScreen, Here, End
  <1>4. CASE Jumps
    BY Going, <1>4 DEF Jumps, OnScreen, Here, End
  <1> QED
    BY <1>1, <1>2, <1>3, <1>4

(* Without a reset, a cycle keeps what is drawn and what is known of it.   *)
LEMMA DrawnNext ==
    ASSUME FillInv, Drawn, Resets = {FALSE}, Loads \/ Stores \/ Computes \/ Jumps
    PROVE  Drawn'
  <1> USE DEF FillInv
  <1>0. \A k : Goes(k) <=> Counter' = k
    BY DEF Goes
  <1>1. CASE Loads
    BY <1>0, <1>1 DEF Loads, LoadAddresses, Drawn, Shows, Here, Color
  <1>2. CASE Stores
    <2>0. Counter' = Counter + 1
      BY <1>0, <1>2 DEF Stores
    <2>1. CASE Counter = 1
      BY <1>2, <2>0, <2>1, VariablesStored, FillSizes
      DEF Stores, Sets, Color, Drawn, Shows, KeyboardAt
    <2>2. CASE Counter \in {13, 21}
      BY <2>0, <2>2 DEF Drawn
    <2>3. CASE Counter = 27
      BY <2>0, <2>3 DEF Drawn
    <2>4. CASE Counter = 31
      <3>1. Here' = RAMSize
        BY <1>2, <2>4, VariablesStored, FillSizes DEF Stores, Sets, Here, OnScreen
      <3> QED
        BY <2>0, <2>4, <3>1, FillSizes DEF Drawn, Shows
    <2>5. CASE Counter = 42
      <3>1. Here \in RAMSize..(KeyboardAt - 1)
        BY <2>5, FillSizes DEF OnScreen, KeyboardAt
      <3>2. Here' = Here /\ Color' = Color /\ memory'[Here] = Color
        BY <1>2, <2>5, <3>1, VariablesStored, FillSizes DEF Stores, Sets, Here, Color
      <3>3. \A l \in RAMSize..(Here - 1) : memory'[l] = memory[l]
        BY <1>2, <2>5, <3>1, VariablesStored, FillSizes DEF Stores, Sets, KeyboardAt
      <3> QED
        BY <2>0, <2>5, <3>1, <3>2, <3>3 DEF Drawn, Shows
    <2>6. CASE Counter = 44
      <3>1. Here \in RAMSize..(KeyboardAt - 1)
        BY <2>6, FillSizes DEF OnScreen, KeyboardAt
      <3>2. Here' = Here + 1 /\ Color' = Color /\ memory[Here] = Color
        BY <1>2, <2>6, VariablesStored, FillSizes DEF Stores, Sets, Here, Color, Drawn
      <3>3. \A l \in RAMSize..Here : memory'[l] = memory[l]
        BY <1>2, <2>6, <3>1, VariablesStored, FillSizes DEF Stores, Sets, KeyboardAt
      <3>4. Shows(Here)
        BY <2>6 DEF Drawn
      <3>5. \A l \in RAMSize..Here : l \in RAMSize..(Here - 1) \/ l = Here
        BY <3>1, FillSizes DEF KeyboardAt
      <3>6. (Here + 1) - 1 = Here
        BY <3>1, FillSizes DEF KeyboardAt
      <3> QED
        BY <2>0, <2>6, <3>2, <3>3, <3>4, <3>5, <3>6 DEF Drawn, Shows
    <2> QED
      BY <1>2, <2>1, <2>2, <2>3, <2>4, <2>5, <2>6 DEF Stores
  <1>3. CASE Computes
    BY <1>0, <1>3 DEF Computes, Drawn, Shows, Here, Color
  <1>4. CASE Jumps
    BY <1>0, <1>4 DEF Jumps, Drawn, Shows, Here, Color
  <1> QED
    BY <1>1, <1>2, <1>3, <1>4

-----------------------------------------------------------------------------
(* The inductive invariant.                                                *)

(* The invariant holds at the start,                                       *)
LEMMA FillInit == Init => FillInv /\ Drawn
  <1> SUFFICES ASSUME Init PROVE FillInv /\ Drawn
    OBVIOUS
  <1>1. TypeOK
    BY TypeInit
  <1>2. AValue = 0 /\ DValue = 0 /\ Counter = 0 /\ memory = [l \in Stored |-> 0]
    BY NumberInit DEF Documented!Init, AValue, DValue, Counter
  <1>3. InPlace /\ Color = 0 /\ Shows(KeyboardAt)
    BY <1>2, VariablesStored, FillSizes DEF InPlace, Color, Shades, Shows, KeyboardAt
  <1>4. Held /\ Computed /\ OnScreen
    BY <1>2 DEF Held, Computed, OnScreen
  <1>5. Drawn
    BY <1>2, <1>3 DEF Drawn
  <1> QED
    BY <1>1, <1>2, <1>3, <1>4, <1>5 DEF FillInv

(* every step of the computer preserves it,                                *)
LEMMA FillNext == FillInv /\ [Next]_vars => FillInv'
  <1> SUFFICES ASSUME FillInv, [Next]_vars PROVE FillInv'
    OBVIOUS
  <1>1. TypeOK'
    BY TypeNext DEF FillInv
  <1>2. CASE Clock
    <2>1. Loads \/ Stores \/ Computes \/ Jumps
      BY <1>2, Cycles
    <2> QED
      BY <1>1, <2>1, CounterStays, InPlaceNext, HeldNext, ComputedNext, OnScreenNext
      DEF FillInv
  <1>3. CASE ~Clock
    <2>1. AValue' = AValue /\ DValue' = DValue /\ Counter' = Counter /\ memory' = memory
      BY <1>3, Rests
    <2> QED
      BY <1>1, <2>1 DEF FillInv, InPlace, Held, Computed, OnScreen, Color, Here, End
  <1> QED
    BY <1>2, <1>3

(* and with no reset it preserves what is drawn.                           *)
LEMMA DrawnStep == Resets = {FALSE} /\ FillInv /\ Drawn /\ [Next]_vars => Drawn'
  <1> SUFFICES ASSUME Resets = {FALSE}, FillInv, Drawn, [Next]_vars PROVE Drawn'
    OBVIOUS
  <1>1. CASE Clock
    BY <1>1, Cycles, DrawnNext
  <1>2. CASE ~Clock
    <2>1. AValue' = AValue /\ DValue' = DValue /\ Counter' = Counter /\ memory' = memory
      BY <1>2, Rests
    <2> QED
      BY <2>1 DEF Drawn, Shows, Color, Here
  <1> QED
    BY <1>1, <1>2

-----------------------------------------------------------------------------
(* The words of the memory, from its numbers.                              *)

(* Two words are the same when their numbers are.                          *)
LEMMA ShadesAre ==
    /\ White \in Word /\ Black \in Word /\ White # Black
    /\ AsNumber(White) = 0 /\ AsNumber(Black) = Size - 1
    /\ \A w \in Word : AsNumber(w) \in Shades => w \in {White, Black}
  <1>1. White \in Word /\ AsNumber(White) = 0
    BY OffWord, ValueOff DEF White
  <1>2. Black \in Word /\ AsNumber(Black) = Size - 1
    <2>1. Not16(Off) \in Word
      BY OffWord DEF Not16, Word
    <2>2. AsNumber(Not16(Off)) = (Size - 1) - AsNumber(Off)
      BY OffWord, ValueNot
    <2> QED
      BY <2>1, <2>2, ValueOff, FillSizes DEF Black
  <1>3. 0 # Size - 1
    BY FillSizes
  <1> QED
    BY <1>1, <1>2, <1>3, ValueInjective DEF Shades

(* Each word of the RAM and of the screen has its place in the memory.     *)
LEMMA RAMWord ==
    ASSUME TypeOK, NEW n \in 0..(RAMSize - 1)
    PROVE  RAM16K[RAMBus[n]] \in Word /\ memory[n] = AsNumber(RAM16K[RAMBus[n]])
  <1>1. RAMBus[n] \in RAMAddress
    BY WordSizes DEF RAMBus, Bus, BitOf, RAMAddress
  <1>2. n \in Stored /\ n < RAMSize
    BY FillSizes
  <1> QED
    BY <1>1, <1>2 DEF TypeOK, memory, AsNumber

(* The same for the words of the screen.                                   *)
LEMMA ScreenWord ==
    ASSUME TypeOK, NEW a \in ScreenAddress
    PROVE  /\ Screen[a] \in Word
           /\ \E l \in RAMSize..(KeyboardAt - 1) : memory[l] = AsNumber(Screen[a])
  <1>1. PICK k \in 1..13 : k = WordSize - 3 /\ WordSize - 4 = k - 1 /\ WordSize - 2 = k + 1
    <2>1. /\ WordSize - 3 \in 1..13 /\ WordSize - 4 = (WordSize - 3) - 1
          /\ WordSize - 2 = (WordSize - 3) + 1
      BY WordSizes
    <2> QED
      BY <2>1
  <1> DEFINE l == [i \in 0..(k + 1) |-> IF i <= k - 1 THEN a[i] ELSE i = k + 1]
  <1>2. a \in [0..(k - 1) -> BOOLEAN]
    BY <1>1 DEF ScreenAddress
  <1>3. l \in Locations /\ l[WordSize - 2] /\ ~l[WordSize - 3]
    <2>1. l \in [0..(k + 1) -> BOOLEAN]
      <3>1. \A i \in 0..(k + 1) : i <= k - 1 => i \in 0..(k - 1)
        OBVIOUS
      <3>2. \A i \in 0..(k + 1) : (IF i <= k - 1 THEN a[i] ELSE i = k + 1) \in BOOLEAN
        BY <1>2, <3>1
      <3> QED
        BY <3>2
    <2>2. l[k + 1] /\ ~l[k]
      <3>1. /\ k + 1 \in 0..(k + 1) /\ k \in 0..(k + 1)
            /\ ~(k + 1 <= k - 1) /\ ~(k <= k - 1) /\ k # k + 1
        OBVIOUS
      <3> QED
        BY <3>1
    <2> HIDE DEF l
    <2> QED
      BY <1>1, <2>1, <2>2 DEF Locations
  <1>4. Low(l, WordSize - 3) = a
    <2>1. \A i \in 0..(k - 1) : l[i] = a[i]
      OBVIOUS
    <2>2. a = [i \in 0..(k - 1) |-> a[i]]
      BY <1>2
    <2> HIDE DEF l
    <2>3. Low(l, k) = a
      BY <2>1, <2>2 DEF Low
    <2> QED
      BY <1>1, <2>3
  <1> HIDE DEF l
  <1>5. PICK n \in 0..(ScreenSize - 1) :
            n = NumberOf(l) - RAMSize /\ NumberOf(l) \in Nat /\ ScreenBus[n] = a
    BY <1>3, <1>4, LocationNumber
  <1>6. n + RAMSize \in RAMSize..(KeyboardAt - 1) /\ n + RAMSize \in Stored
        /\ ~(n + RAMSize < RAMSize) /\ (n + RAMSize) - RAMSize = n
    BY FillSizes DEF KeyboardAt
  <1>7. memory[n + RAMSize] = AsNumber(Screen[a])
    BY <1>5, <1>6 DEF memory, AsNumber
  <1>8. Screen[a] \in Word
    BY DEF TypeOK
  <1> QED
    BY <1>6, <1>7, <1>8

(* The addresses the properties of Fill use.                               *)
LEMMA AddressOfIs ==
    /\ AddressOf["color"] = VARIABLE_START
    /\ AddressOf["i"] = VARIABLE_START + 1
    /\ AddressOf["end"] = VARIABLE_START + 2
    /\ AddressOf["KEY_PRESSED"] = 8
    /\ AddressOf["KEY_NOT_PRESSED"] = 16
  BY Addresses, NamesAre, LabelsAre DEF AddressOf, LabelNames

(* The instruction a cycle executes.                                       *)
LEMMA FetchedIs ==
    ASSUME TypeOK, NEW k \in 0..48, Counter = k
    PROVE  Fetched = Assembled[k + 1]
  <1>1. program = Assembled /\ Assembled \in Seq(AInstruction \cup CInstruction)
    BY ProgramsAssumption, FillAssumption DEF TypeOK
  <1>2. PC \in Word
    BY DEF TypeOK
  <1>3. Fetch(Assembled, AsNumber(PC)) = BusFetch(Assembled, PC)
    BY <1>1, <1>2, FetchIs
  <1> QED
    BY <1>1, <1>3, FetchAt DEF Fetched, AsNumber, Counter

(* The instructions of the program that write to the memory.               *)
LEMMA WritesAt ==
    ASSUME TypeOK, Counter \in 0..48, writeM(ROM32K(PC))
    PROVE  Counter \in {1, 13, 21, 27, 31, 42, 44}
  <1>1. PICK k \in 0..48 : k = Counter
    OBVIOUS
  <1>2. /\ Assembled[k + 1] \in AInstruction \cup CInstruction
        /\ writeM(translate(Assembled[k + 1]))
    BY <1>1, Fetching, FetchedIs
  <1>3. ASSUME Assembled[k + 1] \in AInstruction PROVE FALSE
    <2>1. PICK v \in Nat : Assembled[k + 1] = At(v)
      BY <1>3, WordSizes DEF AInstruction, At, MAX_VALUE
    <2> QED
      BY <1>2, <2>1, LoadBits DEF writeM
  <1>4. Assembled[k + 1] \in CInstruction /\ "M" \in Assembled[k + 1].dest
    BY <1>2, <1>3, OperateBits DEF writeM
  <1>5. \A v : At(v) \notin CInstruction
    BY DEF At, CInstruction
  <1>6. /\ \A dest, comp : Computing(dest, comp).dest = dest
        /\ \A comp, jump : Jumping(comp, jump).dest = {}
    BY DEF Computing, Jumping, Do
  <1>7. "M" \notin {"A"} /\ "M" \notin {"D"} /\ "M" \notin {}
    OBVIOUS
  <1> QED
    BY <1>1, <1>4, <1>5, <1>6, <1>7, ROM

(* The program stores in its variables and in the screen only.             *)
THEOREM FillStoresInPlace == Spec => []StoresInPlace
  <1>1. FillInv => StoresInPlace
    <2> SUFFICES ASSUME FillInv PROVE StoresInPlace
      OBVIOUS
    <2> USE DEF FillInv
    <2>1. ASSUME writeM(ROM32K(PC))
          PROVE  Addressed \in {AddressOf[s] : s \in Names} \cup (SCREEN..(KBD - 1))
      <3>1. Counter \in {1, 13, 21, 27, 31, 42, 44}
        BY <2>1, WritesAt
      <3>2. \/ AValue \in {VARIABLE_START, VARIABLE_START + 1, VARIABLE_START + 2}
            \/ AValue \in RAMSize..(KeyboardAt - 1)
        <4>1. CASE Counter = 42
          BY <4>1, FillSizes DEF Computed, OnScreen, KeyboardAt
        <4> QED
          BY <3>1, <4>1, HeldAt
      <3>3. Addressed = AValue
        <4>1. Location(AValue) = Addressed
          BY ValueIs DEF TypeOK, AValue, AsNumber, Addressed
        <4>2. AValue \in Stored
          BY <3>2, VariablesStored
        <4> QED
          BY <4>1, <4>2, LocationsIn
      <3>4. SCREEN = RAMSize /\ KBD = KeyboardAt
        BY FillAssumption DEF KeyboardAt
      <3> QED
        BY <3>2, <3>3, <3>4, AddressOfIs, NamesAre
    <2>2. ASSUME NEW a \in ScreenAddress PROVE Screen[a] \in {White, Black}
      BY ScreenWord, ShadesAre DEF InPlace
    <2> QED
      BY <2>1, <2>2 DEF StoresInPlace
  <1> QED
    BY <1>1, FillInit, FillNext, PTL DEF Spec

(* The variable color tells what the whole screen shows whenever the       *)
(* keyboard has been read, as long as there is no reset.                   *)
THEOREM FillColorTellsScreen ==
    ASSUME Resets = {FALSE}
    PROVE  Spec => []ColorTellsScreen
  <1>1. FillInv /\ Drawn => ColorTellsScreen
    <2> SUFFICES ASSUME FillInv, Drawn, AtLabel("KEY_PRESSED") \/ AtLabel("KEY_NOT_PRESSED")
                 PROVE  Value("color") \in {White, Black} /\ Painted(Value("color"))
      BY DEF ColorTellsScreen
    <2> USE DEF FillInv
    <2>1. Counter = 8 \/ Counter = 16
      BY AddressOfIs DEF AtLabel, Counter
    <2>2. Shows(KeyboardAt)
      BY <2>1 DEF Drawn
    <2>3. Value("color") \in Word /\ Color = AsNumber(Value("color"))
      BY AddressOfIs, RAMWord, VariablesStored DEF Value, Color
    <2>4. Value("color") \in {White, Black}
      BY <2>3, ShadesAre DEF InPlace
    <2>5. ASSUME NEW a \in ScreenAddress PROVE Screen[a] = Value("color")
      <3>1. Screen[a] \in Word /\ AsNumber(Screen[a]) = Color
        BY <2>2, ScreenWord DEF Shows
      <3> QED
        BY <2>3, <3>1, ValueInjective
    <2> QED
      BY <2>4, <2>5 DEF Painted
  <1> QED
    BY <1>1, FillInit, FillNext, DrawnStep, PTL DEF Spec

=============================================================================
