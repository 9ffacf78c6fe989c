---------------------------- MODULE MExecProofs ----------------------------
(***************************************************************************)
(* For every width and all operands: the multiplier and the divider        *)
(* compute what the M extension says, and keep the promise the core relies *)
(* on.                                                                     *)
(***************************************************************************)
EXTENDS MExec, NatLemmas, TLAPS

-----------------------------------------------------------------------------
(* Powers of two.  That the recursion defines a function is shown by       *)
(* building it up to the last exponent.                                    *)

\* The definition of Pow2 has a solution, which is Pow2.
LEMMA PowIs == Pow2 = [n \in 0 .. XLEN |-> IF n = 0 THEN 1 ELSE 2 * Pow2[n - 1]]
<1> DEFINE Upto(f, n) == f[0] = 1 /\ \A k \in 1 .. n : f[k] = 2 * f[k - 1]
           Missing == {n \in 0 .. XLEN : ~ \E f \in [0 .. XLEN -> Int] : Upto(f, n)}
<1>1. XLEN \in Nat /\ XLEN >= 4
  BY HalfAssumption DEF XLEN
<1>2. Missing = {}
  <2> SUFFICES ASSUME Missing # {} PROVE FALSE
    OBVIOUS
  <2>1. Missing \in SUBSET Nat
    BY <1>1
  <2> HIDE DEF Missing
  <2>2. PICK m \in Missing : \A n \in Missing : m <= n
    BY <2>1, LeastElement
  <2> USE DEF Missing
  <2>3. m # 0
    <3> DEFINE f == [n \in 0 .. XLEN |-> 1]
    <3>1. f \in [0 .. XLEN -> Int] /\ f[0] = 1
      BY <1>1
    <3>2. Upto(f, 0)
      BY <3>1
    <3> QED
      BY <2>2, <3>1, <3>2
  <2>4. m - 1 \in 0 .. XLEN /\ m - 1 \notin Missing
    <3>1. m \in 0 .. XLEN
      BY <2>2
    <3>2. m \in Nat /\ m - 1 \in 0 .. XLEN /\ ~(m <= m - 1)
      BY <1>1, <2>3, <3>1
    <3> HIDE DEF Missing
    <3> QED
      BY <2>2, <3>2
  <2>5. PICK f \in [0 .. XLEN -> Int] : Upto(f, m - 1)
    BY <2>4
  <2> DEFINE g == [f EXCEPT ![m] = 2 * f[m - 1]]
  <2>6. g \in [0 .. XLEN -> Int] /\ g[m] = 2 * f[m - 1] /\ \A k \in 0 .. m - 1 : g[k] = f[k]
    BY <2>2, <2>4
  <2>7. Upto(g, m)
    <3> HIDE DEF g
    <3>1. g[0] = 1
      BY <2>2, <2>3, <2>5, <2>6
    <3>2. ASSUME NEW k \in 1 .. m PROVE g[k] = 2 * g[k - 1]
      <4>1. CASE k = m
        BY <2>2, <2>4, <2>6, <4>1
      <4>2. CASE k # m
        BY <2>2, <2>4, <2>5, <2>6, <4>2
      <4> QED
        BY <4>1, <4>2
    <3> QED
      BY <3>1, <3>2
  <2> QED
    BY <2>2, <2>6, <2>7
<1>3. PICK f \in [0 .. XLEN -> Int] : Upto(f, XLEN)
  <2>1. XLEN \in 0 .. XLEN
    BY <1>1
  <2> HIDE DEF Upto
  <2> QED
    BY <1>2, <2>1
<1>4. f = [n \in 0 .. XLEN |-> IF n = 0 THEN 1 ELSE 2 * f[n - 1]]
  <2> DEFINE h == [n \in 0 .. XLEN |-> IF n = 0 THEN 1 ELSE 2 * f[n - 1]]
  <2>1. ASSUME NEW n \in 0 .. XLEN PROVE f[n] = h[n]
    <3>1. n # 0 => n \in 1 .. XLEN
      BY <1>1
    <3> QED
      BY <1>3, <3>1
  <2> QED
    BY <2>1
<1> QED
  BY <1>4 DEF Pow2

\* Each power is twice the one before.
LEMMA PowStep == /\ Pow2[0] = 1
                 /\ \A n \in 1 .. XLEN : Pow2[n] = 2 * Pow2[n - 1]
<1>1. XLEN \in Nat
  BY HalfAssumption DEF XLEN
<1> QED
  BY <1>1, PowIs

\* Powers are positive.
LEMMA PowPositive == \A n \in 0 .. XLEN : Pow2[n] \in Nat \ {0}
<1> DEFINE Bad == {n \in 0 .. XLEN : Pow2[n] \notin Nat \ {0}}
<1>1. XLEN \in Nat
  BY HalfAssumption DEF XLEN
<1>2. Bad = {}
  <2> SUFFICES ASSUME Bad # {} PROVE FALSE
    OBVIOUS
  <2>1. Bad \in SUBSET Nat
    BY <1>1
  <2> HIDE DEF Bad
  <2>2. PICK m \in Bad : \A n \in Bad : m <= n
    BY <2>1, LeastElement
  <2> USE DEF Bad
  <2>3. m # 0
    BY <2>2, PowStep
  <2>4. m - 1 \in 0 .. XLEN /\ m - 1 \notin Bad
    BY <1>1, <2>2, <2>3
  <2>5. Pow2[m] = 2 * Pow2[m - 1]
    BY <1>1, <2>2, <2>3, PowStep
  <2> QED
    BY <2>2, <2>4, <2>5
<1> QED
  BY <1>2

\* Powers multiply as exponents add.
LEMMA PowSum ==
    ASSUME NEW m \in 0 .. XLEN, NEW n \in 0 .. XLEN, m + n <= XLEN
    PROVE  Pow2[m + n] = Pow2[m] * Pow2[n]
<1> DEFINE Bad == {k \in 0 .. XLEN : m + k <= XLEN /\ Pow2[m + k] # Pow2[m] * Pow2[k]}
<1>1. XLEN \in Nat
  BY HalfAssumption DEF XLEN
<1>2. Bad = {}
  <2> SUFFICES ASSUME Bad # {} PROVE FALSE
    OBVIOUS
  <2>1. Bad \in SUBSET Nat
    BY <1>1
  <2> HIDE DEF Bad
  <2>2. PICK k \in Bad : \A j \in Bad : k <= j
    BY <2>1, LeastElement
  <2> USE DEF Bad
  <2>3. k # 0
    BY <2>2, PowStep, PowPositive
  <2>4. k - 1 \in 0 .. XLEN /\ k - 1 \notin Bad /\ m + (k - 1) <= XLEN
    BY <1>1, <2>2, <2>3
  <2>5. Pow2[m + (k - 1)] = Pow2[m] * Pow2[k - 1]
    BY <2>4
  <2>6. /\ Pow2[k] = 2 * Pow2[k - 1]
        /\ Pow2[m + k] = 2 * Pow2[m + (k - 1)]
    <3>1. k \in 1 .. XLEN /\ m + k \in 1 .. XLEN /\ (m + k) - 1 = m + (k - 1)
      BY <1>1, <2>2, <2>3
    <3> QED
      BY <3>1, PowStep
  <2>7. Pow2[m] \in Int /\ Pow2[k - 1] \in Int
    BY <2>4, PowPositive
  <2>8. Pow2[m + k] = Pow2[m] * Pow2[k]
    BY <2>5, <2>6, <2>7
  <2> QED
    BY <2>2, <2>8
<1> QED
  BY <1>2

-----------------------------------------------------------------------------
(* What the unit holds, in terms of the numbers the instruction is about.  *)

Full    == Pow2[XLEN]
Top     == Pow2[XLEN - 1]
Half    == Pow2[HALF]
HalfTop == Pow2[HALF - 1]

First(i)  == Number(i, i.op1)
Second(i) == Number(i, i.rs2_val)
IsMul(i)  == i.sel \in {MUL, MULH}

Types == /\ id_ex \in MInstr \union {NoOp}
         /\ state \in {"IDLE", "MUL", "DIV"}
         /\ ready_q \in BOOLEAN /\ (ready_q => state = "IDLE")

\* The unit works for the instruction in EX.
Owner == state # "IDLE" \/ ready_q =>
            /\ id_ex # NoOp
            /\ op_q = [a |-> Asked(id_ex).a, b |-> Asked(id_ex).b, sel |-> id_ex.sel]

Product == /\ state = "MUL" => IsMul(id_ex)
           /\ (state = "MUL" \/ ready_q) /\ IsMul(id_ex) => mul_res = op_q.a * op_q.b

\* The signs to be given to quotient and remainder.
Signs == /\ neg_quot_q <=> signed_op(id_ex) /\ ((First(id_ex) < 0) # (Second(id_ex) < 0))
         /\ neg_rem_q  <=> signed_op(id_ex) /\ First(id_ex) < 0

\* div_a holds what is left of the dividend at its upper end.
Division == state = "DIV" =>
               /\ ~IsMul(id_ex) /\ ~Special(Asked(id_ex)) /\ Signs
               /\ div_b = Mag(Second(id_ex)) /\ div_b > 0
               /\ iter_q \in 0 .. XLEN
               /\ div_a = Left * Pow2[XLEN - iter_q] /\ Left \in 0 .. Pow2[iter_q] - 1
               /\ quot_q \in Nat /\ rem_q \in 0 .. div_b - 1
               /\ (quot_q * div_b + rem_q) * Pow2[iter_q] + Left = Mag(First(id_ex))

Divided == ready_q /\ ~IsMul(id_ex) =>
              IF Special(Asked(id_ex))
              THEN /\ ~neg_quot_q /\ ~neg_rem_q
                   /\ quot_q = IF signed_overflow(Asked(id_ex)) THEN op_q.a ELSE Ones
                   /\ rem_q = IF signed_overflow(Asked(id_ex)) THEN 0 ELSE op_q.a
              ELSE /\ Signs
                   /\ quot_q \in Nat /\ rem_q \in 0 .. Mag(Second(id_ex)) - 1
                   /\ quot_q * Mag(Second(id_ex)) + rem_q = Mag(First(id_ex))

UnitInv == Types /\ Owner /\ Product /\ Division /\ Divided

-----------------------------------------------------------------------------
(* A number in the width of the unit.                                      *)

\* How the four powers the unit uses hang together.
LEMMA Sizes == /\ Full \in Nat /\ Top \in Nat /\ Half \in Nat /\ HalfTop \in Nat
               /\ Full = 2 * Top /\ Half = 2 * HalfTop
               /\ Full = Half * Half /\ Top = HalfTop * Half
               /\ HalfTop >= 2 /\ Top >= 2 * Half
<1>1. /\ HALF \in Nat /\ HALF >= 2 /\ XLEN \in Nat /\ XLEN = HALF + HALF
      /\ XLEN - 1 = (HALF - 1) + HALF
  BY HalfAssumption DEF XLEN
<1>2. /\ Full = 2 * Top /\ Half = 2 * HalfTop /\ HalfTop = 2 * Pow2[HALF - 2]
  <2>1. XLEN \in 1 .. XLEN /\ HALF \in 1 .. XLEN /\ HALF - 1 \in 1 .. XLEN /\ (HALF - 1) - 1 = HALF - 2
    BY <1>1
  <2> QED
    BY <2>1, PowStep DEF Full, Top, Half, HalfTop
<1>3. Full = Half * Half
  <2>1. HALF \in 0 .. XLEN /\ HALF + HALF <= XLEN
    BY <1>1
  <2> QED
    BY <1>1, <2>1, PowSum DEF Full, Half
<1>4. Top = HalfTop * Half
  <2>1. HALF \in 0 .. XLEN /\ HALF - 1 \in 0 .. XLEN /\ (HALF - 1) + HALF <= XLEN
    BY <1>1
  <2> QED
    BY <1>1, <2>1, PowSum DEF Top, Half, HalfTop
<1>5. Full \in Nat /\ Top \in Nat /\ Half \in Nat \ {0} /\ HalfTop \in Nat /\ Pow2[HALF - 2] \in Nat \ {0}
  BY <1>1, PowPositive DEF Full, Top, Half, HalfTop
<1>6. HalfTop >= 2
  BY <1>2, <1>5
<1>7. HalfTop * Half >= 2 * Half
  <2>1. \A h, k \in Nat : h >= 2 => h * k >= 2 * k
    <3> TAKE h, k \in Nat
    <3> HAVE h >= 2
    <3>1. (h - 2) * k >= 0
      OBVIOUS
    <3> QED
      BY <3>1
  <2> QED
    BY <1>5, <1>6, <2>1
<1> QED
  BY <1>2, <1>3, <1>4, <1>5, <1>6, <1>7

\* A number as the word that stands for it.
Coded(m) == IF m < 0 THEN m + Full ELSE m

\* That word is the number modulo Full.
LEMMA CodedMod ==
    ASSUME NEW m \in Int, -Full <= m, m < Full
    PROVE  m % Full = Coded(m) /\ Coded(m) \in 0 .. Full - 1
<1>1. Full \in Nat \ {0}
  BY Sizes
<1>2. CASE m < 0
  <2>1. m + Full \in 0 .. Full - 1 /\ m = Full * (-1) + (m + Full)
    BY <1>1, <1>2
  <2> QED
    <3> DEFINE q == -1
               r == m + Full
    <3>1. q \in Int /\ r \in 0 .. Full - 1 /\ m = Full * q + r
      BY <1>1, <2>1
    <3> HIDE DEF q, r
    <3>2. m % Full = r
      BY <1>1, <3>1, Quotient
    <3> QED
      BY <1>2, <2>1, <3>2 DEF Coded, r
<1>3. CASE ~(m < 0)
  BY <1>1, <1>3, Below DEF Coded
<1> QED
  BY <1>2, <1>3

\* What core.sv prepares is the operand's number as a word.
LEMMA OperandCoded ==
    ASSUME NEW i \in MInstr, NEW v \in Words
    PROVE  LET m == Number(i, v)
           IN  /\ m \in Int /\ Operand(i, v) = Coded(m)
               /\ IF i.sel \in {DIVU, REMU}
                  THEN 0 <= m /\ m < (IF i.is_word THEN Half ELSE Full)
                  ELSE LET t == IF i.is_word THEN HalfTop ELSE Top IN -t <= m /\ m < t
<1>1. v \in Nat /\ v < Full /\ i.is_word \in BOOLEAN
  BY Sizes DEF Words, Full, MInstr
<1>2. CASE ~i.is_word
  <2>1. Width(i) = XLEN /\ Pow2[Width(i)] = Full /\ Pow2[Width(i) - 1] = Top
    BY <1>2 DEF Width, Full, Top
  <2>2. Unsigned(i, v) = v
    BY <1>1, <2>1, Sizes, Below DEF Unsigned
  <2>3. Operand(i, v) = v
    BY <1>2 DEF Operand
  <2>4. Number(i, v) = IF i.sel \in {DIVU, REMU} \/ v < Top THEN v ELSE v - Full
    BY <1>1, <2>1, <2>2, Sizes DEF Number, Signed
  <2> QED
    BY <1>1, <1>2, <2>3, <2>4, Sizes DEF Coded
<1>3. CASE i.is_word
  <2>1. Width(i) = HALF /\ Pow2[Width(i)] = Half /\ Pow2[Width(i) - 1] = HalfTop
    BY <1>3 DEF Width, Half, HalfTop
  <2> DEFINE u == v % Half
  <2>2. Unsigned(i, v) = u /\ Low(v) = u
    BY <2>1 DEF Unsigned, Low, Half
  <2>3. u \in 0 .. Half - 1
    BY <1>1, Sizes, DivMod
  <2> HIDE DEF u
  <2>4. Number(i, v) = IF i.sel \in {DIVU, REMU} \/ u < HalfTop THEN u ELSE u - Half
    BY <2>1, <2>2, <2>3, Sizes DEF Number, Signed
  <2>5. Operand(i, v) = IF i.sel \in {DIVU, REMU} \/ u < HalfTop THEN u ELSE u + Full - Half
    BY <1>3, <2>2, <2>3, Sizes DEF Operand, muldiv_unsigned_w, SignExtend, Half, HalfTop, Full
  <2> QED
    BY <1>3, <2>3, <2>4, <2>5, Sizes DEF Coded
<1> QED
  BY <1>1, <1>2, <1>3

\* The sign of a word, and the absolute value behind it.
LEMMA CodedSign ==
    ASSUME NEW m \in Int, -Top <= m, m < Top
    PROVE  /\ Negative(Coded(m)) <=> m < 0
           /\ Abs(Coded(m)) = Mag(m)
<1>1. Negative(Coded(m)) <=> m < 0
  BY Sizes DEF Negative, Coded, Top
<1>2. CASE m < 0
  <2>1. (Full - (m + Full)) % Full = -m
    <3>1. Full - (m + Full) = -m /\ -m \in 0 .. Full - 1
      BY <1>2, Sizes
    <3> QED
      BY <3>1, Sizes, Below
  <2> QED
    BY <1>1, <1>2, <2>1 DEF Abs, Neg, Full, Mag, Coded
<1>3. CASE ~(m < 0)
  BY <1>1, <1>3 DEF Abs, Mag, Coded
<1> QED
  BY <1>1, <1>2, <1>3

\* The low half of a word that stands for a number of that width.
LEMMA CodedLow ==
    ASSUME NEW m \in Int, -HalfTop <= m, m < HalfTop
    PROVE  /\ Low(Coded(m)) = IF m < 0 THEN m + Half ELSE m
           /\ Low(Mag(m)) = Mag(m)
<1>1. Half \in Nat \ {0}
  BY Sizes
<1>2. CASE m < 0
  <2>1. m + Full = Half * (Half - 1) + (m + Half) /\ m + Half \in 0 .. Half - 1
    BY <1>2, Sizes
  <2>2. (m + Full) % Half = m + Half
    <3> DEFINE q == Half - 1
               r == m + Half
               v == m + Full
    <3>1. q \in Int /\ r \in 0 .. Half - 1 /\ v = Half * q + r
      BY <1>1, <2>1
    <3> HIDE DEF q, r, v
    <3>2. v % Half = r
      BY <1>1, <3>1, Quotient
    <3> QED
      BY <3>2 DEF v, r
  <2>3. -m \in 0 .. Half - 1
    BY <1>2, Sizes
  <2> QED
    BY <1>1, <1>2, <2>2, <2>3, Below DEF Low, Coded, Half, Mag
<1>3. CASE ~(m < 0)
  <2>1. m \in 0 .. Half - 1
    BY <1>3, Sizes
  <2> QED
    BY <1>1, <1>3, <2>1, Below DEF Low, Coded, Half, Mag
<1> QED
  BY <1>2, <1>3

\* What the divider starts from: absolute values, in the width of the instruction, and
\* the signs.
LEMMA Prepared ==
    ASSUME NEW i \in MInstr, NEW v \in Words
    PROVE  LET m == Number(i, v)
               e == Operand(i, v)
               a == IF unsigned_op(i) THEN e ELSE Abs(e)
           IN  /\ m \in Int /\ e \in 0 .. Full - 1
               /\ Mag(m) = IF i.is_word THEN Low(a) ELSE a
               /\ Mag(m) \in 0 .. (IF i.is_word THEN Half ELSE Full) - 1
               /\ ~unsigned_op(i) =>
                     /\ Negative(e) <=> m < 0
                     /\ m < 0 <=> IF i.is_word THEN Low(e) >= HalfTop ELSE Negative(e)
               /\ (e = 0) <=> (m = 0)
               /\ e = Ones /\ ~unsigned_op(i) => m = -1
<1> DEFINE m == Number(i, v)
           e == Operand(i, v)
           a == IF unsigned_op(i) THEN e ELSE Abs(e)
<1>1. /\ m \in Int /\ e = Coded(m)
      /\ IF unsigned_op(i)
         THEN 0 <= m /\ m < (IF i.is_word THEN Half ELSE Full)
         ELSE IF i.is_word THEN -HalfTop <= m /\ m < HalfTop ELSE -Top <= m /\ m < Top
  BY OperandCoded DEF unsigned_op
<1> HIDE DEF m, e
<1>2. Half <= Full /\ HalfTop <= Top /\ HalfTop <= Half - 1 /\ Top <= Full - 1 /\ Half <= Top
  BY Sizes
<1>3. -Full <= m /\ m < Full
  BY <1>1, <1>2, Sizes
<1>4. e \in 0 .. Full - 1 /\ ((e = 0) <=> (m = 0))
  BY <1>1, <1>3, CodedMod, Sizes DEF Coded
<1>5. e = Ones /\ ~unsigned_op(i) => m = -1
  BY <1>1, <1>2, Sizes DEF Coded, Ones, Full
<1>6. CASE unsigned_op(i)
  <2>1. e = m /\ Mag(m) = m /\ a = e
    BY <1>1, <1>6 DEF Coded, Mag
  <2>2. i.is_word => Low(m) = m
    <3>1. i.is_word => m \in 0 .. Half - 1
      BY <1>1, <1>6, Sizes
    <3> QED
      BY <3>1, Sizes, Below DEF Low, Half
  <2>3. Mag(m) \in 0 .. (IF i.is_word THEN Half ELSE Full) - 1
    BY <1>1, <1>6, <2>1, Sizes
  <2> QED
    BY <1>1, <1>4, <1>5, <1>6, <2>1, <2>2, <2>3 DEF m, e
<1>7. CASE ~unsigned_op(i)
  <2>1. -Top <= m /\ m < Top
    BY <1>1, <1>2, <1>7, Sizes
  <2>2. (Negative(e) <=> m < 0) /\ a = Mag(m)
    BY <1>1, <1>7, <2>1, CodedSign
  <2>3. i.is_word => Low(a) = Mag(m) /\ (Low(e) >= HalfTop <=> m < 0)
    <3>1. ASSUME i.is_word
          PROVE  Low(Mag(m)) = Mag(m) /\ Low(e) = IF m < 0 THEN m + Half ELSE m
      BY <1>1, <1>7, <3>1, CodedLow
    <3> QED
      BY <1>1, <1>7, <2>2, <3>1, Sizes
  <2>4. Mag(m) \in 0 .. (IF i.is_word THEN Half ELSE Full) - 1
    BY <1>1, <1>2, <1>7, Sizes DEF Mag
  <2> QED
    BY <1>1, <1>4, <1>5, <1>7, <2>2, <2>3, <2>4 DEF m, e
<1> QED
  BY <1>6, <1>7

-----------------------------------------------------------------------------
(* The shift-subtract loop.                                                *)

\* What the unit is asked for, field by field.
LEMMA AskedIs ==
    ASSUME NEW i
    PROVE  /\ Asked(i).a = Operand(i, i.op1) /\ Asked(i).b = Operand(i, i.rs2_val)
           /\ Asked(i).sel = i.sel /\ (Asked(i).is_word <=> i.is_word)
           /\ (signed_op(Asked(i)) <=> signed_op(i)) /\ (unsigned_op(Asked(i)) <=> unsigned_op(i))
BY DEF Asked, signed_op, unsigned_op

\* The loop starts with the whole dividend still to come.
LEMMA DivisionStarts ==
    ASSUME id_ex \in MInstr, StartDiv(Asked(id_ex)), id_ex' = id_ex
    PROVE  Division'
<1> DEFINE r == Asked(id_ex)
           m == First(id_ex)
           n == Second(id_ex)
<1>1. id_ex.op1 \in Words /\ id_ex.rs2_val \in Words /\ id_ex.is_word \in BOOLEAN
  BY DEF MInstr
<1>2. /\ m \in Int /\ n \in Int
      /\ Mag(m) = IF id_ex.is_word THEN Low(IF unsigned_op(id_ex) THEN r.a ELSE Abs(r.a))
                  ELSE IF unsigned_op(id_ex) THEN r.a ELSE Abs(r.a)
      /\ Mag(n) = IF id_ex.is_word THEN Low(IF unsigned_op(id_ex) THEN r.b ELSE Abs(r.b))
                  ELSE IF unsigned_op(id_ex) THEN r.b ELSE Abs(r.b)
      /\ Mag(m) \in 0 .. (IF id_ex.is_word THEN Half ELSE Full) - 1
      /\ Mag(n) \in 0 .. (IF id_ex.is_word THEN Half ELSE Full) - 1
      /\ (r.b = 0) <=> (n = 0)
  BY <1>1, AskedIs, Prepared DEF First, Second
<1>3. ~unsigned_op(id_ex) => /\ Negative(r.a) <=> m < 0
                             /\ Negative(r.b) <=> n < 0
                             /\ m < 0 <=> IF id_ex.is_word THEN Low(r.a) >= HalfTop ELSE Negative(r.a)
  BY <1>1, AskedIs, Prepared DEF First, Second
<1> HIDE DEF m, n, r
<1>4. /\ ~IsMul(id_ex) /\ ~Special(r)
      /\ neg_quot_q' = (signed_op(r) /\ Negative(r.a) # Negative(r.b))
      /\ neg_rem_q' = (signed_op(r) /\ IF r.is_word THEN Low(r.a) >= HalfTop ELSE Negative(r.a))
      /\ div_a' = IF id_ex.is_word THEN Mag(m) * Half ELSE Mag(m)
      /\ div_b' = Mag(n)
      /\ iter_q' = IF id_ex.is_word THEN HALF ELSE XLEN
      /\ rem_q' = 0 /\ quot_q' = 0
  BY <1>2, AskedIs DEF StartDiv, IsMul, Half, HalfTop, r
<1>5. Signs'
  <2>1. signed_op(id_ex) => ~unsigned_op(id_ex)
    BY DEF signed_op, unsigned_op, DIV, REM, DIVU, REMU
  <2>2. /\ neg_quot_q' <=> signed_op(id_ex) /\ ((m < 0) # (n < 0))
        /\ neg_rem_q'  <=> signed_op(id_ex) /\ m < 0
    <3>1. signed_op(r) <=> signed_op(id_ex)
      BY AskedIs DEF r
    <3>2. r.is_word <=> id_ex.is_word
      BY AskedIs DEF r
    <3>3. CASE signed_op(id_ex)
      <4>1. /\ neg_quot_q' <=> Negative(r.a) # Negative(r.b)
            /\ neg_rem_q' <=> IF r.is_word THEN Low(r.a) >= HalfTop ELSE Negative(r.a)
        BY <1>4, <3>1, <3>3
      <4>2. /\ Negative(r.a) <=> m < 0
            /\ Negative(r.b) <=> n < 0
            /\ m < 0 <=> IF r.is_word THEN Low(r.a) >= HalfTop ELSE Negative(r.a)
        BY <1>3, <2>1, <3>2, <3>3
      <4> QED
        BY <3>3, <4>1, <4>2 DEF Negative
    <3>4. CASE ~signed_op(id_ex)
      BY <1>4, <3>1, <3>4
    <3> QED
      BY <3>3, <3>4
  <2> QED
    BY <2>2 DEF Signs, m, n, First, Second, signed_op
<1>6. Mag(n) > 0
  BY <1>2, <1>4 DEF Special, Mag
<1>7. /\ HALF \in 0 .. XLEN /\ XLEN \in 0 .. XLEN /\ XLEN - HALF = HALF /\ XLEN - XLEN = 0
  BY HalfAssumption DEF XLEN
<1>8. /\ div_a' \div Pow2[XLEN - iter_q'] = Mag(m)
      /\ div_a' = Mag(m) * Pow2[XLEN - iter_q']
      /\ Mag(m) \in 0 .. Pow2[iter_q'] - 1
  <2>1. CASE id_ex.is_word
    <3>1. iter_q' = HALF /\ Pow2[XLEN - iter_q'] = Half /\ Pow2[iter_q'] = Half /\ div_a' = Mag(m) * Half
      BY <1>4, <1>7, <2>1 DEF Half
    <3>2. Half \in Nat \ {0} /\ 0 \in 0 .. Half - 1 /\ Mag(m) \in Int /\ div_a' = Half * Mag(m) + 0
      BY <1>2, <3>1, <2>1, Sizes
    <3>3. div_a' \div Half = Mag(m)
      BY <3>2, Quotient
    <3> QED
      BY <1>2, <2>1, <3>1, <3>3
  <2>2. CASE ~id_ex.is_word
    <3>1. iter_q' = XLEN /\ Pow2[XLEN - iter_q'] = 1 /\ Pow2[iter_q'] = Full /\ div_a' = Mag(m)
      BY <1>4, <1>7, <2>2, PowStep DEF Full
    <3>2. Mag(m) \in Int
      BY <1>2, <2>2, Sizes
    <3> QED
      BY <1>2, <2>2, <3>1, <3>2
  <2> QED
    BY <2>1, <2>2
<1>9. Mag(m) \in Nat /\ Mag(n) \in Nat /\ Pow2[iter_q'] \in Nat /\ iter_q' \in 0 .. XLEN
  BY <1>2, <1>4, <1>7, Sizes, PowPositive
<1>10. (quot_q' * div_b' + rem_q') * Pow2[iter_q'] + Mag(m) = Mag(m)
  BY <1>4, <1>9
<1>11. Left' = Mag(m)
  BY <1>8 DEF Left
<1>12. quot_q' \in Nat /\ rem_q' \in 0 .. div_b' - 1
  BY <1>4, <1>6, <1>9
<1> QED
  BY <1>4, <1>5, <1>6, <1>8, <1>9, <1>10, <1>11, <1>12
     DEF Division, m, n, r, First, Second, IsMul, Special, signed_overflow, signed_op

\* Products in order.
LEMMA Times ==
    ASSUME NEW a \in Nat, NEW b \in Nat, NEW c \in Nat \ {0}
    PROVE  /\ a * c \in Nat /\ a <= a * c
           /\ a * c < b * c => a < b
<1>1. a * c \in Nat
  OBVIOUS
<1>2. a * (c - 1) >= 0
  OBVIOUS
<1>3. a * c = a * (c - 1) + a
  OBVIOUS
<1>4. CASE a >= b
  <2>1. (a - b) * c >= 0
    BY <1>4
  <2>2. (a - b) * c = a * c - b * c
    OBVIOUS
  <2> QED
    BY <1>1, <1>2, <1>3, <2>1, <2>2
<1> QED
  BY <1>1, <1>2, <1>3, <1>4

\* One iteration: l is what is left of the dividend and moves up by one place, its top
\* bit comes down; no bit of quotient or remainder is lost above.
LEMMA OneBit ==
    ASSUME NEW p \in Nat \ {0}, NEW h \in Nat \ {0}, NEW l \in 0 .. 2 * h - 1,
           NEW q \in Nat, NEW d \in Nat \ {0}, NEW r \in 0 .. d - 1,
           (q * d + r) * (2 * h) + l < p * (2 * h)
    PROVE  \E bit \in {0, 1} :
               /\ (l * p) \div (p * h) = bit /\ l - bit * h \in 0 .. h - 1
               /\ (2 * (l * p)) % (2 * (p * h)) = (l - bit * h) * (2 * p)
               /\ (2 * q) % (2 * (p * h)) = 2 * q
               /\ (2 * r) % (2 * (p * h)) = 2 * r
               /\ r < p * h
<1> DEFINE bit  == IF l >= h THEN 1 ELSE 0
           rest == l - bit * h
           top  == p * h
           T    == q * d + r
<1>1. bit \in {0, 1} /\ rest \in 0 .. h - 1 /\ l = bit * h + rest
  OBVIOUS
<1>2. top \in Nat \ {0} /\ p <= top
  BY Times
<1>3. T \in Nat /\ q <= T /\ r <= T
  <2>1. q * d \in Nat /\ q <= q * d
    BY Times
  <2> QED
    BY <2>1
<1>4. T < p
  <2>1. T * (2 * h) < p * (2 * h) /\ 2 * h \in Nat \ {0}
    BY <1>3
  <2> HIDE DEF T
  <2> QED
    BY <1>3, <2>1, Times
<1> HIDE DEF bit, rest, T
<1>5. rest * p \in 0 .. top - 1
  <2>1. (h - 1 - rest) * p >= 0 /\ rest * p >= 0
    BY <1>1
  <2>2. (h - 1 - rest) * p = top - p - rest * p
    BY <1>1
  <2>3. rest * p \in Int
    BY <1>1
  <2> QED
    BY <1>2, <2>1, <2>2, <2>3
<1>6. l * p = top * bit + rest * p
  <2>1. (bit * h + rest) * p = (p * h) * bit + rest * p
    BY <1>1
  <2> QED
    BY <1>1, <2>1
<1> HIDE DEF top
<1>7. (l * p) \div top = bit
  <2> DEFINE v == l * p
             s == rest * p
  <2>1. bit \in Int /\ s \in 0 .. top - 1 /\ v = top * bit + s
    BY <1>1, <1>5, <1>6
  <2> HIDE DEF v, s
  <2>2. v \div top = bit
    BY <1>2, <2>1, Quotient
  <2> QED
    BY <2>2 DEF v
<1>8. (2 * (l * p)) % (2 * top) = rest * (2 * p)
  <2> DEFINE v == 2 * (l * p)
             s == rest * (2 * p)
             n == 2 * top
  <2>1. s = 2 * (rest * p) /\ rest * p \in Int /\ l * p \in Int
    BY <1>1
  <2>2. n \in Nat \ {0} /\ bit \in Int /\ s \in 0 .. n - 1 /\ v = n * bit + s
    <3> DEFINE w == rest * p
    <3>1. w \in 0 .. top - 1 /\ s = 2 * w /\ v = 2 * (top * bit + w) /\ top * bit \in Int
      BY <1>1, <1>2, <1>5, <1>6, <2>1
    <3> HIDE DEF w, s, v
    <3>2. 2 * (top * bit + w) = (2 * top) * bit + 2 * w
      BY <1>1, <1>2, <3>1
    <3> QED
      BY <1>1, <1>2, <3>1, <3>2
  <2> HIDE DEF v, s, n
  <2>3. v % n = s
    BY <2>2, Quotient
  <2> QED
    BY <2>3 DEF v, s, n
<1>9. (2 * q) % (2 * top) = 2 * q /\ (2 * r) % (2 * top) = 2 * r /\ r < top
  <2> DEFINE n == 2 * top
             qq == 2 * q
             rr == 2 * r
  <2>1. n \in Nat \ {0} /\ qq \in 0 .. n - 1 /\ rr \in 0 .. n - 1 /\ r < top
    BY <1>2, <1>3, <1>4
  <2> HIDE DEF n, qq, rr
  <2>2. qq % n = qq /\ rr % n = rr
    BY <2>1, Below
  <2> QED
    BY <2>1, <2>2 DEF n, qq, rr
<1> QED
  BY <1>1, <1>7, <1>8, <1>9 DEF top, rest

\* The places in the loop: p below the dividend that is left, h in it.
LEMMA Places ==
    ASSUME NEW k \in 1 .. XLEN
    PROVE  LET p == Pow2[XLEN - k]
               h == Pow2[k - 1]
           IN  /\ p \in Nat \ {0} /\ h \in Nat \ {0}
               /\ Pow2[k] = 2 * h /\ Pow2[XLEN - (k - 1)] = 2 * p
               /\ Top = p * h /\ Full = 2 * (p * h)
<1>1. XLEN \in Nat
  BY HalfAssumption DEF XLEN
<1>2. /\ XLEN - k \in 0 .. XLEN /\ k - 1 \in 0 .. XLEN /\ (XLEN - k) + (k - 1) = XLEN - 1
      /\ XLEN - (k - 1) \in 1 .. XLEN /\ (XLEN - (k - 1)) - 1 = XLEN - k
  BY <1>1
<1>3. (XLEN - k) + (k - 1) <= XLEN
  BY <1>1
<1>4. Top = Pow2[XLEN - k] * Pow2[k - 1]
  BY <1>2, <1>3, PowSum DEF Top
<1> QED
  BY <1>2, <1>4, PowStep, PowPositive, Sizes

\* The next bit of the dividend, and the room there is for it.
LEMMA BitDown ==
    ASSUME id_ex \in MInstr, Division, state = "DIV", iter_q # 0
    PROVE  LET p == Pow2[XLEN - iter_q]
               h == Pow2[iter_q - 1]
               l == Left
           IN  /\ div_b \in Nat \ {0}
               /\ \E bit \in {0, 1} :
                     /\ (l * p) \div (p * h) = bit /\ l - bit * h \in 0 .. h - 1
                     /\ (2 * (l * p)) % (2 * (p * h)) = (l - bit * h) * (2 * p)
                     /\ (2 * quot_q) % (2 * (p * h)) = 2 * quot_q
                     /\ (2 * rem_q) % (2 * (p * h)) = 2 * rem_q
                     /\ rem_q < p * h
<1> DEFINE p == Pow2[XLEN - iter_q]
           h == Pow2[iter_q - 1]
           l == Left
           d == div_b
<1>1. /\ div_b = Mag(Second(id_ex)) /\ div_b > 0
      /\ iter_q \in 0 .. XLEN /\ Left \in 0 .. Pow2[iter_q] - 1
      /\ quot_q \in Nat /\ rem_q \in 0 .. div_b - 1
      /\ (quot_q * div_b + rem_q) * Pow2[iter_q] + Left = Mag(First(id_ex))
  BY DEF Division
<1>2. iter_q \in 1 .. XLEN
  BY <1>1, HalfAssumption DEF XLEN
<1>3. /\ p \in Nat \ {0} /\ h \in Nat \ {0} /\ Pow2[iter_q] = 2 * h
      /\ Full = 2 * (p * h)
  BY <1>2, Places
<1>4. d \in Nat \ {0}
  <2>1. Second(id_ex) \in Int
    BY OperandCoded DEF Second, MInstr
  <2> QED
    BY <1>1, <2>1 DEF Mag
<1>5. Mag(First(id_ex)) < p * (2 * h)
  <2>1. Mag(First(id_ex)) \in 0 .. (IF id_ex.is_word THEN Half ELSE Full) - 1
    BY Prepared DEF First, MInstr
  <2>2. p * (2 * h) = 2 * (p * h)
    BY <1>3
  <2> QED
    BY <1>3, <2>1, <2>2, Sizes
<1> HIDE DEF p, h, l, d
<1>6. /\ l \in 0 .. 2 * h - 1 /\ rem_q \in 0 .. d - 1 /\ quot_q \in Nat
      /\ (quot_q * d + rem_q) * (2 * h) + l < p * (2 * h)
  BY <1>1, <1>3, <1>5 DEF l, d
<1>7. \E bit \in {0, 1} :
          /\ (l * p) \div (p * h) = bit /\ l - bit * h \in 0 .. h - 1
          /\ (2 * (l * p)) % (2 * (p * h)) = (l - bit * h) * (2 * p)
          /\ (2 * quot_q) % (2 * (p * h)) = 2 * quot_q
          /\ (2 * rem_q) % (2 * (p * h)) = 2 * rem_q
          /\ rem_q < p * h
  BY <1>3, <1>4, <1>6, OneBit
<1> QED
  BY <1>4, <1>7 DEF p, h, l, d

\* An iteration keeps the division: a bit moves from what is left to the remainder.
LEMMA DivisionGoesOn ==
    ASSUME Types, Owner, Division, Iterate, id_ex' = id_ex
    PROVE  Division'
<1> DEFINE p == Pow2[XLEN - iter_q]
           h == Pow2[iter_q - 1]
           l == Left
           d == div_b
<1>1. /\ state = "DIV" /\ iter_q # 0 /\ id_ex \in MInstr
      /\ div_a' = shifted(div_a) /\ iter_q' = iter_q - 1 /\ div_b' = div_b
      /\ rem_q' = IF rem_ge THEN rem_shifted - div_b ELSE rem_shifted
      /\ quot_q' = IF rem_ge THEN shifted(quot_q) + 1 ELSE shifted(quot_q)
      /\ UNCHANGED <<neg_quot_q, neg_rem_q>>
  BY DEF Iterate, Types, Owner
<1>2. /\ ~IsMul(id_ex) /\ ~Special(Asked(id_ex)) /\ Signs
      /\ div_b = Mag(Second(id_ex)) /\ div_b > 0
      /\ iter_q \in 0 .. XLEN /\ div_a = Left * Pow2[XLEN - iter_q]
      /\ Left \in 0 .. Pow2[iter_q] - 1
      /\ quot_q \in Nat /\ rem_q \in 0 .. div_b - 1
      /\ (quot_q * div_b + rem_q) * Pow2[iter_q] + Left = Mag(First(id_ex))
  BY <1>1 DEF Division
<1>3. iter_q \in 1 .. XLEN /\ iter_q - 1 \in 0 .. XLEN
  BY <1>1, <1>2, HalfAssumption DEF XLEN
<1>4. /\ p \in Nat \ {0} /\ h \in Nat \ {0} /\ Pow2[iter_q] = 2 * h
      /\ Pow2[XLEN - (iter_q - 1)] = 2 * p
      /\ Top = p * h /\ Full = 2 * (p * h)
  BY <1>3, Places
<1>5. d \in Nat \ {0}
  BY <1>1, BitDown
<1> HIDE DEF p, h, l, d
<1>6. PICK bit \in {0, 1} :
          /\ (l * p) \div (p * h) = bit /\ l - bit * h \in 0 .. h - 1
          /\ (2 * (l * p)) % (2 * (p * h)) = (l - bit * h) * (2 * p)
          /\ (2 * quot_q) % (2 * (p * h)) = 2 * quot_q
          /\ (2 * rem_q) % (2 * (p * h)) = 2 * rem_q
          /\ rem_q < p * h
  BY <1>1, BitDown DEF p, h, l
<1>7. /\ div_a = l * p
      /\ div_a' = (l - bit * h) * (2 * p)
      /\ rem_shifted = 2 * rem_q + bit
      /\ shifted(quot_q) = 2 * quot_q
  <2>1. div_a = l * p
    BY <1>2 DEF l, p
  <2>2. div_a' = (2 * div_a) % Full /\ shifted(quot_q) = (2 * quot_q) % Full
    BY <1>1 DEF shifted, Full
  <2>3. rem_shifted = ((2 * rem_q) % Full) + (div_a \div Top)
    BY DEF rem_shifted, shifted, Full, Top
  <2> QED
    BY <1>4, <1>6, <2>1, <2>2, <2>3
<1>8. /\ quot_q' \in Nat /\ rem_q' \in 0 .. d - 1
      /\ quot_q' * d + rem_q' = 2 * (quot_q * d + rem_q) + bit
  <2>1. quot_q * d \in Int /\ rem_q \in 0 .. d - 1 /\ quot_q \in Nat
    BY <1>2, <1>5 DEF d
  <2>2. CASE rem_ge
    <3>1. rem_q' = 2 * rem_q + bit - d /\ quot_q' = 2 * quot_q + 1 /\ 2 * rem_q + bit >= d
      <4>1. d = div_b /\ d \in Int
        BY <1>5 DEF d
      <4>2. rem_shifted >= div_b
        BY <2>2 DEF rem_ge
      <4>3. rem_q' = rem_shifted - div_b /\ quot_q' = shifted(quot_q) + 1
        BY <1>1, <2>2
      <4>4. rem_shifted = 2 * rem_q + bit /\ shifted(quot_q) = 2 * quot_q
        BY <1>7
      <4> QED
        BY <1>5, <2>1, <4>1, <4>2, <4>3, <4>4
    <3>2. (2 * quot_q + 1) * d = 2 * (quot_q * d) + d
      BY <1>5, <2>1
    <3> QED
      BY <1>5, <2>1, <3>1, <3>2
  <2>3. CASE ~rem_ge
    <3>1. rem_q' = 2 * rem_q + bit /\ quot_q' = 2 * quot_q /\ ~(2 * rem_q + bit >= d)
      <4>1. d = div_b
        BY DEF d
      <4>2. ~(rem_shifted >= div_b)
        BY <2>3 DEF rem_ge
      <4> QED
        BY <1>1, <1>7, <2>3, <4>1, <4>2
    <3>2. (2 * quot_q) * d = 2 * (quot_q * d)
      BY <1>5, <2>1
    <3> QED
      BY <1>5, <2>1, <3>1, <3>2
  <2> QED
    BY <2>2, <2>3
<1>9. Left' = l - bit * h
  <2> DEFINE n == 2 * p
             s == l - bit * h
             v == div_a'
  <2>1. n \in Nat \ {0} /\ s \in Int /\ 0 \in 0 .. n - 1 /\ v = n * s + 0
    BY <1>4, <1>6, <1>7
  <2>2. Left' = v \div n
    BY <1>1, <1>4 DEF Left
  <2> HIDE DEF n, s, v
  <2>3. v \div n = s
    BY <2>1, Quotient
  <2> QED
    BY <2>2, <2>3 DEF s
<1>10. (quot_q' * d + rem_q') * h + (l - bit * h) = Mag(First(id_ex))
  <2> DEFINE T == quot_q * d + rem_q
  <2>1. T \in Int /\ T * (2 * h) + l = Mag(First(id_ex)) /\ l \in Int
    BY <1>2, <1>4, <1>5 DEF l, d
  <2> HIDE DEF T
  <2>2. (2 * T + bit) * h + (l - bit * h) = T * (2 * h) + l
    BY <1>4, <2>1
  <2> QED
    BY <1>8, <2>1, <2>2 DEF T
<1>11. Signs'
  BY <1>1, <1>2 DEF Signs, First, Second, signed_op
<1>12. /\ Pow2[iter_q'] = h /\ Pow2[XLEN - iter_q'] = 2 * p
  BY <1>1, <1>4 DEF h
<1>13. div_a' = Left' * Pow2[XLEN - iter_q'] /\ Left' \in 0 .. Pow2[iter_q'] - 1
  BY <1>6, <1>7, <1>9, <1>12
<1>14. (quot_q' * div_b' + rem_q') * Pow2[iter_q'] + Left' = Mag(First(id_ex))
  BY <1>1, <1>9, <1>10, <1>12 DEF d
<1> QED
  BY <1>1, <1>2, <1>3, <1>4, <1>6, <1>8, <1>11, <1>13, <1>14
     DEF Division, d, First, Second, IsMul, Special, signed_overflow, signed_op, Top

-----------------------------------------------------------------------------
(* The unit with EX above it.                                              *)

\* After a reset the unit works for nobody.
LEMMA InitUnit == Init => UnitInv
BY DEF Init, MulDivInit, UnitInv, Types, Owner, Product, Division, Divided

\* What EX does while the unit works for it.
LEMMA Holds ==
    ASSUME Types, Owner, NEW mem_wait, Cycle(mem_wait)
    PROVE  /\ id_ex' \in MInstr \union {NoOp}
           /\ id_ex # NoOp /\ ~ready_q => id_ex' = id_ex
           /\ id_ex # NoOp => id_ex \in MInstr
BY MExecAssumption DEF Types, Cycle, Enter

\* The cycle in which an instruction is handed to the unit.
LEMMA StartKeeps ==
    ASSUME UnitInv, id_ex # NoOp, ~ready_q, Start(Asked(id_ex)), id_ex' = id_ex
    PROVE  UnitInv'
<1> DEFINE r == Asked(id_ex)
<1>1. id_ex \in MInstr /\ state = "IDLE"
  BY DEF UnitInv, Types, Start
<1>2. /\ r.sel = id_ex.sel /\ (IsMul(id_ex) <=> r.sel \in {MUL, MULH})
      /\ op_q' = [a |-> r.a, b |-> r.b, sel |-> id_ex.sel]
      /\ op_q'.a = r.a /\ op_q'.b = r.b
  BY AskedIs DEF Start, IsMul
<1>3. Asked(id_ex)' = r /\ (IsMul(id_ex)' <=> IsMul(id_ex)) /\ (Special(Asked(id_ex))' <=> Special(r))
  BY DEF Asked, IsMul, Operand, muldiv_unsigned_w, Special, signed_overflow, signed_op
<1>4. Owner'
  BY <1>1, <1>2, <1>3 DEF Owner
<1>5. CASE StartMul(r)
  <2>1. IsMul(id_ex) /\ mul_res' = r.a * r.b /\ state' = "MUL" /\ ready_q' = FALSE
    BY <1>2, <1>5 DEF StartMul
  <2> QED
    BY <1>1, <1>2, <1>3, <1>4, <2>1 DEF UnitInv, Types, Product, Division, Divided
<1>6. CASE StartSpecial(r)
  <2>1. /\ ~IsMul(id_ex) /\ Special(r) /\ neg_quot_q' = FALSE /\ neg_rem_q' = FALSE
        /\ quot_q' = IF signed_overflow(r) THEN r.a ELSE Ones
        /\ rem_q' = IF signed_overflow(r) THEN 0 ELSE r.a
        /\ ready_q' = TRUE /\ state' = "IDLE"
    BY <1>1, <1>2, <1>6 DEF StartSpecial
  <2>2. signed_overflow(Asked(id_ex))' <=> signed_overflow(r)
    BY <1>3 DEF signed_overflow, signed_op
  <2> HIDE DEF r
  <2>3. Divided'
    BY <1>2, <1>3, <2>1, <2>2 DEF Divided
  <2> QED
    BY <1>1, <1>3, <1>4, <2>1, <2>3 DEF UnitInv, Types, Product, Division
<1>7. CASE StartDiv(r)
  <2>1. state' = "DIV" /\ ready_q' = FALSE
    BY <1>7 DEF StartDiv
  <2>2. Division'
    BY <1>1, <1>7, DivisionStarts
  <2> QED
    BY <1>1, <1>4, <2>1, <2>2 DEF UnitInv, Types, Product, Divided
<1> QED
  BY <1>5, <1>6, <1>7 DEF Start

\* Each cycle keeps the unit at work on the instruction in EX, and right.
LEMMA UnitStep ==
    ASSUME UnitInv, NEW mem_wait, Cycle(mem_wait)
    PROVE  UnitInv'
<1>1. /\ id_ex' \in MInstr \union {NoOp}
      /\ id_ex # NoOp /\ ~ready_q => id_ex' = id_ex
      /\ id_ex # NoOp => id_ex \in MInstr
  BY Holds DEF UnitInv
<1>2. CASE id_ex # NoOp /\ ~busy /\ ~ready_q
  BY <1>1, <1>2, StartKeeps DEF Cycle, MulDivCycle
<1>3. CASE ~(id_ex # NoOp /\ ~busy /\ ~ready_q) /\ Rest
  <2>1. state' = "IDLE" /\ ready_q' = FALSE
    BY <1>3 DEF Rest
  <2> QED
    BY <1>1, <2>1 DEF UnitInv, Types, Owner, Product, Division, Divided
<1>4. CASE ~(id_ex # NoOp /\ ~busy /\ ~ready_q) /\ End
  <2>1. /\ state \in {"MUL", "DIV"} /\ (state = "DIV" => iter_q = 0)
        /\ state' = "IDLE" /\ ready_q' = TRUE
        /\ UNCHANGED <<op_q, iter_q, mul_res, rem_q, quot_q, div_a, div_b, neg_quot_q, neg_rem_q>>
    BY <1>4 DEF End
  <2>2. id_ex # NoOp /\ ~ready_q /\ id_ex' = id_ex /\ id_ex \in MInstr
    BY <1>1, <2>1 DEF UnitInv, Types, Owner
  <2>3. /\ Asked(id_ex)' = Asked(id_ex) /\ (IsMul(id_ex)' <=> IsMul(id_ex))
        /\ (Special(Asked(id_ex))' <=> Special(Asked(id_ex)))
    BY <2>2 DEF Asked, IsMul, Operand, muldiv_unsigned_w, Special, signed_overflow, signed_op
  <2>4. Types' /\ Owner' /\ Product' /\ Division'
    BY <2>1, <2>2, <2>3 DEF UnitInv, Types, Owner, Product, Division
  <2>5. ASSUME state = "DIV"
        PROVE  Divided'
    <3>1. /\ ~IsMul(id_ex) /\ ~Special(Asked(id_ex)) /\ Signs
          /\ div_b = Mag(Second(id_ex))
          /\ quot_q \in Nat /\ rem_q \in 0 .. div_b - 1
          /\ Left \in 0 .. Pow2[0] - 1
          /\ (quot_q * div_b + rem_q) * Pow2[0] + Left = Mag(First(id_ex))
      BY <2>1, <2>5 DEF UnitInv, Division
    <3>2. div_b \in Int
      <4>1. Second(id_ex) \in Int
        BY <2>2, OperandCoded DEF Second, MInstr
      <4> QED
        BY <3>1, <4>1 DEF Mag
    <3>3. quot_q * div_b + rem_q = Mag(First(id_ex))
      <4>1. quot_q * div_b \in Int
        BY <3>1, <3>2
      <4>2. Left = 0 /\ Pow2[0] = 1
        BY <3>1, PowStep
      <4> QED
        BY <3>1, <4>1, <4>2
    <3>4. Signs'
      BY <2>1, <2>2, <3>1 DEF Signs, First, Second, signed_op
    <3> QED
      BY <2>1, <2>2, <2>3, <3>1, <3>3, <3>4 DEF Divided, First, Second
  <2>6. ASSUME state = "MUL"
        PROVE  Divided'
    BY <2>3, <2>6 DEF UnitInv, Product, Divided
  <2> QED
    BY <2>1, <2>4, <2>5, <2>6 DEF UnitInv
<1>5. CASE ~(id_ex # NoOp /\ ~busy /\ ~ready_q) /\ Iterate
  <2>1. state = "DIV" /\ state' = "DIV" /\ ready_q' = FALSE /\ op_q' = op_q
    BY <1>5 DEF Iterate
  <2>2. id_ex # NoOp /\ ~ready_q /\ id_ex' = id_ex
    BY <1>1, <2>1 DEF UnitInv, Types, Owner
  <2>3. Division'
    BY <1>5, <2>2, DivisionGoesOn DEF UnitInv
  <2>4. Asked(id_ex)' = Asked(id_ex)
    BY <2>2 DEF Asked, Operand, muldiv_unsigned_w
  <2> QED
    BY <1>1, <2>1, <2>2, <2>3, <2>4 DEF UnitInv, Types, Owner, Product, Divided
<1> QED
  BY <1>2, <1>3, <1>4, <1>5 DEF Cycle, MulDivCycle

\* The unit is at work on the instruction in EX, and right, throughout.
LEMMA SafetyUnit == Safety => []UnitInv
<1>1. UnitInv /\ [Next]_vars => UnitInv'
  <2>1. UnitInv /\ Next => UnitInv'
    BY UnitStep DEF Next
  <2>2. UnitInv /\ UNCHANGED vars => UnitInv'
    BY DEF vars, unitVars, UnitInv, Types, Owner, Product, Division, Divided, Signs, Left, Asked,
           Operand, muldiv_unsigned_w, IsMul, Special, signed_overflow, signed_op, First, Second
  <2> QED
    BY <2>1, <2>2
<1> QED
  BY <1>1, InitUnit, PTL DEF Safety

-----------------------------------------------------------------------------
(* What is claimed of it.                                                  *)

\* Quotient and remainder so far, with the bits of the dividend still to come, make up
\* the dividend, and no bit is about to be lost, in every width.
THEOREM DividerLoopInvariant == Safety => []LoopInvariant
<1>1. UnitInv => LoopInvariant
  <2> SUFFICES ASSUME UnitInv, state = "DIV"
               PROVE  /\ (quot_q * div_b + rem_q) * Pow2[iter_q] + Left =
                             LET v == IF unsigned_op(op_q) THEN op_q.a ELSE Abs(op_q.a)
                             IN  IF id_ex.is_word THEN Low(v) ELSE v
                      /\ rem_q < div_b
                      /\ iter_q # 0 => rem_q < Pow2[XLEN - 1]
    BY DEF LoopInvariant
  <2>1. /\ id_ex \in MInstr /\ op_q.a = Operand(id_ex, id_ex.op1)
        /\ unsigned_op(op_q) <=> unsigned_op(id_ex)
    BY AskedIs DEF UnitInv, Types, Owner, unsigned_op
  <2>2. Mag(First(id_ex)) = LET v == IF unsigned_op(op_q) THEN op_q.a ELSE Abs(op_q.a)
                            IN  IF id_ex.is_word THEN Low(v) ELSE v
    BY <2>1, Prepared DEF First, MInstr
  <2>3. ASSUME iter_q # 0 PROVE rem_q < Pow2[XLEN - 1]
    <3>1. rem_q < Pow2[XLEN - iter_q] * Pow2[iter_q - 1]
      BY <2>1, <2>3, BitDown DEF UnitInv
    <3>2. iter_q \in 1 .. XLEN
      BY <2>3, HalfAssumption DEF UnitInv, Division, XLEN
    <3> QED
      BY <3>1, <3>2, Places DEF Top
  <2>4. div_b \in Int /\ rem_q \in 0 .. div_b - 1
    <3>1. Second(id_ex) \in Int
      BY <2>1, OperandCoded DEF Second, MInstr
    <3> QED
      BY <3>1 DEF UnitInv, Division, Mag
  <2> QED
    BY <2>2, <2>3, <2>4 DEF UnitInv, Division
<1> QED
  BY <1>1, SafetyUnit, PTL

\* Whole multiples of Full do not count.
LEMMA ModShift ==
    ASSUME NEW v \in Int, NEW k \in Int
    PROVE  (v + Full * k) % Full = v % Full
<1> DEFINE q == v \div Full
           r == v % Full
           w == v + Full * k
<1>1. Full \in Nat \ {0}
  BY Sizes
<1>2. q \in Int /\ r \in 0 .. Full - 1 /\ v = Full * q + r
  BY <1>1
<1> HIDE DEF q, r
<1>3. q + k \in Int /\ w = Full * (q + k) + r
  BY <1>1, <1>2
<1> HIDE DEF w
<1>4. w % Full = r
  <2> DEFINE s == q + k
  <2>1. s \in Int /\ w = Full * s + r
    BY <1>3
  <2> HIDE DEF s
  <2> QED
    BY <1>1, <1>2, <2>1, Quotient
<1> QED
  BY <1>4 DEF w, r

\* The low half of a product does not depend on the signs.
LEMMA ProductIs ==
    ASSUME NEW m \in Int, NEW n \in Int
    PROVE  (Coded(m) * Coded(n)) % Full = (m * n) % Full
<1> DEFINE s == IF m < 0 THEN 1 ELSE 0
           u == IF n < 0 THEN 1 ELSE 0
           k == s * n + u * m + s * u * Full
<1>1. Full \in Int
  BY Sizes
<1>2. s \in Int /\ u \in Int /\ Coded(m) = m + s * Full /\ Coded(n) = n + u * Full
  BY <1>1 DEF Coded
<1> HIDE DEF s, u
<1>3. (m + s * Full) * (n + u * Full) = m * n + Full * (s * n + u * m + s * u * Full)
  BY <1>1, <1>2
<1>4. k \in Int /\ m * n \in Int
  BY <1>1, <1>2
<1>5. Coded(m) * Coded(n) = m * n + Full * k
  BY <1>2, <1>3
<1> HIDE DEF k
<1> QED
  BY <1>4, <1>5, ModShift

\* Negating a word.
LEMMA NegIs ==
    ASSUME NEW v \in Int
    PROVE  Neg(v) = (-v) % Full
<1>1. Full - v = -v + Full * 1 /\ -v \in Int
  BY Sizes
<1>2. (-v + Full * 1) % Full = (-v) % Full
  BY <1>1, ModShift
<1> QED
  BY <1>1, <1>2 DEF Neg, Full

\* Dividing by one.
LEMMA ByOne == \A v \in Int : v \div 1 = v /\ v % 1 = 0
OBVIOUS

\* The value the reference asks for, before it is cut to the width.
Wanted(i) == LET m == First(i)
                 n == Second(i)
             IN  CASE i.sel = MUL            -> m * n
                   [] i.sel \in {DIV, DIVU} -> Quot(m, n)
                   [] i.sel \in {REM, REMU} -> Rem(m, n)

\* The reference is Wanted, cut to the width of the instruction.
LEMMA ReferenceIs ==
    ASSUME NEW i
    PROVE  Reference(i) = IF i.is_word THEN SignExtend(Wanted(i) % Full) ELSE Wanted(i) % Full
BY DEF Reference, Wanted, First, Second, Full

\* What the loop ends with, with the signs it is given, is quotient and remainder.
LEMMA LoopResult ==
    ASSUME UnitInv, Takes, ~IsMul(id_ex), ~Special(Asked(id_ex))
    PROVE  result = Wanted(id_ex) % Full
<1> DEFINE m == First(id_ex)
           n == Second(id_ex)
<1>1. /\ id_ex \in MInstr /\ op_q.sel = id_ex.sel /\ id_ex.sel \in {DIV, DIVU, REM, REMU}
  BY DEF UnitInv, Types, Owner, Takes, Provided, IsMul
<1>2. /\ Signs /\ quot_q \in Nat /\ rem_q \in 0 .. Mag(n) - 1
      /\ quot_q * Mag(n) + rem_q = Mag(m)
  BY DEF UnitInv, Divided, Takes
<1>3. /\ m \in Int /\ n \in Int /\ n # 0
      /\ Mag(m) \in 0 .. (IF id_ex.is_word THEN Half ELSE Full) - 1
      /\ unsigned_op(id_ex) => m >= 0 /\ n >= 0
  <2>1. Asked(id_ex).b # 0
    BY DEF Special
  <2>2. id_ex.op1 \in Words /\ id_ex.rs2_val \in Words
    BY <1>1 DEF MInstr
  <2>3. unsigned_op(id_ex) => m >= 0 /\ n >= 0
    BY <1>1, <2>2, OperandCoded DEF First, Second, unsigned_op
  <2> QED
    BY <1>1, <2>1, <2>2, <2>3, AskedIs, Prepared DEF First, Second
<1>4. Mag(n) \in Nat \ {0} /\ Mag(m) \in 0 .. Full - 1
  BY <1>3, Sizes DEF Mag
<1>5. quot_q = Mag(m) \div Mag(n) /\ rem_q = Mag(m) % Mag(n)
  <2> DEFINE d == Mag(n)
             v == Mag(m)
  <2>1. d \in Nat \ {0} /\ rem_q \in 0 .. d - 1 /\ quot_q \in Int /\ v = d * quot_q + rem_q
    BY <1>2, <1>4
  <2> HIDE DEF d, v
  <2> QED
    BY <2>1, Quotient DEF d, v
<1>6. quot_q \in 0 .. Full - 1 /\ rem_q \in 0 .. Full - 1
  <2> DEFINE k == quot_q * Mag(n)
  <2>1. quot_q <= k /\ k \in Nat
    BY <1>2, <1>4, Times
  <2>2. k + rem_q = Mag(m) /\ Full \in Nat /\ rem_q \in Nat
    BY <1>2, <1>4, Sizes
  <2> HIDE DEF k
  <2> QED
    BY <1>2, <1>4, <2>1, <2>2
<1>7. signed_op(id_ex) <=> ~unsigned_op(id_ex)
  BY <1>1 DEF signed_op, unsigned_op, DIV, DIVU, REM, REMU
<1> HIDE DEF m, n
<1>8. CASE id_ex.sel \in {DIV, DIVU}
  <2>1. result = IF neg_quot_q THEN Neg(quot_q) ELSE quot_q
    BY <1>1, <1>8 DEF result, MUL, MULH, DIV, DIVU, REM, REMU
  <2>2. Wanted(id_ex) = Quot(m, n)
    BY <1>8 DEF Wanted, m, n, MUL, DIV, DIVU, REM, REMU
  <2>3. Quot(m, n) = IF neg_quot_q THEN -quot_q ELSE quot_q
    <3>1. neg_quot_q <=> ~((m < 0) <=> (n < 0))
      BY <1>2, <1>3, <1>7 DEF Signs, m, n
    <3> QED
      BY <1>3, <1>5, <3>1 DEF Quot
  <2>4. quot_q % Full = quot_q
    BY <1>6, Sizes, Below
  <2> QED
    BY <1>6, <2>1, <2>2, <2>3, <2>4, NegIs
<1>9. CASE id_ex.sel \in {REM, REMU}
  <2>1. result = IF neg_rem_q THEN Neg(rem_q) ELSE rem_q
    BY <1>1, <1>9 DEF result, MUL, MULH, DIV, DIVU, REM, REMU
  <2>2. Wanted(id_ex) = Rem(m, n)
    BY <1>9 DEF Wanted, m, n, MUL, DIV, DIVU, REM, REMU
  <2>3. Rem(m, n) = IF neg_rem_q THEN -rem_q ELSE rem_q
    <3>1. neg_rem_q <=> m < 0
      BY <1>2, <1>3, <1>7 DEF Signs, m
    <3>2. ~(m < 0) => Mag(m) = m
      BY <1>3 DEF Mag
    <3> QED
      BY <1>3, <1>5, <3>1, <3>2 DEF Rem
  <2>4. rem_q % Full = rem_q
    BY <1>6, Sizes, Below
  <2> QED
    BY <1>6, <2>1, <2>2, <2>3, <2>4, NegIs
<1> QED
  BY <1>1, <1>8, <1>9

\* Division by zero and the overflow have the values the M extension gives them, but
\* for one quotient.
LEMMA SpecialResult ==
    ASSUME UnitInv, Takes, ~IsMul(id_ex), Special(Asked(id_ex)), ~HalfOverflow(id_ex)
    PROVE  wb_val(id_ex) = Reference(id_ex)
<1> DEFINE m == First(id_ex)
           n == Second(id_ex)
           r == Asked(id_ex)
<1>1. /\ id_ex \in MInstr /\ op_q.sel = id_ex.sel /\ id_ex.sel \in {DIV, DIVU, REM, REMU}
      /\ op_q.a = r.a
  BY DEF UnitInv, Types, Owner, Takes, Provided, IsMul
<1>2. /\ ~neg_quot_q /\ ~neg_rem_q
      /\ quot_q = IF signed_overflow(r) THEN r.a ELSE Ones
      /\ rem_q = IF signed_overflow(r) THEN 0 ELSE r.a
  BY <1>1 DEF UnitInv, Divided, Takes
<1>3. result = IF id_ex.sel \in {DIV, DIVU} THEN quot_q ELSE rem_q
  BY <1>1, <1>2 DEF result, MUL, MULH, DIV, DIVU, REM, REMU
<1>4. Wanted(id_ex) = IF id_ex.sel \in {DIV, DIVU} THEN Quot(m, n) ELSE Rem(m, n)
  BY <1>1 DEF Wanted, MUL, DIV, DIVU, REM, REMU
<1>5. id_ex.op1 \in Words /\ id_ex.rs2_val \in Words /\ id_ex.is_word \in BOOLEAN
  BY <1>1 DEF MInstr
<1>6. /\ m \in Int /\ n \in Int /\ r.a = Coded(m)
      /\ (r.b = 0) <=> (n = 0)
      /\ r.b = Ones /\ ~unsigned_op(id_ex) => n = -1
      /\ ~unsigned_op(id_ex) =>
            IF id_ex.is_word THEN -HalfTop <= m /\ m < HalfTop ELSE -Top <= m /\ m < Top
      /\ unsigned_op(id_ex) => 0 <= m /\ m < (IF id_ex.is_word THEN Half ELSE Full)
  <2>1. /\ (r.b = 0) <=> (n = 0)
        /\ r.b = Ones /\ ~unsigned_op(id_ex) => n = -1
    BY <1>1, <1>5, AskedIs, Prepared DEF Second
  <2> QED
    BY <1>1, <1>5, <2>1, AskedIs, OperandCoded DEF First, Second, unsigned_op
<1>7. -Full <= m /\ m < Full
  BY <1>5, <1>6, Sizes
<1>8. signed_op(id_ex) <=> ~unsigned_op(id_ex)
  BY <1>1 DEF signed_op, unsigned_op, DIV, DIVU, REM, REMU
<1> HIDE DEF m, n, r
<1>9. CASE ~signed_overflow(r)
  <2>1. n = 0
    BY <1>6, <1>9 DEF Special, r
  <2>2. Quot(m, n) = -1 /\ Rem(m, n) = m
    BY <2>1 DEF Quot, Rem
  <2>3. (-1) % Full = Ones /\ m % Full = r.a
    <3>1. -1 \in Int /\ -Full <= -1 /\ -1 < Full /\ Coded(-1) = Ones
      BY Sizes DEF Coded, Ones, Full
    <3> QED
      BY <1>6, <1>7, <3>1, CodedMod
  <2>4. result = Wanted(id_ex) % Full
    BY <1>2, <1>3, <1>4, <1>9, <2>2, <2>3
  <2> QED
    BY <2>4, ReferenceIs DEF wb_val
<1>10. CASE signed_overflow(r)
  <2>1. /\ ~unsigned_op(id_ex) /\ n = -1
        /\ r.a \in {Top, SignExtend(HalfTop)}
    <3>1. signed_op(id_ex) /\ r.b = Ones /\ r.a \in {Top, SignExtend(HalfTop)}
      BY <1>10, AskedIs DEF signed_overflow, r, Top, HalfTop
    <3> QED
      BY <1>6, <1>8, <3>1
  <2>2. SignExtend(HalfTop) = Full - HalfTop
    <3>1. HalfTop \in 0 .. Half - 1 /\ Half \in Nat \ {0}
      BY Sizes
    <3>2. HalfTop % Half = HalfTop
      BY <3>1, Below
    <3> QED
      BY <3>2, Sizes DEF SignExtend, Low, Half, HalfTop, Full
  <2>3. m = IF id_ex.is_word THEN -HalfTop ELSE -Top
    <3>1. CASE id_ex.is_word
      BY <1>6, <2>1, <2>2, <3>1, Sizes DEF Coded
    <3>2. CASE ~id_ex.is_word
      <4>1. Asked(id_ex).a = id_ex.op1
        BY <3>2 DEF Asked, Operand
      <4>2. Negative(Neg(r.a))
        BY <1>10, <3>2, <4>1 DEF HalfOverflow, r
      <4>3. r.a # Full - HalfTop
        <5> SUFFICES ASSUME r.a = Full - HalfTop PROVE ~Negative(Neg(r.a))
          BY <4>2
        <5>1. Full - r.a = HalfTop /\ HalfTop \in 0 .. Full - 1 /\ Full \in Nat \ {0}
          BY Sizes
        <5>2. Neg(r.a) = HalfTop
          BY <5>1, Below DEF Neg, Full
        <5> QED
          BY <5>2, Sizes DEF Negative, Top
      <4> QED
        BY <1>6, <2>1, <2>2, <3>2, <4>3, Sizes DEF Coded
    <3> QED
      BY <3>1, <3>2
  <2>4. m < 0 /\ Mag(m) = -m /\ Mag(n) = 1 /\ -m \in 0 .. Full - 1
    <3>1. m < 0 /\ -m \in 0 .. Full - 1
      BY <1>6, <2>3, Sizes
    <3>2. Mag(n) = 1
      <4>1. n + 1 = 0 /\ n \in Int
        BY <1>6, <2>1
      <4> QED
        BY <4>1 DEF Mag
    <3> QED
      BY <3>1, <3>2 DEF Mag
  <2>5. Quot(m, n) = -m /\ Rem(m, n) = 0
    BY <2>1, <2>4, ByOne DEF Quot, Rem
  <2>6. 0 % Full = 0 /\ (-m) % Full = -m
    BY <2>4, Sizes, Below
  <2>7. CASE id_ex.sel \notin {DIV, DIVU}
    BY <1>2, <1>3, <1>4, <1>10, <2>5, <2>6, <2>7, ReferenceIs DEF wb_val
  <2>8. CASE id_ex.sel \in {DIV, DIVU} /\ ~id_ex.is_word
    <3>1. r.a = -m
      BY <1>6, <2>3, <2>4, <2>8, Sizes DEF Coded
    <3> QED
      BY <1>2, <1>3, <1>4, <1>10, <2>5, <2>6, <2>8, <3>1, ReferenceIs DEF wb_val
  <2>9. CASE id_ex.sel \in {DIV, DIVU} /\ id_ex.is_word
    <3>1. Low(r.a) = HalfTop
      <4>1. -HalfTop <= m /\ m < HalfTop
        BY <1>6, <2>1, <2>9
      <4>2. Low(Coded(m)) = m + Half
        BY <1>6, <2>4, <4>1, CodedLow
      <4> QED
        BY <1>6, <2>3, <2>9, <4>2, Sizes
    <3>2. Low(HalfTop) = HalfTop
      <4>1. HalfTop \in 0 .. Half - 1 /\ Half \in Nat \ {0}
        BY Sizes
      <4> QED
        BY <4>1, Below DEF Low, Half
    <3>3. SignExtend(r.a) = SignExtend(HalfTop)
      BY <3>1, <3>2 DEF SignExtend
    <3>4. -m = HalfTop
      BY <2>3, <2>9, Sizes
    <3>5. Wanted(id_ex) % Full = HalfTop
      BY <1>4, <2>5, <2>6, <2>9, <3>4
    <3>6. Reference(id_ex) = SignExtend(HalfTop)
      BY <2>9, <3>5, ReferenceIs
    <3>7. wb_val(id_ex) = SignExtend(r.a)
      BY <1>2, <1>3, <1>10, <2>9 DEF wb_val
    <3> QED
      BY <3>3, <3>6, <3>7
  <2> QED
    BY <2>7, <2>8, <2>9
<1> QED
  BY <1>9, <1>10

\* The value an M instruction takes is the M extension's, in both widths of a unit of
\* any width, for every pair of operands, whatever the unit did before; the quotient
\* of the least W number by minus one at full width is left out.
THEOREM MExecValueMatches == Safety => []ValueMatches
<1>1. UnitInv => ValueMatches
  <2> SUFFICES ASSUME UnitInv, Takes, ~HalfOverflow(id_ex)
               PROVE  wb_val(id_ex) = Reference(id_ex)
    BY DEF ValueMatches
  <2>1. CASE IsMul(id_ex)
    <3>1. /\ id_ex \in MInstr /\ id_ex.sel = MUL
          /\ op_q.sel = MUL /\ op_q.a = Asked(id_ex).a /\ op_q.b = Asked(id_ex).b
          /\ mul_res = Asked(id_ex).a * Asked(id_ex).b
      BY <2>1 DEF UnitInv, Types, Owner, Product, Takes, Provided, IsMul, MUL, MULH, DIV, DIVU, REM, REMU
    <3>2. /\ First(id_ex) \in Int /\ Second(id_ex) \in Int
          /\ Asked(id_ex).a = Coded(First(id_ex)) /\ Asked(id_ex).b = Coded(Second(id_ex))
      BY <3>1, AskedIs, OperandCoded DEF First, Second, MInstr
    <3>3. result = (Coded(First(id_ex)) * Coded(Second(id_ex))) % Full
      BY <3>1, <3>2 DEF result, Full, MUL, MULH, DIV, DIVU, REM, REMU
    <3>4. Wanted(id_ex) = First(id_ex) * Second(id_ex)
      BY <3>1 DEF Wanted, MUL, DIV, DIVU, REM, REMU
    <3>5. result = Wanted(id_ex) % Full
      BY <3>2, <3>3, <3>4, ProductIs
    <3> QED
      BY <3>5, ReferenceIs DEF wb_val
  <2>2. CASE ~IsMul(id_ex) /\ ~Special(Asked(id_ex))
    BY <2>2, LoopResult, ReferenceIs DEF wb_val
  <2>3. CASE ~IsMul(id_ex) /\ Special(Asked(id_ex))
    BY <2>3, SpecialResult
  <2> QED
    BY <2>1, <2>2, <2>3
<1> QED
  BY <1>1, SafetyUnit, PTL

\* The unit is the one the core is modelled with: it keeps the operands it was started
\* with until it is ready, is ready for one cycle and cannot be called off
\* (KeepsPromise without its liveness).
THEOREM MExecKeepsPromise == Safety => Unit!UnitSafety
<1>1. Init => Unit!UnitInit
  BY DEF Init, MulDivInit, Unit!UnitInit, muldiv, busy
<1>2. UnitInv /\ [Next]_vars => [Unit!UnitNext]_muldiv
  <2>1. ASSUME UnitInv, NEW mem_wait, Cycle(mem_wait)
        PROVE  [Unit!UnitNext]_muldiv
    <3>1. CASE id_ex # NoOp /\ ~busy /\ ~ready_q
      <4> DEFINE r == Asked(id_ex)
      <4>1. /\ state = "IDLE" /\ op_q' = [a |-> r.a, b |-> r.b, sel |-> r.sel]
            /\ StartMul(r) \/ StartSpecial(r) \/ StartDiv(r)
        BY <2>1, <3>1 DEF Cycle, MulDivCycle, Start
      <4>2. op_q' \in [a : Words, b : Words, sel : 0 .. 7]
        <5>1. id_ex \in MInstr
          BY <2>1, <3>1 DEF UnitInv, Types
        <5>2. r.a \in Words /\ r.b \in Words /\ r.sel \in 0 .. 7
          BY <5>1, AskedIs, Prepared DEF MInstr, Words, Full
        <5> QED
          BY <4>1, <5>2
      <4>3. /\ ready_q' \in BOOLEAN
            /\ ready_q' \/ state' # "IDLE"
        BY <4>1 DEF StartMul, StartSpecial, StartDiv
      <4>4. muldiv.st = "idle"
        BY <3>1 DEF muldiv
      <4>5. muldiv'.st \in {"busy", "ready"} /\ muldiv'.a = op_q'
        BY <4>3 DEF muldiv, busy
      <4>6. muldiv' \in [st : {"busy", "ready"}, a : [a : Words, b : Words, sel : 0 .. 7]]
        BY <4>2, <4>5 DEF muldiv
      <4> QED
        BY <4>4, <4>6 DEF Unit!UnitNext
    <3>2. CASE ~(id_ex # NoOp /\ ~busy /\ ~ready_q) /\ Rest
      <4>1. state = "IDLE" /\ state' = "IDLE" /\ ready_q' = FALSE
        BY <3>2 DEF Rest
      <4>2. muldiv' = [st |-> "idle", a |-> NoOp]
        BY <4>1 DEF muldiv, busy
      <4>3. CASE ready_q
        <5>1. muldiv.st = "ready"
          BY <4>3 DEF muldiv
        <5> QED
          BY <4>2, <5>1 DEF Unit!UnitNext, Unit!UnitCycle
      <4>4. CASE ~ready_q
        BY <4>1, <4>2, <4>4 DEF muldiv, busy
      <4> QED
        BY <4>3, <4>4
    <3>3. CASE ~(id_ex # NoOp /\ ~busy /\ ~ready_q) /\ (End \/ Iterate)
      <4>1. /\ state \in {"MUL", "DIV"} /\ op_q' = op_q
            /\ \/ state' = "IDLE" /\ ready_q' = TRUE
               \/ state' = "DIV" /\ ready_q' = FALSE
        BY <3>3 DEF End, Iterate
      <4>2. ~ready_q
        BY <2>1, <4>1 DEF UnitInv, Types
      <4>3. muldiv = [st |-> "busy", a |-> op_q]
        BY <4>1, <4>2 DEF muldiv, busy
      <4>4. \E done \in BOOLEAN : muldiv' = [st |-> IF done THEN "ready" ELSE "busy", a |-> op_q]
        BY <4>1 DEF muldiv, busy
      <4>5. muldiv.st = "busy" /\ muldiv.a = op_q
        BY <4>3
      <4> QED
        BY <4>4, <4>5 DEF Unit!UnitNext, Unit!UnitCycle
    <3> QED
      BY <2>1, <3>1, <3>2, <3>3 DEF Cycle, MulDivCycle
  <2>2. UNCHANGED vars => UNCHANGED muldiv
    BY DEF vars, unitVars, muldiv, busy
  <2> QED
    BY <2>1, <2>2 DEF Next
<1> QED
  BY <1>1, <1>2, SafetyUnit, PTL DEF Safety, Unit!UnitSafety
=============================================================================
