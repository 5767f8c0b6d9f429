---------------------- MODULE SegmentArithmeticProofs ----------------------
(***************************************************************************)
(* What demo5's roundings guarantee for every width of size_t and int that *)
(* is a power of two, every SEGMENT_SIZE and every request.                *)
(***************************************************************************)
EXTENDS SegmentArithmetic, TLAPS

\* A reply is the one its request calls for.
ReplyFits ==
  /\ size \in SizeT
  /\ free_size \in 0 .. NumSegments
  /\ reply = None \/ reply = Reply(size, free_size)

-----------------------------------------------------------------------------
\* Products keep the order.
LEMMA TimesMonotonic ==
  ASSUME NEW a \in Int, NEW b \in Int, NEW s \in Nat, a <= b
  PROVE  a * s \in Int /\ a * s <= b * s
<1> DEFINE d == b - a
<1>1. d \in Nat
  OBVIOUS
<1>2. b * s = a * s + d * s
  OBVIOUS
<1>3. d * s \in Nat
  <2> HIDE DEF d
  <2> QED BY <1>1
<1>4. a * s \in Int
  OBVIOUS
<1> HIDE DEF d
<1> QED BY <1>2, <1>3, <1>4

\* One more factor is one more s.
LEMMA TimesNext ==
  ASSUME NEW a \in Int, NEW s \in Nat
  PROVE  (a + 1) * s = a * s + s /\ (a - 1) * s = a * s - s
OBVIOUS

\* A number lies between its quotient's multiple and the next one.
LEMMA QuotientBounds ==
  ASSUME NEW x \in Int, NEW s \in Nat \ {0}
  PROVE  /\ x \div s \in Int /\ (x \div s) * s \in Int
         /\ (x \div s) * s <= x /\ x < (x \div s) * s + s
<1> DEFINE q == x \div s
           m == x % s
<1>1. q \in Int /\ m \in 0 .. s - 1 /\ x = q * s + m
  OBVIOUS
<1> HIDE DEF q, m
<1>2. q * s \in Int
  BY <1>1
<1>3. q * s <= x /\ x < q * s + s
  BY <1>1, <1>2
<1> QED BY <1>1, <1>2, <1>3 DEF q

\* Of two numbers the quotient and the remainder are the only pair that fits.
LEMMA QuotientUnique ==
  ASSUME NEW a \in Int, NEW s \in Nat \ {0}, NEW r \in 0 .. s - 1
  PROVE  (a * s + r) \div s = a /\ (a * s + r) % s = r
<1> DEFINE x == a * s + r
           q == x \div s
           m == x % s
<1>1. x \in Int /\ a * s \in Int
  OBVIOUS
<1>2. q \in Int /\ m \in 0 .. s - 1 /\ x = q * s + m
  <2> HIDE DEF x
  <2> QED BY <1>1
<1> HIDE DEF q, m
<1>3. ~(q >= a + 1)
  <2> SUFFICES ASSUME q >= a + 1 PROVE FALSE
    OBVIOUS
  <2>1. (a + 1) * s <= q * s
    BY <1>2, TimesMonotonic
  <2> QED BY <1>1, <1>2, <2>1, TimesNext
<1>4. ~(a >= q + 1)
  <2> SUFFICES ASSUME a >= q + 1 PROVE FALSE
    OBVIOUS
  <2>1. (q + 1) * s <= a * s
    BY <1>2, TimesMonotonic
  <2>2. q * s \in Int
    BY <1>2
  <2> QED BY <1>1, <1>2, <2>1, <2>2, TimesNext
<1>5. q = a
  BY <1>2, <1>3, <1>4
<1>6. m = r
  BY <1>1, <1>2, <1>5
<1> QED BY <1>5, <1>6 DEF q, m

-----------------------------------------------------------------------------
\* An int reaches from -(IntMax + 1) to IntMax, and a size_t holds a whole number
\* of segments, more of them than an int can count.
LEMMA Widths ==
  /\ IntMax \in Nat /\ IntValues = 2 * (IntMax + 1) /\ NumSegments <= IntMax
  /\ \E z \in Nat \ {0} : SizeValues = (z * IntValues) * SegmentSize
<1>1. IntMax \in Nat /\ IntValues = 2 * (IntMax + 1) /\ NumSegments <= IntMax
  BY ArithmeticAssumption DEF ArithmeticAssumption, IntMax
<1> DEFINE d == IntValues * SegmentSize
           z == SizeValues \div d
<1>2. d \in Nat \ {0}
  <2>1. 1 * SegmentSize <= IntValues * SegmentSize
    BY ArithmeticAssumption, TimesMonotonic DEF ArithmeticAssumption
  <2> QED BY <2>1, ArithmeticAssumption DEF ArithmeticAssumption
<1>3. SizeValues \in Nat \ {0} /\ SizeValues % d = 0
  BY ArithmeticAssumption DEF ArithmeticAssumption
<1>4. z \in Int /\ SizeValues = z * d
  <2> HIDE DEF d
  <2> QED BY <1>2, <1>3
<1>5. z >= 1
  <2> SUFFICES ASSUME z <= 0 PROVE FALSE
    BY <1>4
  <2>1. z * d <= 0 * d
    <3> HIDE DEF d, z
    <3> QED BY <1>2, <1>4, TimesMonotonic
  <2>2. 0 * d = 0
    <3> HIDE DEF d
    <3> QED BY <1>2
  <2> QED BY <1>3, <1>4, <2>1, <2>2
<1>6. z * d = (z * IntValues) * SegmentSize
  <2>1. IntValues \in Int /\ SegmentSize \in Int
    BY ArithmeticAssumption DEF ArithmeticAssumption
  <2> HIDE DEF z
  <2> QED BY <1>4, <2>1
<1>7. z \in Nat \ {0} /\ SizeValues = (z * IntValues) * SegmentSize
  BY <1>4, <1>5, <1>6
<1> HIDE DEF z
<1>8. \E y \in Nat \ {0} : SizeValues = (y * IntValues) * SegmentSize
  BY <1>7
<1> QED BY <1>1, <1>8

\* Up to IntMax a number is an int.
LEMMA ToIntSmall ==
  ASSUME NEW x \in 0 .. IntMax
  PROVE  ToInt(x) = x
<1>1. IntValues \in Nat \ {0} /\ x \in 0 .. IntValues - 1
  BY Widths, ArithmeticAssumption DEF ArithmeticAssumption
<1>2. (0 * IntValues + x) % IntValues = x
  BY <1>1, QuotientUnique
<1>3. 0 * IntValues + x = x
  BY <1>1
<1> QED BY <1>2, <1>3 DEF ToInt

\* Just below a multiple of IntValues it turns negative.
LEMMA ToIntNegative ==
  ASSUME NEW z \in Int, NEW m \in 1 .. IntMax + 1
  PROVE  ToInt(z * IntValues - m) = -m
<1>1. IntValues \in Nat \ {0} /\ IntMax \in Nat /\ IntValues = 2 * (IntMax + 1)
  BY Widths, ArithmeticAssumption DEF ArithmeticAssumption
<1> DEFINE r == IntValues - m
<1>2. r \in 0 .. IntValues - 1 /\ r > IntMax
  BY <1>1
<1>3. z * IntValues - m = (z - 1) * IntValues + r
  <2>1. (z - 1) * IntValues = z * IntValues - IntValues /\ z * IntValues \in Int
    BY <1>1, TimesNext
  <2>2. (z - 1) * IntValues \in Int
    BY <1>1
  <2> QED BY <1>1, <2>1, <2>2
<1>4. (z * IntValues - m) % IntValues = r
  <2> HIDE DEF r
  <2>1. ((z - 1) * IntValues + r) % IntValues = r
    BY <1>1, <1>2, QuotientUnique
  <2> QED BY <1>3, <2>1
<1> QED BY <1>1, <1>2, <1>4 DEF ToInt

\* Whatever is converted, the result is an int.
LEMMA ToIntRange ==
  ASSUME NEW x \in Int
  PROVE  ToInt(x) \in -(IntMax + 1) .. IntMax
<1>1. IntValues \in Nat \ {0} /\ IntMax \in Nat /\ IntValues = 2 * (IntMax + 1)
  BY Widths, ArithmeticAssumption DEF ArithmeticAssumption
<1>2. x % IntValues \in 0 .. IntValues - 1
  BY <1>1
<1> QED BY <1>1, <1>2 DEF ToInt

\* A size_t keeps a number that fits it.
LEMMA ToSizeTSmall ==
  ASSUME NEW x \in SizeT
  PROVE  ToSizeT(x) = x
<1>1. SizeValues \in Nat \ {0} /\ x \in 0 .. SizeValues - 1
  BY ArithmeticAssumption DEF ArithmeticAssumption, SizeT
<1>2. (0 * SizeValues + x) % SizeValues = x
  BY <1>1, QuotientUnique
<1>3. 0 * SizeValues + x = x
  BY <1>1
<1> QED BY <1>2, <1>3 DEF ToSizeT

\* As many segments as an int can count fit a size_t, and one more.
LEMMA SegmentsFit ==
  /\ SegmentSize \in Nat \ {0}
  /\ \A n \in 0 .. IntMax + 1 : n * SegmentSize \in Nat /\ n * SegmentSize < SizeValues
  /\ \A n \in 0 .. IntMax :
       n * SegmentSize + (SegmentSize - 1) \in SizeT /\ n * SegmentSize \in SizeT
<1> DEFINE S == SegmentSize
<1>1. S \in Nat \ {0} /\ SizeValues \in Nat \ {0} /\ IntMax \in Nat
  BY Widths, ArithmeticAssumption DEF ArithmeticAssumption
<1> PICK z \in Nat \ {0} : SizeValues = (z * IntValues) * S
  BY Widths
<1>2. z * IntValues \in Int /\ z * IntValues >= IntMax + 2
  <2>1. 1 * IntValues <= z * IntValues
    BY TimesMonotonic, ArithmeticAssumption DEF ArithmeticAssumption
  <2>2. IntValues >= IntMax + 2 /\ IntValues \in Nat
    BY <1>1, Widths
  <2>3. z * IntValues \in Int
    BY <2>2
  <2> QED BY <1>1, <2>1, <2>2, <2>3
<1>3. (IntMax + 2) * S <= SizeValues
  BY <1>1, <1>2, TimesMonotonic
<1> HIDE DEF S
<1>4. ASSUME NEW n \in 0 .. IntMax + 1
      PROVE  n * S \in Nat /\ n * S + S <= SizeValues
  <2>1. n * S \in Nat
    BY <1>1
  <2>2. (n + 1) * S <= (IntMax + 2) * S
    BY <1>1, TimesMonotonic
  <2>3. (n + 1) * S = n * S + S /\ (IntMax + 2) * S \in Int
    BY <1>1, TimesNext
  <2> QED BY <1>1, <1>3, <2>1, <2>2, <2>3
<1>5. ASSUME NEW n \in 0 .. IntMax + 1
      PROVE  n * S < SizeValues
  BY <1>1, <1>4
<1>6. ASSUME NEW n \in 0 .. IntMax
      PROVE  n * S + (S - 1) \in SizeT /\ n * S \in SizeT
  <2>1. n \in 0 .. IntMax + 1
    BY <1>1
  <2> QED BY <1>1, <1>4, <2>1 DEF SizeT
<1> QED BY <1>1, <1>4, <1>5, <1>6 DEF S

\* The second rounding leaves a whole number of segments as it is.
LEMMA NumBufOfMultiple ==
  ASSUME NEW n \in 0 .. IntMax
  PROVE  NumBuf(n * SegmentSize) = n /\ ToSizeT(n * SegmentSize) = n * SegmentSize
<1> DEFINE S == SegmentSize
<1>1. /\ S \in Nat \ {0} /\ IntMax \in Nat
      /\ n * S + (S - 1) \in SizeT /\ n * S \in SizeT
  BY SegmentsFit, Widths
<1>2. n * S + S - 1 = n * S + (S - 1)
  BY <1>1 DEF SizeT
<1>3. (n * S + (S - 1)) \div S = n
  BY <1>1, QuotientUnique
<1> QED BY <1>1, <1>2, <1>3, ToSizeTSmall, ToIntSmall DEF NumBuf

\* A negative number of segments wraps around a size_t, and back again.
LEMMA NumBufOfNegative ==
  ASSUME NEW m \in 1 .. IntMax + 1
  PROVE  NumBuf(ToSizeT((-m) * SegmentSize)) = -m
<1> DEFINE S == SegmentSize
           w == SizeValues - m * S
<1>1. S \in Nat \ {0} /\ SizeValues \in Nat \ {0} /\ IntMax \in Nat /\ IntValues \in Nat
  BY Widths, ArithmeticAssumption DEF ArithmeticAssumption
<1>2. m * S \in Nat /\ m * S < SizeValues /\ m * S >= S
  <2>1. m \in 0 .. IntMax + 1
    BY <1>1
  <2>2. 1 * S <= m * S
    BY <1>1, TimesMonotonic
  <2> QED BY <1>1, <2>1, <2>2, SegmentsFit
<1>3. w \in SizeT /\ w + (S - 1) \in SizeT
  BY <1>1, <1>2 DEF SizeT
<1>4. ToSizeT((-m) * S) = w
  <2>1. (-m) * S = (-1) * SizeValues + w
    <3>1. (-m) * S = -(m * S)
      BY <1>1
    <3> QED BY <1>1, <1>2, <3>1
  <2>2. ((-1) * SizeValues + w) % SizeValues = w
    <3> HIDE DEF w
    <3> QED BY <1>1, <1>3, QuotientUnique DEF SizeT
  <2> QED BY <2>1, <2>2 DEF ToSizeT
<1> PICK z \in Nat \ {0} : SizeValues = (z * IntValues) * S
  BY Widths
<1> DEFINE q == z * IntValues - m
<1>5. z * IntValues \in Int /\ q \in Int
  BY <1>1
<1>6. w = q * S
  BY <1>1, <1>5
<1>7. (w + (S - 1)) \div S = q
  <2>1. (q * S + (S - 1)) \div S = q
    <3> HIDE DEF q
    <3> QED BY <1>1, <1>5, QuotientUnique
  <2> QED BY <1>6, <2>1
<1>8. w + S - 1 = w + (S - 1)
  BY <1>1, <1>2
<1>9. NumBuf(w) = ToInt(q)
  <2> HIDE DEF w, q
  <2> QED BY <1>3, <1>7, <1>8, ToSizeTSmall DEF NumBuf
<1>10. ToInt(q) = -m
  BY ToIntNegative
<1> QED BY <1>4, <1>9, <1>10

\* The service counts an int, and the pool counts the same in the total it is given.
LEMMA RoundedTwice ==
  ASSUME NEW x \in SizeT
  PROVE  /\ NumBuf(x) \in -(IntMax + 1) .. IntMax
         /\ NumBuf(TotalSize(x)) = NumBuf(x)
         /\ NumBuf(x) >= 0 => TotalSize(x) = NumBuf(x) * SegmentSize
<1> DEFINE n == NumBuf(x)
<1>1. n \in -(IntMax + 1) .. IntMax
  <2>1. SizeValues \in Nat \ {0} /\ SegmentSize \in Nat \ {0} /\ x \in Int
    BY ArithmeticAssumption DEF ArithmeticAssumption, SizeT
  <2>2. ToSizeT(x + SegmentSize - 1) \in Int
    BY <2>1 DEF ToSizeT
  <2>3. ToSizeT(x + SegmentSize - 1) \div SegmentSize \in Int
    BY <2>1, <2>2
  <2> QED BY <2>3, ToIntRange DEF NumBuf
<1>2. IntMax \in Nat
  BY Widths
<1>3. TotalSize(x) = ToSizeT(n * SegmentSize)
  BY DEF TotalSize
<1> HIDE DEF n
<1>4. CASE n >= 0
  BY <1>1, <1>2, <1>3, <1>4, NumBufOfMultiple DEF n
<1>5. CASE n < 0
  <2> DEFINE m == -n
  <2>1. m \in 1 .. IntMax + 1 /\ n = -m
    BY <1>1, <1>2, <1>5
  <2> HIDE DEF m
  <2>2. NumBuf(ToSizeT((-m) * SegmentSize)) = -m
    BY <2>1, NumBufOfNegative
  <2> QED BY <1>1, <1>3, <1>5, <2>1, <2>2 DEF n
<1>6. n \in Int
  BY <1>1, <1>2
<1> QED BY <1>1, <1>4, <1>5, <1>6 DEF n

\* What is granted, and with what reply: the request's number of segments, if it
\* is positive as an int and as many buffers are free.
LEMMA ReplyOf ==
  ASSUME NEW x \in SizeT, NEW free \in 0 .. NumSegments
  PROVE  /\ Reply(x, free).status = "OK" <=> NumBuf(x) \in 1 .. free
         /\ Reply(x, free).status = "OK" =>
              /\ Reply(x, free).taken = NumBuf(x)
              /\ Reply(x, free).total_size = NumBuf(x) * SegmentSize
<1> DEFINE n == NumBuf(x)
           total == TotalSize(x)
           a == Allocate(total, free)
<1>1. /\ n \in Int /\ n <= IntMax /\ IntMax \in Nat /\ SegmentSize \in Nat \ {0}
      /\ free \in Nat /\ free <= IntMax
      /\ NumBuf(total) = n
      /\ n >= 0 => total = n * SegmentSize
  BY RoundedTwice, Widths, SegmentsFit, ArithmeticAssumption DEF ArithmeticAssumption
<1>2. n > 0 => total # 0
  <2> SUFFICES ASSUME n > 0 PROVE total # 0
    OBVIOUS
  <2> HIDE DEF n, total
  <2>1. 1 * SegmentSize <= n * SegmentSize
    BY <1>1, TimesMonotonic
  <2> QED BY <1>1, <2>1
<1>3. n > free => ToInt(n - free) # 0
  <2> SUFFICES ASSUME n > free PROVE ToInt(n - free) # 0
    OBVIOUS
  <2> HIDE DEF n
  <2>1. n - free \in 0 .. IntMax /\ n - free # 0
    BY <1>1
  <2> QED BY <2>1, ToIntSmall
<1>4. a.result = 0 <=> n \in 1 .. free
  <2> HIDE DEF n, total
  <2>1. CASE total = 0
    BY <1>1, <1>2, <2>1 DEF Allocate
  <2>2. CASE total # 0 /\ n > free
    BY <1>1, <1>3, <2>2 DEF Allocate, TooFew
  <2>3. CASE total # 0 /\ ~(n > free) /\ n <= 0
    BY <1>1, <2>3 DEF Allocate, TooFew
  <2>4. CASE total # 0 /\ ~(n > free) /\ ~(n <= 0)
    BY <1>1, <2>4 DEF Allocate, TooFew
  <2> QED BY <2>1, <2>2, <2>3, <2>4
<1>5. a.result = 0 => a.taken = n
  <2> SUFFICES ASSUME n \in 1 .. free PROVE a.taken = n
    BY <1>4
  <2> HIDE DEF n, total
  <2> QED BY <1>1, <1>2 DEF Allocate, TooFew
<1>6. /\ Reply(x, free).status = "OK" <=> a.result = 0
      /\ Reply(x, free).taken = a.taken
      /\ a.result = 0 => Reply(x, free).total_size = total
  <2> HIDE DEF a, total
  <2> QED BY DEF Reply, a, total
<1>7. a.result = 0 => total = n * SegmentSize
  BY <1>1, <1>4
<1> HIDE DEF a
<1> QED BY <1>4, <1>5, <1>6, <1>7

\* For a size that client.cpp sends, the int is the least number of segments that
\* holds it: a MB is no more than a segment, so no width is reached.
LEMMA ClientRounding ==
  ASSUME NEW x \in ClientSizes
  PROVE  x \in SizeT /\ NumBuf(x) = Needed(x) /\ Needed(x) \in Nat \ {0}
<1> DEFINE S == SegmentSize
           y == x + (S - 1)
           k == y \div S
<1>1. /\ S \in Nat \ {0} /\ IntMax \in Nat /\ MB \in Nat \ {0} /\ MB <= S
      /\ SizeValues \in Nat \ {0}
  BY Widths, ArithmeticAssumption DEF ArithmeticAssumption
<1> PICK mb \in 1 .. IntMax : x = mb * MB
  BY DEF ClientSizes
<1>2. mb \in Nat /\ mb \in 0 .. IntMax
  BY <1>1
<1>3. x \in Nat /\ x >= 1 /\ x <= mb * S
  <2>1. 1 * MB <= mb * MB
    BY <1>1, <1>2, TimesMonotonic
  <2>2. MB * mb <= S * mb
    <3> HIDE DEF S
    <3> QED BY <1>1, <1>2, TimesMonotonic
  <2>3. MB * mb = mb * MB /\ S * mb = mb * S /\ mb * MB \in Nat
    <3> HIDE DEF S
    <3> QED BY <1>1, <1>2
  <2> QED BY <1>1, <2>1, <2>2, <2>3
<1>4. mb * S + (S - 1) \in SizeT /\ mb * S \in Nat
  BY <1>1, <1>2, SegmentsFit
<1>5. x \in SizeT /\ y \in SizeT /\ y \in Nat
  BY <1>1, <1>3, <1>4 DEF SizeT
<1> HIDE DEF S, y
<1>6. k \in Int /\ k * S \in Int /\ k * S <= y /\ y < k * S + S
  BY <1>1, <1>5, QuotientBounds
<1> HIDE DEF k
<1>7. k * S >= x /\ (k - 1) * S < x /\ (k - 1) * S = k * S - S
  <2>1. (k - 1) * S = k * S - S
    BY <1>1, <1>6, TimesNext
  <2> QED BY <1>1, <1>3, <1>6, <2>1 DEF y
<1>8. k >= 1
  <2> SUFFICES ASSUME k <= 0 PROVE FALSE
    BY <1>6
  <2>1. k * S <= 0 * S /\ 0 * S = 0
    BY <1>1, <1>6, TimesMonotonic
  <2> QED BY <1>3, <1>6, <1>7, <2>1
<1>9. k <= mb
  <2> SUFFICES ASSUME k - 1 >= mb PROVE FALSE
    BY <1>2, <1>6
  <2>1. mb * S <= (k - 1) * S
    BY <1>1, <1>2, <1>6, TimesMonotonic
  <2>2. mb * S \in Int /\ (k - 1) * S \in Int
    BY <1>1, <1>4, <1>6
  <2> QED BY <1>3, <1>6, <1>7, <2>1, <2>2
<1>10. k <= x
  <2>1. mb * 1 <= mb * MB
    <3>1. 1 * mb <= MB * mb
      BY <1>1, <1>2, TimesMonotonic
    <3> QED BY <1>1, <1>2, <3>1
  <2> QED BY <1>1, <1>2, <1>3, <1>6, <1>9, <2>1
<1>11. NumBuf(x) = k
  <2>1. k \in 0 .. IntMax
    BY <1>1, <1>2, <1>6, <1>8, <1>9
  <2>2. x + S - 1 = y
    BY <1>1, <1>3 DEF y
  <2> QED BY <1>5, <2>1, <2>2, ToSizeTSmall, ToIntSmall DEF NumBuf, k, S
<1>12. k \in 0 .. x /\ k * S >= x /\ (k - 1) * S < x
  BY <1>3, <1>6, <1>7, <1>8, <1>10
<1>13. ASSUME NEW j \in 0 .. x, j * S >= x, (j - 1) * S < x
       PROVE  j = k
  <2>1. j \in Int /\ j * S \in Int /\ (j - 1) * S \in Int /\ (k - 1) * S \in Int
    BY <1>1, <1>3, <1>6
  <2>2. ~(j <= k - 1)
    <3> SUFFICES ASSUME j <= k - 1 PROVE FALSE
      OBVIOUS
    <3>1. j * S <= (k - 1) * S
      BY <1>1, <1>6, <2>1, TimesMonotonic
    <3> QED BY <1>3, <1>7, <1>13, <2>1, <3>1
  <2>3. ~(k <= j - 1)
    <3> SUFFICES ASSUME k <= j - 1 PROVE FALSE
      OBVIOUS
    <3>1. k * S <= (j - 1) * S
      BY <1>1, <1>6, <2>1, TimesMonotonic
    <3> QED BY <1>3, <1>6, <1>7, <1>13, <2>1, <3>1
  <2> QED BY <1>6, <2>1, <2>2, <2>3
<1>14. Needed(x) = k
  <2>1. \E j \in 0 .. x : j * S >= x /\ (j - 1) * S < x
    BY <1>12
  <2>2. Needed(x) \in 0 .. x /\ Needed(x) * S >= x /\ (Needed(x) - 1) * S < x
    BY <2>1 DEF Needed, S
  <2> QED BY <1>13, <2>2
<1> QED BY <1>5, <1>6, <1>8, <1>11, <1>14

-----------------------------------------------------------------------------
\* Every reply is the one its request calls for.
THEOREM ArithmeticInvariant == ArithmeticSpec => []ReplyFits
<1>1. ArithmeticInit => ReplyFits
  BY DEF ArithmeticInit, ReplyFits
<1>2. ReplyFits /\ [ArithmeticNext]_arithmeticVars => ReplyFits'
  BY DEF ReplyFits, ArithmeticNext, AllocateMemory, arithmeticVars
<1> QED BY <1>1, <1>2, PTL DEF ArithmeticSpec

\* No uint64 makes the two roundings, or their truncations to int, disagree on
\* what is granted.
THEOREM GrantsMatch == ArithmeticSpec => []GrantMatchesReply
<1>1. ReplyFits => GrantMatchesReply
  <2> SUFFICES ASSUME ReplyFits, reply.status = "OK"
               PROVE  /\ reply.taken \in 1 .. free_size
                      /\ reply.total_size = reply.taken * SegmentSize
    BY DEF GrantMatchesReply
  <2>1. reply = Reply(size, free_size)
    BY DEF ReplyFits, None
  <2> QED BY <2>1, ReplyOf DEF ReplyFits
<1> QED BY <1>1, ArithmeticInvariant, PTL

\* A client of client.cpp is granted what it needs, and exactly when that is free.
THEOREM ClientsServed == ArithmeticSpec => []ClientServedExactly
<1>1. ReplyFits => ClientServedExactly
  <2> SUFFICES ASSUME ReplyFits, size \in ClientSizes, reply # None
               PROVE  /\ reply.status = "OK" <=> Needed(size) <= free_size
                      /\ reply.status = "OK" => reply.taken = Needed(size)
    BY DEF ClientServedExactly
  <2>1. reply = Reply(size, free_size)
    BY DEF ReplyFits
  <2>2. NumBuf(size) = Needed(size) /\ Needed(size) \in Nat \ {0}
    BY ClientRounding
  <2>3. Needed(size) \in 1 .. free_size <=> Needed(size) <= free_size
    BY <2>2, ArithmeticAssumption DEF ArithmeticAssumption, ReplyFits
  <2> QED BY <2>1, <2>2, <2>3, ReplyOf DEF ReplyFits
<1> QED BY <1>1, ArithmeticInvariant, PTL
=============================================================================
