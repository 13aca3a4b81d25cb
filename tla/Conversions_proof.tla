--------------------------- MODULE Conversions_proof ---------------------------
(***************************************************************************)
(* What the conversions of a reading compute, for every value a device can   *)
(* deliver: the RTC's calendar survives the way into its registers and back, *)
(* and the printed temperature is exact to a tenth except that a value       *)
(* between -1 and 0 loses its sign.                                          *)
(***************************************************************************)
EXTENDS Conversions, TLAPS

\* Two decimal digits fit a byte, without a carry between them.
LEMMA BcdByte ==
    ASSUME NEW v \in 0..99
    PROVE  /\ dec2bcd(v) = (v \div 10) * 16 + (v % 10)
           /\ dec2bcd(v) \in 0..153
BY DEF dec2bcd

\* Packing two decimal digits and unpacking them is the identity.
LEMMA BcdRoundTrip ==
    ASSUME NEW v \in 0..99
    PROVE  bcd2dec(dec2bcd(v)) = v
BY BcdByte DEF bcd2dec

\* The masks of DS3231_ReadTime remove only bits that a value of the register's
\* range leaves 0.
LEMMA MasksKeep ==
    /\ \A v \in 0..59 : dec2bcd(v) % 128 = dec2bcd(v)
    /\ \A v \in 0..31 : dec2bcd(v) % 64 = dec2bcd(v)
    /\ \A v \in 0..12 : dec2bcd(v) % 32 = dec2bcd(v)
BY BcdByte

\* What DS3231_SetTime writes DS3231_ReadTime reads back, for every time of the
\* calendar: no field loses a digit to its mask, and no field's century, 12-hour
\* or halt bit is set by a value in range.
THEOREM TimeRoundTrip ==
    ASSUME NEW time \in Calendar
    PROVE  DS3231_ReadTime(DS3231_SetTime(time)) = time
<1>1. /\ time.sec \in 0..59 /\ time.min \in 0..59 /\ time.hour \in 0..23
      /\ time.day \in 1..7 /\ time.date \in 1..31 /\ time.month \in 1..12
      /\ time.year \in 0..99
  BY DEF Calendar
<1>2. /\ bcd2dec(dec2bcd(time.sec) % 128) = time.sec
      /\ bcd2dec(dec2bcd(time.min) % 128) = time.min
      /\ bcd2dec(dec2bcd(time.hour) % 64) = time.hour
      /\ time.day % 8 = time.day
      /\ bcd2dec(dec2bcd(time.date) % 64) = time.date
      /\ bcd2dec(dec2bcd(time.month) % 32) = time.month
      /\ bcd2dec(dec2bcd(time.year)) = time.year
  BY <1>1, MasksKeep, BcdRoundTrip
<1>3. time = [sec |-> time.sec, min |-> time.min, hour |-> time.hour,
              day |-> time.day, date |-> time.date, month |-> time.month,
              year |-> time.year]
  BY DEF Calendar
<1> QED
  BY <1>2, <1>3 DEF DS3231_SetTime, DS3231_ReadTime

\* Quotient and remainder of a division by a positive number.
LEMMA DivMod ==
    ASSUME NEW a \in Int, NEW d \in Nat \ {0}
    PROVE  /\ a \div d \in Int /\ a % d \in 0..(d - 1)
           /\ a = (a \div d) * d + (a % d)
BY SMT

\* They are the only ones.
LEMMA DivUnique ==
    ASSUME NEW a \in Int, NEW d \in Nat \ {0}, NEW q \in Int, NEW r \in 0..(d - 1),
           a = q * d + r
    PROVE  a \div d = q
BY SMT

\* Tenths of a quotient are ten times its whole part and the tenths of the rest.
LEMMA TenthsOfQuotient ==
    ASSUME NEW a \in Int, NEW d \in Nat \ {0}
    PROVE  (a * 10) \div d = (a \div d) * 10 + ((a % d) * 10) \div d
<1> DEFINE q == a \div d
           r == a % d
           f == (r * 10) \div d
           e == (r * 10) % d
<1>1. q \in Int /\ r \in 0..(d - 1) /\ a = q * d + r
  BY DivMod
<1>2. r * 10 \in Int
  BY <1>1
<1>3. f \in Int /\ e \in 0..(d - 1) /\ r * 10 = f * d + e
  BY <1>2, DivMod
<1> HIDE DEF q, r, f, e
<1>4. a * 10 = (q * 10 + f) * d + e
  <2>1. a * 10 = (q * d) * 10 + r * 10
    BY <1>1
  <2>2. (q * 10 + f) * d = (q * d) * 10 + f * d
    BY <1>1, <1>3
  <2> QED
    BY <1>1, <1>3, <2>1, <2>2
<1>5. (a * 10) \div d = q * 10 + f
  BY <1>1, <1>3, <1>4, DivUnique
<1> QED
  BY <1>5 DEF q, r, f

\* The scale of the fixed-point numbers is positive.
LEMMA UnitPositive == Unit \in Nat \ {0}
BY SMT DEF Unit

\* Magnitude and sign of the two printed integers.
LEMMA PrintedParts ==
    ASSUME NEW m \in Nat
    PROVE  /\ temp_whole(m) = m \div Unit /\ temp_whole(-m) = -(m \div Unit)
           /\ temp_frac(m) = ((m % Unit) * 10) \div Unit
           /\ temp_frac(-m) = ((m % Unit) * 10) \div Unit
<1> DEFINE q == m \div Unit
           r == m % Unit
           f == (r * 10) \div Unit
<1>1. q \in Int /\ r \in 0..(Unit - 1) /\ m = q * Unit + r
  BY UnitPositive, DivMod
<1>2. f \in Nat /\ (m = 0 => q = 0 /\ f = 0)
  <2>1. r * 10 \in Nat
    BY <1>1
  <2>2. f \in Nat
    <3> HIDE DEF r
    <3> QED  BY <2>1, UnitPositive
  <2>3. ASSUME m = 0 PROVE q = 0 /\ r = 0
    BY <2>3, UnitPositive
  <2>4. 0 \div Unit = 0
    BY UnitPositive
  <2> QED
    BY <2>2, <2>3, <2>4
<1>3. temp_whole(m) = q
  BY <1>1, UnitPositive DEF temp_whole, Truncate
<1>4. temp_whole(-m) = -q
  BY <1>1, <1>2, UnitPositive DEF temp_whole, Truncate
<1>5. m - q * Unit = r /\ -m - (-q) * Unit = -r
  BY <1>1, UnitPositive
<1>6. temp_frac(m) = f
  BY <1>1, <1>2, <1>3, <1>5, UnitPositive DEF temp_frac, Truncate, Magnitude
<1>7. temp_frac(-m) = f
  <2>1. Truncate((-r) * 10, Unit) = -f
    BY <1>1, <1>2, UnitPositive DEF Truncate
  <2> QED
    BY <1>1, <1>2, <1>4, <1>5, <2>1 DEF temp_frac, Magnitude
<1> QED
  BY <1>3, <1>4, <1>6, <1>7

\* The printed temperature is the measured one cut to tenths, for every
\* temperature of at least 0 or at most -1 degree.
THEOREM JsonTempExact ==
    ASSUME NEW n \in Int, n >= 0 \/ n <= -Unit
    PROVE  PrintedTenths(n) = Truncate(n * 10, Unit)
<1>1. CASE n >= 0
  <2>1. n \in Nat /\ n \div Unit \in Nat
    BY <1>1, UnitPositive
  <2>2. PrintedTenths(n) = (n \div Unit) * 10 + ((n % Unit) * 10) \div Unit
    BY <2>1, PrintedParts DEF PrintedTenths
  <2>3. (n * 10) \div Unit = (n \div Unit) * 10 + ((n % Unit) * 10) \div Unit
    BY TenthsOfQuotient, UnitPositive
  <2> QED
    BY <1>1, <2>2, <2>3, UnitPositive DEF Truncate
<1>2. CASE n <= -Unit
  <2> DEFINE m == -n
             q == m \div Unit
             f == ((m % Unit) * 10) \div Unit
  <2>1. m \in Nat /\ m >= Unit
    BY <1>2, UnitPositive
  <2>2. q \in Int /\ q >= 1 /\ f \in Int
    BY <2>1, UnitPositive, DivMod
  <2>3. temp_whole(n) = -q /\ temp_frac(n) = f
    <3>1. temp_whole(-m) = -q /\ temp_frac(-m) = f
      BY <2>1, PrintedParts
    <3>2. -m = n
      OBVIOUS
    <3> QED
      BY <3>1, <3>2
  <2>4. PrintedTenths(n) = -(q * 10 + f)
    BY <2>2, <2>3 DEF PrintedTenths
  <2>5. (m * 10) \div Unit = q * 10 + f
    <3>1. \A a \in Int : (a * 10) \div Unit = (a \div Unit) * 10 + ((a % Unit) * 10) \div Unit
      BY TenthsOfQuotient, UnitPositive
    <3>2. m \in Int
      BY <2>1
    <3> HIDE DEF m
    <3> QED
      BY <3>1, <3>2
  <2>6. n * 10 < 0 /\ -(n * 10) = m * 10
    BY <1>2, UnitPositive
  <2> QED
    BY <2>4, <2>5, <2>6 DEF Truncate
<1> QED
  BY <1>1, <1>2

\* Between -1 and 0 degrees the sign is lost: the whole part is 0, the fraction's
\* sign is dropped, and the temperature printed is that of the opposite value.
THEOREM JsonTempSignLost ==
    ASSUME NEW n \in Int, -Unit < n, n < 0
    PROVE  PrintedTenths(n) = PrintedTenths(-n)
<1> DEFINE m == -n
<1>1. m \in Nat /\ m < Unit /\ -m = n
  BY UnitPositive
<1>2. m \div Unit = 0
  BY <1>1, UnitPositive, DivUnique
<1>3. /\ temp_whole(m) = 0 /\ temp_whole(-m) = 0
      /\ temp_frac(m) = temp_frac(-m)
  BY <1>1, <1>2, PrintedParts
<1> QED
  BY <1>1, <1>3 DEF PrintedTenths
=============================================================================
