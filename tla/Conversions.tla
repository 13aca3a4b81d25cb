------------------------------ MODULE Conversions ------------------------------
(***************************************************************************)
(* The conversions a reading passes through on its way to the browser: the  *)
(* DS3231's registers hold binary coded decimals that the driver packs and   *)
(* unpacks, and the HTTP handler prints a float as two integers, because the *)
(* C library's printf is built without %f.                                   *)
(***************************************************************************)
EXTENDS Integers

-----------------------------------------------------------------------------
(* My_I2C_DS3231.c.  Values are bytes; a mask of the low bits is a modulus.    *)

\* Mutant: the register is used as it is.
bcd2dec_Raw(val) == val

bcd2dec(val) == (val \div 16) * 10 + (val % 16)

dec2bcd(val) == ((val \div 10) * 16 + (val % 10)) % 256

\* The registers DS3231_SetTime sends for the time t.
DS3231_SetTime(t) ==
    [sec |-> dec2bcd(t.sec), min |-> dec2bcd(t.min), hour |-> dec2bcd(t.hour),
     day |-> t.day, date |-> dec2bcd(t.date), month |-> dec2bcd(t.month),
     year |-> dec2bcd(t.year)]

\* The time DS3231_ReadTime makes of the registers raw.
DS3231_ReadTime(raw) ==
    [sec |-> bcd2dec(raw.sec % 128), min |-> bcd2dec(raw.min % 128),
     hour |-> bcd2dec(raw.hour % 64), day |-> raw.day % 8,
     date |-> bcd2dec(raw.date % 64), month |-> bcd2dec(raw.month % 32),
     year |-> bcd2dec(raw.year)]

\* The times of the DS3231's calendar in 24-hour mode.
Calendar ==
    [sec : 0..59, min : 0..59, hour : 0..23, day : 1..7, date : 1..31,
     month : 1..12, year : 0..99]

-----------------------------------------------------------------------------
(* send_sensor_json.  A temperature is n / Unit degrees: every float of        *)
(* magnitude 4 or more is a multiple of 2^-21, and for those the subtraction   *)
(* and the product below are exact in single precision.                        *)

Unit == 2097152

Magnitude(n) == IF n < 0 THEN -n ELSE n

\* (int)x: C truncates towards zero.
Truncate(n, d) == IF n < 0 THEN -((-n) \div d) ELSE n \div d

temp_whole(n) == Truncate(n, Unit)

temp_frac(n) == Magnitude(Truncate((n - temp_whole(n) * Unit) * 10, Unit))

\* The number a reader of "whole.frac" sees, in tenths: the sign is the whole
\* part's, and a whole part of 0 is printed without one.
PrintedTenths(n) ==
    IF temp_whole(n) < 0 THEN temp_whole(n) * 10 - temp_frac(n)
                         ELSE temp_whole(n) * 10 + temp_frac(n)
=============================================================================
