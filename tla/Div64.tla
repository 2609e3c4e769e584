--------------------------------- MODULE Div64 ---------------------------------
(***************************************************************************)
(* Div64_32 of XenonCommon.hpp: a 64-bit number divided 16 bits at a time, *)
(* in 32-bit words.  B is 2^16, one half of a word.                        *)
(***************************************************************************)
EXTENDS Integers

\* Bring a half word down beside the remainder of the last division.
BringDown(B, half, remainder) == (half + remainder * B) % (B * B)

Div64_32(B, dividend, divisor) ==
  LET midHigh == BringDown(B, (dividend \div (B * B)) % B,
                           (dividend \div (B * B * B)) % divisor)
      midLow  == BringDown(B, (dividend \div B) % B, midHigh % divisor)
      low     == BringDown(B, dividend % B, midLow % divisor)
      first   == (dividend \div (B * B * B)) \div divisor
      second  == first * B + midHigh \div divisor
      third   == second * B + midLow \div divisor
  IN (third * B + low \div divisor) % (B * B)

\* peReadWriteTimeDay: seconds since the clock's epoch, from milliseconds.
TimeOfDay(B, base, rtcValue) == base + Div64_32(B, rtcValue, 1000)
=============================================================================
