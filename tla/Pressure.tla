------------------------------ MODULE Pressure ------------------------------
(***************************************************************************)
(* The fixed-point arithmetic of examples/.../spi_barometer/               *)
(* spi_barometer.c: calc_pcomp, and the pressure that main() prints.       *)
(* An arithmetic shift to the right is a division that rounds down.        *)
(* Definitions under "Mistake" are not part of the model.                  *)
(***************************************************************************)
EXTENDS Integers

CONSTANTS Coefficients, \* values of the four calibration registers
          Conversions   \* results of the two converters, 10 bits

Bit10 == {v \in Int : 0 <= v /\ v <= 1023} \* a conversion
Bit16 == {v \in Int : -32768 <= v /\ v <= 32767} \* a short
Bit28 == {v \in Int : -134217728 <= v /\ v <= 134217727} \* an int has room for more

ASSUME PressureAssumption == /\ Coefficients \subseteq [a0 : Bit16, b1 : Bit16, b2 : Bit16, c12 : Bit16]
                             /\ Conversions \subseteq Bit10

VARIABLES k,          \* the calibration of this sensor
          padc, tadc, \* the last conversion
          pcomp,      \* what calc_pcomp returned
          pressure    \* in kPa, with 4 fractional bits

vars == <<k, padc, tadc, pcomp, pressure>>

\* The value of an int that is stored in a short.
Short(v) == ((v + 32768) % 65536) - 32768

-----------------------------------------------------------------------------
(* calc_pcomp: the intermediate values, with 13 fractional bits.           *)

\* Mistake: the point of c12 is one place off.
c12x2Off(c, t) == (c.c12 * t) \div 1024

c12x2(c, t) == (c.c12 * t) \div 2048

a1x1(c, p, t) == (c.b1 + c12x2(c, t)) * p

y1(c, p, t) == c.a0 * 1024 + a1x1(c, p, t)

a2x2(c, t) == (c.b2 * t) \div 2

\* Four fractional bits are left.
CalcPcomp(c, p, t) == Short((y1(c, p, t) + a2x2(c, t)) \div 512)

\* main() scales the result to kPa.
Kilopascal(v) == (v * 1041) \div 16384 + 800

-----------------------------------------------------------------------------
Init ==
  /\ k \in Coefficients
  /\ padc = 0 /\ tadc = 0
  /\ pcomp = CalcPcomp(k, 0, 0)
  /\ pressure = Kilopascal(pcomp)

Measure ==
  /\ padc' \in Conversions /\ tadc' \in Conversions
  /\ pcomp' = CalcPcomp(k, padc', tadc')
  /\ pressure' = Kilopascal(pcomp')
  /\ UNCHANGED k

Next == Measure

Spec == Init /\ [][Next]_vars

-----------------------------------------------------------------------------
(* Properties.                                                             *)

\* PComp = a0 + (b1 + c12 * Tadc) * Padc + b2 * Tadc, as the comment of
\* calc_pcomp says, with 24 fractional bits: a0 has 3, b1 13, b2 14 and c12
\* 13 after 9 zeros, of which two are in the register.
Exact(c, p, t) ==
  c.a0 * 2097152 + (c.b1 * 2048 + c.c12 * t) * p + c.b2 * t * 1024

\* The same with 4 fractional bits.
Counts == Exact(k, padc, tadc) \div 1048576

\* Of a sensor in its range, 0 to 1023 counts, the result is at most two
\* sixteenths of a count too small, whatever the bits that the shifts drop; what
\* is printed is PComp * ((115.0 - 50.0) / 1023.0) + 50 kPa, as the comment says,
\* to a sixteenth (spi_barometer.c:295-334, 443-446).
Accurate ==
  /\ 0 <= Counts /\ Counts <= 16368 => Counts - pcomp \in 0 .. 2
  /\ 2 <= Counts /\ Counts <= 16368 => (Counts * 65) \div 1023 + 800 - pressure \in 0 .. 1

\* No calibration and no conversion makes an intermediate value overflow
\* (spi_barometer.c:311-331, 446).
FitsInt ==
  /\ k.c12 * tadc \in Bit28 /\ k.b1 + c12x2(k, tadc) \in Bit28
  /\ a1x1(k, padc, tadc) \in Bit28 /\ k.a0 * 1024 \in Bit28
  /\ y1(k, padc, tadc) \in Bit28 /\ k.b2 * tadc \in Bit28
  /\ y1(k, padc, tadc) + a2x2(k, tadc) \in Bit28
  /\ pcomp * 1041 \in Bit28
=============================================================================
