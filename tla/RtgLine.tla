------------------------------ MODULE RtgLine ------------------------------
(***************************************************************************)
(* An accelerated line.  Picasso96 hands over a clipped segment of a line: *)
(* the start of the whole line, its full extent, and where the segment     *)
(* starts.  The driver seeds the firmware's accumulator so that the        *)
(* segment continues the staircase DrawLineDefault draws for the line.     *)
(***************************************************************************)
EXTENDS Integers

CONSTANT MaxMajor  \* bound on a line's extent

VARIABLES lX, lY,      \* the extent dX, dY of the line
          lSkip,       \* major-axis pixels clipped away at its start
          lAt,         \* pixels of the segment drawn, -1 before the call
          lErr, lMinor \* the firmware's accumulator and minor-axis position

lineVars == <<lX, lY, lSkip, lAt, lErr, lMinor>>

Abs(n) == IF n < 0 THEN -n ELSE n
Major == IF Abs(lX) >= Abs(lY) THEN Abs(lX) ELSE Abs(lY)
Minor == IF Abs(lX) >= Abs(lY) THEN Abs(lY) ELSE Abs(lX)

\* Where DrawLineDefault puts pixel i of the whole line: rounded, ties up.
Ideal(i) == (2 * i * Minor + Major) \div (2 * Major)

Extents == (-MaxMajor)..MaxMajor

\* A line that is neither horizontal nor vertical, clipped before pixel lSkip.
Init ==
  /\ lX \in Extents \ {0} /\ lY \in Extents \ {0}
  /\ lSkip \in 0..(Major - 1)
  /\ lAt = -1 /\ lErr = 0 /\ lMinor = 0

\* The seed in the seed's 16-bit register; X, Y is where the ideal line is.
Seed(l, s, k, m) == (s * k - l * m + (l \div 2)) % 65536

DrawLine ==
  /\ lAt = -1
  /\ lAt' = 0 /\ lMinor' = Ideal(lSkip)
  /\ lErr' = Seed(Major, Minor, lSkip, Ideal(lSkip))
  /\ UNCHANGED <<lX, lY, lSkip>>

\* The firmware's next pixel.
Plot ==
  /\ lAt >= 0 /\ lSkip + lAt < Major
  /\ lAt' = lAt + 1
  /\ lErr' = (lErr + Minor) % Major
  /\ lMinor' = lMinor + ((lErr + Minor) \div Major)
  /\ UNCHANGED <<lX, lY, lSkip>>

Next == DrawLine \/ Plot

Spec == Init /\ [][Next]_lineVars

-----------------------------------------------------------------------------
\* Every pixel of every clipped segment lies where the whole line has it, and
\* the accumulator stays a remainder.
LineExact ==
  lAt >= 0 => /\ lMinor = Ideal(lSkip + lAt)
              /\ lErr \in 0..(Major - 1)
=============================================================================
