----------------------------- MODULE SensorBytes ----------------------------
(***************************************************************************)
(* How the sensors put a value into two registers of 8 bits, and how the   *)
(* readdata functions of the drivers get it out again.                     *)
(***************************************************************************)
EXTENDS Integers

Byte     == 0 .. 255
Bits10   == 0 .. 1023
Word     == 0 .. 65535
Signed16 == -32768 .. 32767

Bit(n, set) == IF set THEN n ELSE 0

-----------------------------------------------------------------------------
(* The chips: over is IR_OF, the infrared overflow that makes ir and ps     *)
(* invalid; near is the flag that an object is close.                       *)

IrBytes(v, over)       == <<(v % 4) + Bit(128, over), v \div 4>>
AlsBytes(v)            == <<v % 256, v \div 256>>
PsBytes(v, over, near) == <<(v % 16) + Bit(64, over) + Bit(128, near),
                            v \div 16 + Bit(64, over) + Bit(128, near)>>
AxisBytes(v)           == <<(v % 65536) \div 256, v % 256>>

-----------------------------------------------------------------------------
(* The drivers. *)

IrValue(b)  == IF b[1] >= 128 THEN 0 ELSE 4 * b[2] + (b[1] % 4)
AlsValue(b) == 256 * b[2] + b[1]
PsValue(b)  == IF (b[1] \div 64) % 2 = 1 THEN 0 ELSE 16 * (b[2] % 64) + (b[1] % 16)

\* Without the cast to signed short.
AxisValue_Unsigned(b) == 256 * b[1] + b[2]

\* A signed short, the high byte first.
AxisValue(b) ==
  LET u == 256 * b[1] + b[2] IN IF u < 32768 THEN u ELSE u - 65536

=============================================================================
