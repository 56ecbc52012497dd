------------------------------ MODULE MoleMath ------------------------------
(***************************************************************************)
(* The integer arithmetic of crates/molemath.  The crate computes on u128  *)
(* with a 256-bit intermediate product; every amount a run or a proof uses *)
(* is far below 2^128, so the overflow errors are out of reach here and    *)
(* rounding, the part the clearing rules depend on, is kept exactly.       *)
(***************************************************************************)
EXTENDS Integers

(* BPS_SCALE: one unit in basis points.                                    *)
BpsScale == 10000

Smaller(a, b) == IF a <= b THEN a ELSE b

Larger(a, b) == IF a >= b THEN a ELSE b

(* u128::saturating_sub.                                                   *)
Monus(a, b) == IF a >= b THEN a - b ELSE 0

Distance(a, b) == IF a >= b THEN a - b ELSE b - a

(* floor(a * b / d); callers guard d # 0.                                  *)
MulDivFloor(a, b, d) == (a * b) \div d

(* ceil(a * b / d).                                                        *)
MulDivCeil(a, b, d) == (a * b + d - 1) \div d

(* Profit (or loss) of `notional` on side `sign` (+1 long, -1 short) when  *)
(* the price moves from pLast to pNow.  The magnitude is floored before it *)
(* is signed, so a loss is rounded toward zero as well.                    *)
SignedPnlIncrement(sign, notional, pLast, pNow) ==
  LET size == MulDivFloor(notional, Distance(pNow, pLast), pLast)
      up   == pNow >= pLast
  IN  IF up = (sign = 1) THEN size ELSE -size

(* |pNew - pOld| in basis points of pOld, floored.                         *)
PriceMoveBps(pOld, pNew) ==
  MulDivFloor(Distance(pNew, pOld), BpsScale, pOld)
=============================================================================
