------------------------------ MODULE Fees -------------------------------
(***************************************************************************)
(* The fee schedule of an account (src/src/fees/fees.service.ts): amounts  *)
(* are minor units, rates are basis points, a fee is rounded half up to    *)
(* the minor unit (Decimal.toFixed(2)).                                    *)
(***************************************************************************)
EXTENDS Integers

MaxBps == 10000

\* What updateConfig accepts for every rate of a schedule.
Rates == 0..MaxBps

\* A tier table: below the threshold one rate, at or above it another.
Tiers == [threshold: Nat, belowBps: Rates, aboveBps: Rates]

FeeBps(tiers, value) ==
  IF value < tiers.threshold THEN tiers.belowBps ELSE tiers.aboveBps

RoundedShare(value, bps) == (value * bps + 5000) \div 10000

ComputeFee(tiers, value) == RoundedShare(value, FeeBps(tiers, value))

(***************************************************************************)
(* What is left of a payment after the fee is something wallets.move       *)
(* accepts (it refuses amounts that are not positive): true for all rates  *)
(* below one half.  At higher rates small amounts are eaten up by the      *)
(* rounding, and the credit of a paid collection fails.                    *)
(***************************************************************************)
LeavesCredit(value, bps) == RoundedShare(value, bps) < value

=============================================================================
