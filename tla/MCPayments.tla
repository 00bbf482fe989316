------------------------------ MODULE MCPayments -----------------------------
(* Instances of Payments for TLC.  An amount is a count of equal parts of a *)
(* price; Sent is one part less where int(amount * 100) cuts a fraction off. *)
EXTENDS Payments, TLC

CONSTANTS r1, r2, r3, k1, k2

\* A call, its retry, and an independent payment.
RetryKey == r1 :> k1 @@ r2 :> k1 @@ r3 :> k2
RetryAmount == r1 :> 2 @@ r2 :> 2 @@ r3 :> 1
RetrySent == r1 :> 2 @@ r2 :> 2 @@ r3 :> 1
RetryCharged == r1 :> {1, 2} @@ r2 :> {1, 2} @@ r3 :> {1}
RetryOtherPrice == r1 :> {1} @@ r2 :> {2} @@ r3 :> {1}
DearPayout == r1 :> 2 @@ r2 :> 2 @@ r3 :> 2
DearPayoutSent == r1 :> 2 @@ r2 :> 2 @@ r3 :> 1
RetryBesidePayout == r1 :> "mock" @@ r2 :> "mock" @@ r3 :> "rzp"

\* Two payments, one of them a payout, or both.
PairKey == r1 :> k1 @@ r2 :> k2
PairAmount == r1 :> 2 @@ r2 :> 1
PairSent == r1 :> 1 @@ r2 :> 1
PairCharged == r1 :> {2} @@ r2 :> {0, 1}
PayoutAndMock == r1 :> "rzp" @@ r2 :> "mock"
UnconfirmedAndUnknown == r1 :> "rzp_downstream" @@ r2 :> "unknown"

\* A payment and its retry, nothing else.
TwiceKey == r1 :> k1 @@ r2 :> k1
TwiceAmount == r1 :> 1 @@ r2 :> 1
TwiceSent == r1 :> 1 @@ r2 :> 1
TwiceCharged == r1 :> {1} @@ r2 :> {1}
TwiceMock == r1 :> "mock" @@ r2 :> "mock"

===============================================================================
