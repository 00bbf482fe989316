----------------------------- MODULE WalletProofs ----------------------------
(***************************************************************************)
(* Proofs about module WalletAuth.  Whatever overlaps: the types hold, the *)
(* row never counts what was not granted, and from the day's reset on it   *)
(* is exact until midnight.  While calls come one at a time, however many  *)
(* readers reset the row beside them, it stays within the daily limit.     *)
(***************************************************************************)
EXTENDS WalletAuth, AmountsProofs

\* A reset under way bears a date: what keeps the types, overlapping or not.
ResetsAreDated == \A c \in Client : at[c] = "reset" => copy[c].day # 0
Dated == TypeOK /\ ResetsAreDated

\* Only an allowed call is granted anything.
GrantsHold == \A c \in Call : at[c] # "allowed" => granted[c] = 0

\* The inductive invariant of NeverOvercounted.
Counting == Dated /\ GrantsHold /\ NeverOvercounted

\* The copy a call decides on may be out of date, but then it shows too much:
\* others only reset the row meanwhile.
CopiesAreSafe ==
    \A c \in Call :
        /\ at[c] = "reset" => copy[c].spent = 0
        /\ at[c] \in {"check", "balance", "record"} =>
               spent <= copy[c].spent /\ copy[c].spent <= Daily
        /\ at[c] \in {"balance", "record"} => copy[c].spent + Amount[c] <= Daily

\* The inductive invariant of WithinDaily.
DailyHolds == Dated /\ CopiesAreSafe /\ WithinDaily

GrantedOf(c) == IF granted[c] = lastReset THEN Amount[c] ELSE 0

\* spent_today and the grants of the row's day, as functions of the calls.
LEMMA GrantedNat ==
    ASSUME TypeOK
    PROVE  /\ [c \in Call |-> GrantedOf(c)] \in [Call -> Nat]
           /\ GrantedTotal = Total([c \in Call |-> GrantedOf(c)])
           /\ GrantedTotal \in Nat
<1> DEFINE f == [c \in Call |-> GrantedOf(c)]
<1>1. f \in [Call -> Nat]
  BY WalletAssumption DEF GrantedOf
<1>2. GrantedTotal = Total(f)
  BY DEF GrantedTotal, GrantedOf
<1>3. Total(f) \in Nat
  <2> HIDE DEF f
  <2> QED BY <1>1, WalletAssumption, TotalNat
<1> QED BY <1>1, <1>2, <1>3

LEMMA WalletInit == Init => Counting /\ DailyHolds
<1> SUFFICES ASSUME Init PROVE Counting /\ DailyHolds
  OBVIOUS
<1>1. Dated
  BY DEF Init, Dated, ResetsAreDated, TypeOK, Labels, NoCopy
<1>2. GrantsHold /\ CopiesAreSafe
  BY DEF Init, GrantsHold, CopiesAreSafe, Client, NoCopy
<1>3. spent = 0 /\ GrantedTotal \in Nat
  BY <1>1, GrantedNat DEF Init, Dated
<1>4. NeverOvercounted /\ WithinDaily
  BY <1>3, WalletAssumption DEF NeverOvercounted, WithinDaily
<1> QED BY <1>1, <1>2, <1>4 DEF Counting, DailyHolds

LEMMA WalletTypeNext ==
    ASSUME Dated, [Next]_vars
    PROVE  Dated'
<1> USE WalletAssumption DEF Dated, ResetsAreDated, TypeOK, Client, Labels, Goto,
                           Leave, NoCopy
<1>1. ASSUME NEW c \in Client, GetWallet(c) PROVE Dated'
  <2>1. UNCHANGED <<spent, lastReset, today, granted>>
    BY <1>1 DEF GetWallet
  <2>2. PICK amount \in Nat, label \in {"check", "reset"} : Copy(c, amount) /\ Goto(c, label)
    BY <1>1 DEF GetWallet
  <2>3. copy' = [copy EXCEPT ![c] = [spent |-> amount, day |-> today]]
    BY <2>2 DEF Copy
  <2>4. at' = [at EXCEPT ![c] = label]
    BY <2>2
  <2>5. copy' \in [Client -> [spent : Nat, day : 0 .. today]] /\ at' \in [Client -> Labels]
    BY <2>3, <2>4
  <2>6. TypeOK'
    BY <2>1, <2>5
  <2>7. ResetsAreDated'
    BY <2>3, <2>4
  <2> QED BY <2>6, <2>7
<1>2. ASSUME NEW c \in Client, ResetSpend(c) PROVE Dated'
  BY <1>2 DEF ResetSpend
<1>3. ASSUME NEW c \in Client, Answer(c) PROVE Dated'
  BY <1>3 DEF Answer
<1>4. ASSUME NEW c \in Client, Check(c) PROVE Dated'
  BY <1>4 DEF Check
<1>5. ASSUME NEW c \in Client, CheckRealBalance(c) PROVE Dated'
  BY <1>5 DEF CheckRealBalance
<1>6. ASSUME NEW c \in Client, RecordSpend(c) PROVE Dated'
  BY <1>6 DEF RecordSpend
<1>7. CASE Midnight
  BY <1>7 DEF Midnight
<1>8. CASE OperatorReset
  BY <1>8 DEF OperatorReset
<1>9. CASE UNCHANGED vars
  BY <1>9 DEF vars
<1> QED BY <1>1, <1>2, <1>3, <1>4, <1>5, <1>6, <1>7, <1>8, <1>9 DEF Next

(* ---------------- the count ---------------------------------------------- *)

\* A grant adds the same amount to the row and to what was granted for its day.
LEMMA RecordAddsBoth ==
    ASSUME TypeOK, TypeOK', GrantsHold, NEW c \in Client, RecordSpend(c)
    PROVE  spent' = spent + Amount[c] /\ GrantedTotal' = GrantedTotal + Amount[c]
<1> DEFINE f == [d \in Call |-> GrantedOf(d)]
           g == [d \in Call |-> GrantedOf(d)']
<1>1. c \in Call /\ granted[c] = 0 /\ lastReset' = lastReset /\ lastReset # 0
  BY DEF RecordSpend, GrantsHold, TypeOK
<1>2. granted'[c] = lastReset /\ \A d \in Call \ {c} : granted'[d] = granted[d]
  BY <1>1 DEF RecordSpend, TypeOK
<1>3. f[c] = 0 /\ g[c] = Amount[c] /\ \A d \in Call \ {c} : g[d] = f[d]
  BY <1>1, <1>2 DEF GrantedOf
<1>4. f \in [Call -> Nat] /\ g \in [Call -> Nat] /\ Amount[c] \in Nat
  BY <1>1, WalletAssumption DEF GrantedOf
<1>5. GrantedTotal = Total(f) /\ GrantedTotal' = Total(g)
  BY DEF GrantedTotal, GrantedOf
<1>6. GrantedTotal \in Nat
  BY GrantedNat
<1> HIDE DEF f, g
<1>7. Total(g) = Total(f) - f[c] + g[c]
  BY <1>1, <1>3, <1>4, WalletAssumption, TotalUpdate
<1> QED BY <1>3, <1>4, <1>5, <1>6, <1>7 DEF RecordSpend

\* The other steps leave count and grants alone, or take the count back to zero.
LEMMA OtherSteps ==
    ASSUME [Next]_vars, \A c \in Client : ~RecordSpend(c)
    PROVE  UNCHANGED <<spent, lastReset, granted>> \/ spent' = 0
BY DEF Next, GetWallet, ResetSpend, Answer, Check, CheckRealBalance, Midnight, OperatorReset, vars

LEMMA CountNext ==
    ASSUME Counting, [Next]_vars
    PROVE  Counting'
<1>1. Dated'
  BY WalletTypeNext DEF Counting
<1>2. GrantsHold'
  BY DEF Counting, Dated, TypeOK, GrantsHold, Next, GetWallet, ResetSpend, Answer, Check, Goto,
         Leave,
         CheckRealBalance, RecordSpend, Midnight, OperatorReset, vars, Client, Labels
<1>3. spent \in Nat /\ GrantedTotal \in Nat /\ GrantedTotal' \in Nat
  <2>1. TypeOK /\ TypeOK'
    BY <1>1 DEF Counting, Dated
  <2>2. ASSUME TypeOK' PROVE GrantedTotal' \in Nat
    <3> DEFINE g == [c \in Call |-> GrantedOf(c)']
    <3>1. g \in [Call -> Nat]
      BY WalletAssumption DEF GrantedOf
    <3>2. GrantedTotal' = Total(g)
      BY DEF GrantedTotal, GrantedOf
    <3> HIDE DEF g
    <3> QED BY <3>1, <3>2, WalletAssumption, TotalNat
  <2> QED BY <2>1, <2>2, GrantedNat DEF TypeOK
<1>4. NeverOvercounted'
  <2>1. CASE \E c \in Client : RecordSpend(c)
    <3>1. PICK c \in Client : RecordSpend(c)
      BY <2>1
    <3>2. /\ spent' = spent + Amount[c] /\ GrantedTotal' = GrantedTotal + Amount[c]
          /\ Amount[c] \in Nat
      BY <1>1, <3>1, RecordAddsBoth, WalletAssumption DEF Counting, Dated, RecordSpend
    <3> QED BY <1>3, <3>2 DEF Counting, NeverOvercounted
  <2>2. CASE UNCHANGED <<spent, lastReset, granted>>
    <3>1. GrantedTotal' = GrantedTotal
      BY <2>2 DEF GrantedTotal
    <3> QED BY <2>2, <3>1 DEF Counting, NeverOvercounted
  <2>3. CASE spent' = 0
    BY <1>3, <2>3 DEF NeverOvercounted
  <2> QED BY <2>1, <2>2, <2>3, OtherSteps
<1> QED BY <1>1, <1>2, <1>4 DEF Counting

\* spent_today never counts more than was granted for the row's day, however
\* calls, readers, midnights and the operator's script interleave.
THEOREM SpendIsCovered == Spec => []NeverOvercounted
<1>1. Counting /\ [Next]_vars => Counting'
  BY CountNext
<1>2. Counting => NeverOvercounted
  BY DEF Counting
<1> QED BY WalletInit, <1>1, <1>2, PTL DEF Spec

\* While the day is open a step adds to both sides or to neither.
LEMMA OpenDayStep ==
    ASSUME Counting, [Next]_vars, DayIsOpen, today' = today, ~OperatorReset
    PROVE  DayIsOpen' /\ spent' - spent = GrantedTotal' - GrantedTotal
<1>1. TypeOK /\ TypeOK' /\ GrantsHold /\ spent \in Nat /\ GrantedTotal \in Nat
  BY WalletTypeNext, GrantedNat DEF Counting, Dated, TypeOK
<1>2. \A c \in Client : ~ResetSpend(c)
  BY DEF DayIsOpen, ResetSpend
<1>3. lastReset' = lastReset
  BY <1>2 DEF Next, GetWallet, Answer, Check, CheckRealBalance, RecordSpend, Midnight, vars
<1>4. \A c \in Client : at'[c] # "reset"
  BY <1>1, <1>2 DEF TypeOK, DayIsOpen, Goto, Leave, Next, GetWallet, Answer, Check,
                    CheckRealBalance, RecordSpend, Midnight, vars
<1>5. CASE \E c \in Client : RecordSpend(c)
  <2>1. PICK c \in Client : RecordSpend(c)
    BY <1>5
  <2>2. /\ spent' = spent + Amount[c] /\ GrantedTotal' = GrantedTotal + Amount[c]
        /\ Amount[c] \in Nat
    BY <1>1, <2>1, RecordAddsBoth, WalletAssumption DEF RecordSpend
  <2> QED BY <1>1, <1>3, <1>4, <2>2 DEF DayIsOpen
<1>6. CASE ~\E c \in Client : RecordSpend(c)
  <2>1. UNCHANGED <<spent, lastReset, granted>>
    BY <1>2, <1>6 DEF Next, GetWallet, Answer, Check, CheckRealBalance, Midnight, vars
  <2>2. GrantedTotal' = GrantedTotal
    BY <2>1 DEF GrantedTotal
  <2> QED BY <1>1, <1>3, <1>4, <2>1, <2>2 DEF DayIsOpen
<1> QED BY <1>5, <1>6

\* From the day's reset on the row is exact until midnight: overlapping calls and
\* readers lose no grant and reset nothing.
THEOREM OpenDayIsExact == Spec => ExactOnceOpen
<1>1. Counting /\ [Next]_vars => Counting'
  BY CountNext
<1>2. Counting /\ [Next]_vars
         => [DayIsOpen /\ today' = today /\ ~OperatorReset =>
                DayIsOpen' /\ spent' - spent = GrantedTotal' - GrantedTotal]_vars
  BY OpenDayStep
<1> QED BY WalletInit, <1>1, <1>2, PTL DEF Spec, ExactOnceOpen

(* ---------------- the daily limit ---------------------------------------- *)

LEMMA CopiesNext ==
    ASSUME TypeOK, OneCallAtATime, CopiesAreSafe, WithinDaily, [Next]_vars
    PROVE  CopiesAreSafe'
<1> USE WalletAssumption DEF TypeOK, CopiesAreSafe, Client, Labels, Goto, Leave
<1>1. ASSUME NEW c \in Client, GetWallet(c) PROVE CopiesAreSafe'
  BY <1>1 DEF GetWallet, Copy, WithinDaily
<1>2. ASSUME NEW c \in Client, ResetSpend(c) PROVE CopiesAreSafe'
  <2>1. spent' = 0 /\ UNCHANGED copy
    BY <1>2 DEF ResetSpend
  <2>2. \A d \in Client \ {c} : at'[d] = at[d]
    BY <1>2 DEF ResetSpend
  <2>3. at[c] = "reset" /\ at'[c] = "check"
    BY <1>2 DEF ResetSpend
  <2> QED BY <2>1, <2>2, <2>3
<1>3. ASSUME NEW c \in Client, Answer(c) PROVE CopiesAreSafe'
  BY <1>3 DEF Answer
<1>4. ASSUME NEW c \in Client, Check(c) PROVE CopiesAreSafe'
  <2>1. /\ at[c] = "check" /\ c \in Call /\ UNCHANGED <<spent, lastReset, today, granted>>
        /\ \A d \in Client \ {c} : at'[d] = at[d] /\ copy'[d] = copy[d]
    BY <1>4 DEF Check
  <2>2. at'[c] \in {"balance", "record", "blocked"}
    BY <1>4 DEF Check
  <2>3. at'[c] # "blocked" => UNCHANGED copy /\ copy[c].spent + Amount[c] <= Daily
    BY <1>4, <2>1 DEF Check, CanSpend
  <2> QED BY <2>1, <2>2, <2>3
<1>5. ASSUME NEW c \in Client, CheckRealBalance(c) PROVE CopiesAreSafe'
  BY <1>5 DEF CheckRealBalance
<1>6. ASSUME NEW c \in Client, RecordSpend(c) PROVE CopiesAreSafe'
  <2>1. c \in Call /\ at[c] = "record" /\ at'[c] = "allowed"
    BY <1>6 DEF RecordSpend
  <2>2. \A d \in Call \ {c} : at'[d] \in Over \cup {"fetch"}
    BY <1>6, <2>1 DEF RecordSpend, OneCallAtATime, Busy, Over
  <2> QED BY <2>1, <2>2 DEF Over
<1>7. CASE Midnight
  BY <1>7 DEF Midnight
<1>8. CASE OperatorReset
  BY <1>8 DEF OperatorReset
<1>9. CASE UNCHANGED vars
  BY <1>9 DEF vars
<1> QED BY <1>1, <1>2, <1>3, <1>4, <1>5, <1>6, <1>7, <1>8, <1>9 DEF Next

LEMMA DailyNext ==
    ASSUME OneCallAtATime, DailyHolds, [Next]_vars
    PROVE  DailyHolds'
<1>1. Dated'
  BY WalletTypeNext DEF DailyHolds
<1>2. CopiesAreSafe'
  BY CopiesNext DEF DailyHolds, Dated
<1>3. WithinDaily'
  <2>1. CASE \E c \in Client : RecordSpend(c)
    <3>1. PICK c \in Client : RecordSpend(c)
      BY <2>1
    <3>2. /\ c \in Call /\ spent' = spent + Amount[c] /\ Amount[c] \in Nat /\ spent \in Nat
          /\ copy[c].spent \in Nat /\ spent <= copy[c].spent
          /\ copy[c].spent + Amount[c] <= Daily
      BY <3>1, WalletAssumption DEF RecordSpend, DailyHolds, Dated, TypeOK, CopiesAreSafe, Client
    <3> QED BY <3>2, WalletAssumption DEF WithinDaily
  <2>2. CASE UNCHANGED spent \/ spent' = 0
    BY <2>2, WalletAssumption DEF DailyHolds, WithinDaily
  <2> QED BY <2>1, <2>2, OtherSteps
<1> QED BY <1>1, <1>2, <1>3 DEF DailyHolds

\* While calls come one at a time spent_today never passes the daily limit, though
\* readers and the operator reset the row in the middle of a call.
THEOREM DailyLimitKept == Spec /\ []OneCallAtATime => []WithinDaily
<1>1. OneCallAtATime /\ DailyHolds /\ [Next]_vars => DailyHolds'
  BY DailyNext
<1>2. DailyHolds => WithinDaily
  BY DEF DailyHolds
<1> QED BY WalletInit, <1>1, <1>2, PTL DEF Spec

(* ---------------- types -------------------------------------------------- *)

\* The row's date is one of the days that have begun, and no copy is from a later
\* one, even when authorizations and reads overlap.
THEOREM WalletTypes == Spec => []TypeOK
<1>1. Counting /\ [Next]_vars => Counting'
  BY CountNext
<1>2. Counting => TypeOK
  BY DEF Counting, Dated
<1> QED BY WalletInit, <1>1, <1>2, PTL DEF Spec

===============================================================================
