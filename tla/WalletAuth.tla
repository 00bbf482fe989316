------------------------------ MODULE WalletAuth -----------------------------
(***************************************************************************)
(* The pre-payment authorization of /pay (authorization/): the agent's own *)
(* wallet with its per-transaction and daily limits, the policy rules, and *)
(* the RazorpayX balance.  One agent, all its workflows: the row of        *)
(* agent_wallet is shared by every authorize() that runs, by the dashboard *)
(* reading GET /wallet (which may write, too: get_wallet() does the daily  *)
(* reset), and by the operator's reset_wallet.py.  No lock orders them.    *)
(***************************************************************************)
EXTENDS Integers, FiniteSets, Amounts

CONSTANTS
    Call,      \* the calls of /pay that reach authorize()
    Reader,    \* the GET /wallet requests
    Amount,    \* [Call -> Nat]
    Real,      \* the calls whose merchant_id is paid through RazorpayX
    PerTxn,    \* per_txn_limit
    Daily,     \* daily_limit
    Approval,  \* PolicyConfig.human_approval_threshold
    LastDay,   \* bound: the last day a run reaches
    Env        \* what may happen, see Happenings

Happenings == {
    "midnight",    \* a day ends while the proxy runs
    "operator"}    \* reset_wallet.py is run

ASSUME WalletAssumption ==
    /\ IsFiniteSet(Call) /\ Call \cap Reader = {}
    /\ Amount \in [Call -> Nat] /\ Real \subseteq Call
    /\ PerTxn \in Nat /\ Daily \in Nat /\ Approval \in Nat /\ LastDay \in Nat
    /\ Env \subseteq Happenings

VARIABLES
    spent,      \* agent_wallet.spent_today
    lastReset,  \* agent_wallet.last_reset
    today,      \* date.today()
    at,         \* where each call or read is
    copy,       \* the WalletState of each: spent_today and date.today()
    granted     \* the day each allowed call was recorded for, 0 if none

vars == <<spent, lastReset, today, at, copy, granted>>

Client == Call \cup Reader
Labels == {"fetch", "reset", "check", "balance", "record", "allowed", "blocked", "read"}
Over == {"allowed", "blocked", "read"}

TypeOK ==
    /\ spent \in Nat
    /\ lastReset \in 1 .. today /\ today \in Nat \ {0}
    /\ at \in [Client -> Labels]
    /\ copy \in [Client -> [spent : Nat, day : 0 .. today]]
    /\ granted \in [Call -> 0 .. today]

NoCopy == [spent |-> 0, day |-> 0]

\* The first call of the agent inserts the row, with today's date.
Init ==
    /\ spent = 0 /\ lastReset = 1 /\ today = 1
    /\ at = [c \in Client |-> "fetch"] /\ copy = [c \in Client |-> NoCopy]
    /\ granted = [c \in Call |-> 0]

Goto(c, label) == at' = [at EXCEPT ![c] = label]
Copy(c, amount) == copy' = [copy EXCEPT ![c] = [spent |-> amount, day |-> today]]
\* The call or read is over, and its WalletState is gone.
Leave(c, label) == Goto(c, label) /\ copy' = [copy EXCEPT ![c] = NoCopy]
Busy(c) == at[c] \notin Over \cup {"fetch"}

\* A bug to catch: the date is not compared before the reset.
GetWalletResets(c) ==
    /\ at[c] = "fetch"
    /\ Copy(c, 0) /\ Goto(c, "reset")
    /\ UNCHANGED <<spent, lastReset, today, granted>>

\* get_wallet(): SELECT the row; the date is compared as soon as it is there.
GetWallet(c) ==
    /\ at[c] = "fetch"
    /\ \/ lastReset = today /\ Copy(c, spent) /\ Goto(c, "check")
       \/ lastReset # today /\ Copy(c, 0) /\ Goto(c, "reset")
    /\ UNCHANGED <<spent, lastReset, today, granted>>

\* A bug to catch: the reset moves the date and keeps yesterday's spend.
ResetKeepsSpend(c) ==
    /\ at[c] = "reset"
    /\ lastReset' = copy[c].day /\ Goto(c, "check")
    /\ UNCHANGED <<spent, today, copy, granted>>

\* ... and its UPDATE, unconditional: reset_wallet_spend().
ResetSpend(c) ==
    /\ at[c] = "reset"
    /\ spent' = 0 /\ lastReset' = copy[c].day
    /\ Goto(c, "check")
    /\ UNCHANGED <<today, copy, granted>>

\* GET /wallet answers with its copy.
Answer(c) ==
    /\ c \in Reader /\ at[c] = "check"
    /\ Leave(c, "read")
    /\ UNCHANGED <<spent, lastReset, today, granted>>

\* A bug to catch: the amount is left out of the daily comparison.
CanSpendAlready(c) == Amount[c] <= PerTxn /\ copy[c].spent <= Daily

\* WalletState.can_spend(), on the copy.
CanSpend(c) ==
    /\ Amount[c] <= PerTxn
    /\ Amount[c] <= (IF Daily > copy[c].spent THEN Daily - copy[c].spent ELSE 0)

\* can_spend(), then evaluate(): category and recipient are free choices.
Check(c) ==
    /\ c \in Call /\ at[c] = "check"
    /\ \/ /\ CanSpend(c) /\ Amount[c] <= Approval
          /\ Goto(c, IF c \in Real THEN "balance" ELSE "record") /\ UNCHANGED copy
       \/ Leave(c, "blocked")
    /\ UNCHANGED <<spent, lastReset, today, granted>>

\* check_real_balance(): another await; a failure to read it ends the call too.
CheckRealBalance(c) ==
    /\ c \in Call /\ at[c] = "balance"
    /\ \/ Goto(c, "record") /\ UNCHANGED copy
       \/ Leave(c, "blocked")
    /\ UNCHANGED <<spent, lastReset, today, granted>>

\* record_spend(): UPDATE spent_today = spent_today + amount, for whichever day
\* the row stands for by now.
RecordSpend(c) ==
    /\ c \in Call /\ at[c] = "record"
    /\ spent' = spent + Amount[c]
    /\ granted' = [granted EXCEPT ![c] = lastReset]
    /\ Leave(c, "allowed")
    /\ UNCHANGED <<lastReset, today>>

Midnight ==
    /\ "midnight" \in Env /\ today < LastDay
    /\ today' = today + 1
    /\ UNCHANGED <<spent, lastReset, at, copy, granted>>

\* reset_wallet.py: the day's spend is forgiven.
OperatorReset ==
    /\ "operator" \in Env
    /\ spent' = 0 /\ lastReset' = today
    /\ granted' = [c \in Call |-> IF granted[c] = today THEN 0 ELSE granted[c]]
    /\ UNCHANGED <<today, at, copy>>

Next ==
    \/ \E c \in Client :
          \/ GetWallet(c) \/ ResetSpend(c) \/ Answer(c)
          \/ Check(c) \/ CheckRealBalance(c) \/ RecordSpend(c)
    \/ Midnight \/ OperatorReset

Spec == Init /\ [][Next]_vars

-----------------------------------------------------------------------------

\* What was granted for the day the row stands for.
GrantedTotal ==
    Total([c \in Call |-> IF granted[c] = lastReset THEN Amount[c] ELSE 0])

\* spent_today never counts what was not granted for the row's day, whatever
\* overlaps: no other day's spend is carried over, and increment_wallet_spend()
\* is one UPDATE on the row, not on the copy.  It may count less: a get_wallet()
\* that read the row before another's reset erases what was granted since.
NeverOvercounted == spent <= GrantedTotal

\* The row never passes the daily limit: what it counts for its day is within the
\* agent's authority (mcp_proxy.py:174-180).  After a late reset more may have been
\* granted than it counts.
WithinDaily == spent <= Daily

\* The calls of /pay come one at a time; reads of the wallet come as they like.
OneCallAtATime == \A c, d \in Call : Busy(c) /\ Busy(d) => c = d

\* The day's reset is through: the row bears today's date, and nobody who read it
\* before is still about to reset it.
DayIsOpen == lastReset = today /\ \A c \in Client : at[c] # "reset"

\* Once the day's reset is through the row is exact until midnight: each grant is
\* added in full, none is lost, and nobody resets the day again but the operator
\* (db/client.py:152-153, wallet.py:47-50).
ExactOnceOpen ==
    [][DayIsOpen /\ today' = today /\ ~OperatorReset =>
           DayIsOpen' /\ spent' - spent = GrantedTotal' - GrantedTotal]_vars

===============================================================================
