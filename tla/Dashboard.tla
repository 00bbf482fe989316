------------------------------ MODULE Dashboard ------------------------------
(***************************************************************************)
(* A browser that watches a workflow's payouts (dashboard/src/App.jsx) while*)
(* /pay and the recheck worker run.  Events are Redis pub/sub messages that *)
(* the proxy relays over a WebSocket: in order, and never again.  Of what   *)
(* the browser shows, this module keeps the one escalation banner, which    *)
(* clears itself, and the list of payouts that wait for a human.            *)
(***************************************************************************)
EXTENDS Payments

VARIABLES
    link,        \* the browser's WebSocket
    heard,       \* the events handled or missed so far, while the link is open
    escalation,  \* the banner, or None
    stuck        \* stuckPayouts

watchVars == <<link, heard, escalation, stuck>>

\* A restart of the proxy would end the link with it; Lose stands for that too.
ASSUME WatchAssumption == "restart" \notin Env

WatchTypeOK ==
    /\ TypeOK
    /\ link \in {"none", "accepted", "open", "lost"}
    /\ heard \in 0 .. Len(feed)
    /\ escalation \in Req \cup {None} /\ stuck \subseteq Req

WatchInit ==
    /\ Init
    /\ link = "none" /\ heard = 0 /\ escalation = None /\ stuck = {}

\* A bug to catch: the banner of the previous connection stays.
ConnectKeeps ==
    /\ link \in {"none", "lost"}
    /\ link' = "accepted" /\ stuck' = {}
    /\ UNCHANGED <<vars, heard, escalation>>

\* connectWS(): the old socket is closed, the per-workflow state cleared; the
\* proxy accepts, and the browser says "LINK STABLE".
Connect ==
    /\ link \in {"none", "lost"}
    /\ link' = "accepted" /\ escalation' = None /\ stuck' = {}
    /\ UNCHANGED <<vars, heard>>

\* pubsub.subscribe(): what was published before is not sent.
Subscribe ==
    /\ link = "accepted"
    /\ link' = "open" /\ heard' = Len(feed)
    /\ UNCHANGED <<vars, escalation, stuck>>

\* onclose: nothing connects again, and what is shown stays.
Lose ==
    /\ link \in {"accepted", "open"}
    /\ link' = "lost" /\ heard' = 0
    /\ UNCHANGED <<vars, escalation, stuck>>

ClearedFor(r) == IF escalation = r THEN None ELSE escalation

\* handleEvent(): a new escalation replaces the one shown.
Show(e) ==
    /\ escalation' = CASE e.event = "escalation" -> e.req
                       [] e.event \in {"payout_resolved", "exhausted"} -> ClearedFor(e.req)
                       [] OTHER -> escalation
    /\ stuck' = IF e.event = "exhausted" THEN stuck \cup {e.req} ELSE stuck

Hear ==
    /\ link = "open" /\ heard < Len(feed)
    /\ heard' = heard + 1 /\ Show(feed[heard + 1])
    /\ UNCHANGED <<vars, link>>

\* Both kinds of banner can be dismissed by hand.
Dismiss ==
    /\ \/ escalation # None /\ escalation' = None /\ UNCHANGED stuck
       \/ \E r \in stuck : stuck' = stuck \ {r} /\ UNCHANGED escalation
    /\ UNCHANGED <<vars, link, heard>>

Browser == Connect \/ Subscribe \/ Lose \/ Hear \/ Dismiss

\* The agent sends a payment when it has the answer to the one before.
OneByOne == \A q, r \in Req : InFlight(q) /\ InFlight(r) => q = r

WatchNext == Browser \/ (Next /\ OneByOne' /\ UNCHANGED watchVars)

WatchSpec == WatchInit /\ [][WatchNext]_<<vars, watchVars>>

\* A link that stands delivers; nobody owes us a connection.
FairWatchSpec == WatchSpec /\ Fairness /\ WF_<<vars, watchVars>>(Subscribe \/ Hear)

-----------------------------------------------------------------------------

Published(kinds, r) == {i \in DOMAIN feed : feed[i].req = r /\ feed[i].event \in kinds}
Closing == {"payout_resolved", "exhausted"}

\* /pay announced the escalation only after the worker had closed the row.
Overtaken(r) ==
    \E i \in Published(Closing, r), j \in Published({"escalation"}, r) : i < j

\* The banner of a payout goes away by itself while somebody watches, whatever
\* becomes of the payout, unless its events are out of order (App.jsx:384-388).
BannerClears ==
    \A r \in Req : escalation = r ~> (escalation # r \/ link # "open" \/ Overtaken(r))

\* Once a human was called to a payout nothing resolves it behind their back:
\* "there won't be one" (App.jsx:642-643).
HandOffIsFinal == [][\A r \in stuck : rows'[r].status = rows[r].status]_<<vars, watchVars>>

\* What makes HandOffIsFinal inductive: who announces a payout as given up, the
\* event, and who heard it, all mean a row that is closed as exhausted.
GivenUpMeansExhausted ==
    /\ wpc = "announce_exhausted" => rows[cur].status = "exhausted"
    /\ \A i \in DOMAIN feed : feed[i].event = "exhausted" => rows[feed[i].req].status = "exhausted"
    /\ \A r \in stuck : rows[r].status = "exhausted"

===============================================================================
