----------------------------- MODULE OCOManager -----------------------------
(***************************************************************************)
(* Bracket orders, src/src/execution/oco_manager.py: a take-profit and a   *)
(* stop-loss leg, of which the end of one cancels the other.               *)
(*                                                                         *)
(* The manager talks to an order gateway it does not own.  That side is    *)
(* modelled from how the manager uses it: cancel_order asks for a          *)
(* cancellation (or fails, where GatewayMayRaise), the exchange carries    *)
(* it out later if the order is still live, and execution reports arrive   *)
(* in any order, late, and more than once.                                 *)
(***************************************************************************)
EXTENDS Naturals

CONSTANTS
  Brackets,        \* bracket ids
  Orders,          \* order ids
  None,            \* no bracket
  GatewayMayRaise, \* whether cancel_order can raise or answer False
  ReuseOrders      \* whether clients put an order of a closed bracket in another

ASSUME OCOAssumption ==
  /\ None \notin Brackets
  /\ None \notin [tp : Orders, sl : Orders, status : {"ACTIVE", "CLOSED"}]
  /\ GatewayMayRaise \in BOOLEAN /\ ReuseOrders \in BOOLEAN

VARIABLES
  bracket,   \* _brackets: bracket id -> its BracketOrder, or None
  owner,     \* _order_to_bracket: order id -> bracket id, or None
  exch,      \* the exchange's own state of each order
  reports,   \* execution reports on their way to the manager
  cancels,   \* cancellation requests the gateway has accepted
  calls,     \* how often each bracket called cancel_order for each leg (history)
  abandoned  \* orders whose cancel_order failed or was never reached (history)

vars == <<bracket, owner, exch, reports, cancels, calls, abandoned>>

Legs == {"tp", "sl"}
Opposite(leg) == IF leg = "tp" THEN "sl" ELSE "tp"
Known == {b \in Brackets : bracket[b] # None}
Active(b) == b \in Known /\ bracket[b].status = "ACTIVE"
Closed(b) == b \in Known /\ bracket[b].status = "CLOSED"
LegsOf(b) == {bracket[b].tp, bracket[b].sl}
OrderOf(b, leg) == IF leg = "tp" THEN bracket[b].tp ELSE bracket[b].sl

\* PARTIALLY_FILLED and REJECTED, to which the manager does what it does to
\* EXPIRED (nothing), are left out.
Final == {"FILLED", "CANCELLED", "EXPIRED"}

Init ==
  /\ bracket = [b \in Brackets |-> None]
  /\ owner = [o \in Orders |-> None]
  /\ exch = [o \in Orders |-> "NEW"]
  /\ reports = {}
  /\ cancels = {}
  /\ calls = [b \in Brackets |-> [l \in Legs |-> 0]]
  /\ abandoned = {}

(***************************************************************************)
(* register_bracket                                                        *)
(***************************************************************************)
\* The order belongs to a bracket that is still active.
InUse(o) == owner[o] # None /\ Active(owner[o])

RegisterBracket(b, tp, sl) ==
  /\ tp # sl
  /\ b \notin Known
  /\ ~InUse(tp)
  /\ ~InUse(sl)
  /\ bracket' = [bracket EXCEPT ![b] = [tp |-> tp, sl |-> sl, status |-> "ACTIVE"]]
  /\ owner' = [owner EXCEPT ![tp] = b, ![sl] = b]
  /\ UNCHANGED <<exch, reports, cancels, calls, abandoned>>

(***************************************************************************)
(* Calling the gateway for some legs.  One that is not accepted raised, was *)
(* never asked for because another one raised, or was answered False, which *)
(* the manager does not look at.                                           *)
(***************************************************************************)
CancelOrders(b, legs, accepted) ==
  /\ cancels' = cancels \cup {OrderOf(b, l) : l \in accepted}
  /\ calls' = [calls EXCEPT ![b] =
                 [l \in Legs |-> @[l] + IF l \in accepted THEN 1 ELSE 0]]
  /\ abandoned' = abandoned \cup {OrderOf(b, l) : l \in legs \ accepted}

Close(b) == bracket' = [bracket EXCEPT ![b].status = "CLOSED"]

(***************************************************************************)
(* handle_execution_report.  An untracked order id is a KeyError and a     *)
(* report for a closed bracket is dropped.                                 *)
(***************************************************************************)
MutClosing == {"CANCELLED"}
MutNoClosedTest(b) == TRUE

\* The statuses that end a bracket.
Closing == {"FILLED", "CANCELLED"}
StillOpen(b) == Active(b)

LegOf(b, o) == IF o = bracket[b].tp THEN "tp" ELSE "sl"

MutSameLeg(b, o) == LegOf(b, o)
OtherLeg(b, o) == Opposite(LegOf(b, o))

HandleExecutionReport(r) ==
  LET b == owner[r.order]
  IN  /\ b # None
      /\ IF StillOpen(b) /\ r.status \in Closing
         THEN /\ Close(b)
              /\ \E accepted \in SUBSET {OtherLeg(b, r.order)} :
                   /\ GatewayMayRaise \/ accepted # {}
                   /\ CancelOrders(b, {OtherLeg(b, r.order)}, accepted)
         ELSE UNCHANGED <<bracket, cancels, calls, abandoned>>
      /\ UNCHANGED <<owner, exch>>

(***************************************************************************)
(* cancel_bracket: closes, then asks for the take-profit, then the stop.   *)
(***************************************************************************)
CancelBracket(b) ==
  /\ Active(b)
  /\ Close(b)
  /\ \E accepted \in SUBSET Legs :
       /\ GatewayMayRaise \/ accepted = Legs
       /\ CancelOrders(b, Legs, accepted)
  /\ UNCHANGED <<owner, exch, reports>>

(***************************************************************************)
(* The exchange and the connection to it (external).                       *)
(***************************************************************************)
Live(o) == owner[o] # None /\ exch[o] \notin Final

Report(o, status) ==
  /\ exch' = [exch EXCEPT ![o] = status]
  /\ reports' = reports \cup {[order |-> o, status |-> status]}

\* A live order fills, expires or is cancelled.
ExchangeMoves(o, status) ==
  /\ Live(o)
  /\ status # exch[o]
  /\ Report(o, status)
  /\ UNCHANGED <<bracket, owner, cancels, calls, abandoned>>

\* The exchange carries out a cancellation; too late for a finished order.
CarryOutCancel(o) ==
  /\ o \in cancels
  /\ cancels' = cancels \ {o}
  /\ IF Live(o) THEN Report(o, "CANCELLED") ELSE UNCHANGED <<exch, reports>>
  /\ UNCHANGED <<bracket, owner, calls, abandoned>>

\* A report arrives; Deliver for the last time, Duplicate with a copy to come.
Deliver(r) == r \in reports /\ reports' = reports \ {r} /\ HandleExecutionReport(r)
Duplicate(r) == r \in reports /\ UNCHANGED reports /\ HandleExecutionReport(r)

ReportTypes == [order : Orders, status : Final]

Next ==
  \/ \E b \in Brackets, tp, sl \in Orders :
       /\ ReuseOrders \/ (owner[tp] = None /\ owner[sl] = None)
       /\ RegisterBracket(b, tp, sl)
  \/ \E b \in Brackets : CancelBracket(b)
  \/ \E r \in ReportTypes : Deliver(r) \/ Duplicate(r)
  \/ \E o \in Orders, st \in Final : ExchangeMoves(o, st)
  \/ \E o \in Orders : CarryOutCancel(o)

Spec == Init /\ [][Next]_vars

\* The connection delivers every report and the exchange treats every request.
Fairness ==
  /\ \A r \in ReportTypes : WF_vars(Deliver(r))
  /\ \A o \in Orders : WF_vars(CarryOutCancel(o))

FairSpec == Spec /\ Fairness

-----------------------------------------------------------------------------
(***************************************************************************)
(* Properties.                                                             *)
(***************************************************************************)
BracketOrders == [tp : Orders, sl : Orders, status : {"ACTIVE", "CLOSED"}]

\* Every variable has the shape of the field it stands for.
TypeOK ==
  /\ bracket \in [Brackets -> BracketOrders \cup {None}]
  /\ owner \in [Orders -> Brackets \cup {None}]
  /\ exch \in [Orders -> Final \cup {"NEW"}]
  /\ reports \subseteq ReportTypes
  /\ cancels \subseteq Orders
  /\ calls \in [Brackets -> [Legs -> Nat]]
  /\ abandoned \subseteq Orders

\* The reverse index is right for every active bracket: both legs lead back to
\* it, so no report of a leg can be taken for another bracket's.  Two active
\* brackets therefore never share an order.
ActiveLegsOwned ==
  /\ TypeOK
  /\ \A b \in Brackets : Active(b) => \A o \in LegsOf(b) : owner[o] = b

\* A closed bracket leaves no leg behind: each has ended, is being cancelled,
\* or its cancel_order call failed.
NoOrphanLeg ==
  \A b \in Brackets : Closed(b) =>
    \A o \in LegsOf(b) : exch[o] \in Final \/ o \in cancels \/ o \in abandoned

\* However many reports arrive, duplicated or crossing a manual cancel, each
\* bracket asks for the cancellation of a leg at most once, and never while it
\* is active.
AtMostOneCancel ==
  \A b \in Brackets, l \in Legs :
    calls[b][l] =< IF Closed(b) THEN 1 ELSE 0

\* One cancels the other: when a leg of an active bracket fills, the other leg
\* does not stay live for ever.  It needs orders that are not reused: a bracket
\* registered around an order whose fill was already reported never hears of it.
OneCancelsTheOther ==
  \A b \in Brackets :
    (Active(b) /\ \E o \in LegsOf(b) : exch[o] = "FILLED")
      ~> (Closed(b) /\ \A o \in LegsOf(b) : exch[o] \in Final)
=============================================================================
