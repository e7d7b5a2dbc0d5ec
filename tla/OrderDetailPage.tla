-------------------------- MODULE OrderDetailPage --------------------------
(***************************************************************************)
(* pages/order-detail/order-detail.js: the customer watches one order and  *)
(* answers its quote, pays it or cancels it, while the operator and the    *)
(* rider move it on.  The page polls every two seconds, one poll at a      *)
(* time; answers to the customer's own calls are shown as they come in,    *)
(* beside the polls.                                                       *)
(*                                                                         *)
(* The handlers of orders.service.ts and payments.service.ts are one step  *)
(* each here (Platform has their interleavings); what is at stake is the   *)
(* time between a call, its handling and its answer.  The order carries    *)
(* rev, the number of changes it has seen.                                 *)
(***************************************************************************)
EXTENDS Naturals, Sequences, SequencesExt

CONSTANTS
    MaxPolls,       \* bound: polls in flight (one, as the code has it)
    QuotedFees,     \* prices the merchant may quote
    MaxRev          \* bound: changes of the order

ASSUME DetailAssumption == QuotedFees \subseteq Nat \ {0} /\ MaxRev \in Nat

VARIABLES
    row,            \* the order at the server
    wxTrade,        \* the WeChat trade of its prepay_id
    shown,          \* this.data.order, or NoOrder
    visible,        \* the page is on the screen
    starting,       \* onShow's afterVisible callback is still to run
    polling,        \* this.orderSyncTimer
    orderSyncing,   \* this.orderSyncing
    polls,          \* the GETs in flight, in the order they were sent
    reply,          \* confirmOrderQuote or rejectOrderQuote in flight
    payCall,        \* where payOrder's chain of promises is
    cancelCall,     \* cancelOrder, from its dialog to its answer
    lastPoll        \* history: rev of the last poll shown

customer == <<reply, payCall, cancelCall>>
screen == <<visible, starting, polling>>
sync == <<orderSyncing, polls, lastPoll>>
detailVars == <<row, wxTrade, shown, screen, sync, customer>>

NoOrder == [rev |-> 0, status |-> "none", pay |-> "none", quote |-> "none",
            fee |-> 0, arrived |-> FALSE]
NoCall  == [at |-> "none", answer |-> NoOrder]
Sent    == [at |-> "sent", answer |-> NoOrder]

manual(o) == o.quote # "NONE"                     \* isManualQuote
over(o)   == o.status \in {"COMPLETED", "CANCELLED"}

(* An order when the customer first opens its page: just placed, at the    *)
(* price of a quote or to be quoted, or already on its way.                *)
Opened ==
    {[NoOrder EXCEPT !.status = "PENDING", !.pay = "UNPAID", !.quote = "NONE",
                     !.fee = fee] : fee \in QuotedFees}
    \cup {[NoOrder EXCEPT !.status = "PENDING", !.pay = "UNPAID",
                          !.quote = "PENDING"]}
    \cup {[NoOrder EXCEPT !.status = "PICKING_UP", !.pay = "PAID",
                          !.quote = "NONE", !.fee = fee] : fee \in QuotedFees}

DetailTypeOK ==
    /\ row.rev \in 0..MaxRev
    /\ row.status \in {"PENDING", "ACCEPTED", "PICKING_UP", "DELIVERING",
                       "COMPLETED", "CANCELLED"}
    /\ row.pay \in {"UNPAID", "PAID", "CLOSED", "REFUNDING", "REFUNDED"}
    /\ row.quote \in {"NONE", "PENDING", "QUOTED", "ACCEPTED", "REJECTED"}
    /\ row.fee \in QuotedFees \cup {0}
    /\ wxTrade \in {"none", "issued", "paid", "settled", "closed"}
    /\ shown.rev \in 0..row.rev /\ lastPoll \in 0..row.rev
    /\ {visible, starting, polling, orderSyncing} \subseteq BOOLEAN
    /\ Len(polls) <= MaxPolls
    /\ \A i \in DOMAIN polls : polls[i].at \in {"sent", "answered"}
    /\ reply.at \in {"none", "sent", "answered", "refused"}
    /\ payCall \in {"none", "sent", "granted", "paid", "refused", "wallet",
                    "done", "syncing"}
    /\ cancelCall.at \in {"none", "dialog", "sent", "answered", "refused"}

DetailInit ==
    /\ row \in Opened
    /\ wxTrade = IF row.pay = "PAID" THEN "settled" ELSE "none"
    /\ shown \in {NoOrder, row}
    /\ visible = FALSE /\ starting = FALSE /\ polling = FALSE
    /\ orderSyncing = FALSE
    /\ polls = <<>>
    /\ reply = [at |-> "none", answer |-> NoOrder, accepted |-> FALSE]
    /\ payCall = "none"
    /\ cancelCall = NoCall
    /\ lastPoll = 0

----------------------------------------------------------------------------
(* What the server says of an order (getBusinessStatus) and what it lets   *)
(* the customer and the operator do to it.                                 *)
getBusinessStatus(o) ==
    IF over(o) THEN o.status
    ELSE IF manual(o) /\ o.quote \in {"PENDING", "REJECTED"} THEN "AWAITING_QUOTE"
    ELSE IF manual(o) /\ o.quote = "QUOTED" THEN "AWAITING_QUOTE_CONFIRMATION"
    ELSE IF o.pay # "PAID"        THEN "AWAITING_PAYMENT"
    ELSE IF o.status = "PENDING"  THEN "AWAITING_MERCHANT_ACCEPTANCE"
    ELSE IF o.status = "ACCEPTED" THEN "AWAITING_RIDER_ACCEPTANCE"
    ELSE IF o.status = "PICKING_UP" /\ o.arrived THEN "ARRIVED" ELSE o.status

Payable(o)    == o.status # "CANCELLED" /\ (manual(o) => o.quote = "ACCEPTED")
Cancellable(o) ==
    /\ o.status # "COMPLETED"
    /\ o.pay = "PAID" => o.status \in {"PENDING", "CANCELLED"}
Answerable(o) == manual(o) /\ o.quote = "QUOTED"
Quotable(o)   == manual(o) /\ o.status = "PENDING" /\ o.quote # "ACCEPTED"
MayMoveOn(o)  == ~over(o) /\ o.pay = "PAID" /\ (manual(o) => o.quote = "ACCEPTED")

(* What the page offers, from the order it shows: displayStatus, shouldPay, *)
(* canCancel, canAutoRefundCancellation, requiresRefundCancellation and     *)
(* needsQuoteConfirmation of one setData.                                   *)
displayStatus(o) == IF over(o) THEN o.status ELSE getBusinessStatus(o)

----------------------------------------------------------------------------
(* Slips: a failed poll leaves the guard up; a poll does not wait for the  *)
(* one before; the page cancels a paid order by itself as long as nobody   *)
(* rides it.  No action uses them.                                         *)
GuardAfterFailure == orderSyncing
SyncsAnyway == TRUE
refundsUntilTaken(o) == o.pay = "PAID" /\ o.status \in {"PENDING", "ACCEPTED"}
----------------------------------------------------------------------------

shouldPay(o) ==
    /\ o.pay # "PAID" /\ o.status # "CANCELLED"
    /\ manual(o) => o.quote = "ACCEPTED"
canCancel(o) == ~over(o)
canAutoRefund(o) == o.pay = "PAID" /\ o.status = "PENDING"
requiresRefund(o) == o.pay = "PAID" /\ ~canAutoRefund(o)
needsQuoteConfirmation(o) == ~over(o) /\ manual(o) /\ o.quote = "QUOTED"

applyOrder(o) == shown' = o                      \* with cacheOrder(o)

----------------------------------------------------------------------------
(* The page comes and goes.  It comes with the order kept in              *)
(* globalData.orders: the one it showed last, or the one a list of orders  *)
(* has loaded since (orders.js:71, profile.js:77).  afterVisible runs its  *)
(* callback a moment after onShow, whether or not the page is still there. *)
onShow ==
    /\ ~visible
    /\ visible' = TRUE /\ starting' = TRUE
    /\ \E cached \in {shown, row} : applyOrder(cached)
    /\ UNCHANGED <<row, wxTrade, polling, sync, customer>>

onHide ==
    /\ visible
    /\ visible' = FALSE /\ polling' = FALSE
    /\ UNCHANGED <<row, wxTrade, shown, starting, sync, customer>>

MaySync == ~orderSyncing

SendPoll ==
    /\ Len(polls) < MaxPolls
    /\ orderSyncing' = TRUE
    /\ polls' = Append(polls, Sent)
    /\ UNCHANGED lastPoll

(* syncOrder: a call while one is out does nothing.                         *)
syncOrder == IF MaySync THEN SendPoll ELSE UNCHANGED sync

startOrderPolling ==
    /\ starting
    /\ starting' = FALSE /\ polling' = TRUE
    /\ syncOrder
    /\ UNCHANGED <<row, wxTrade, shown, visible, customer>>

PollTick ==
    /\ polling /\ MaySync
    /\ SendPoll
    /\ UNCHANGED <<row, wxTrade, shown, screen, customer>>

(* manualSync and onPullDownRefresh.                                        *)
manualSync ==
    /\ visible /\ MaySync
    /\ SendPoll
    /\ UNCHANGED <<row, wxTrade, shown, screen, customer>>

ServerAnswersPoll(i) ==
    /\ polls[i].at = "sent"
    /\ polls' = [polls EXCEPT ![i] = [at |-> "answered", answer |-> row]]
    /\ UNCHANGED <<row, wxTrade, shown, screen, orderSyncing, lastPoll, customer>>

(* payOrder's chain waits for the synchronisation it started.               *)
payAfterSync == IF payCall = "syncing" THEN "none" ELSE payCall

PollArrives(i) ==
    /\ polls[i].at = "answered"
    /\ applyOrder(polls[i].answer)
    /\ lastPoll' = polls[i].answer.rev
    /\ polls' = RemoveAt(polls, i)
    /\ orderSyncing' = FALSE
    /\ payCall' = payAfterSync
    /\ UNCHANGED <<row, wxTrade, screen, reply, cancelCall>>

AfterFailure == FALSE

PollFails(i) ==
    /\ polls' = RemoveAt(polls, i)
    /\ orderSyncing' = AfterFailure
    /\ payCall' = payAfterSync
    /\ UNCHANGED <<row, wxTrade, shown, screen, lastPoll, reply, cancelCall>>

----------------------------------------------------------------------------
(* The customer's own calls.  Each takes the order that is on the screen;  *)
(* a dialog of the system covers the page while it is open.                *)
Tap == visible /\ shown # NoOrder /\ cancelCall.at # "dialog"

respondToQuote(accepted) ==
    /\ Tap /\ shown.quote = "QUOTED" /\ reply.at = "none"
    /\ reply' = [at |-> "sent", answer |-> NoOrder, accepted |-> accepted]
    /\ UNCHANGED <<row, wxTrade, shown, screen, sync, payCall, cancelCall>>

Changes(o) == row.rev < MaxRev /\ row' = [o EXCEPT !.rev = row.rev + 1]

ServerAnswersReply ==
    /\ reply.at = "sent"
    /\ IF Answerable(row)
       THEN /\ Changes([row EXCEPT !.quote = IF reply.accepted THEN "ACCEPTED"
                                             ELSE "REJECTED"])
            /\ reply' = [reply EXCEPT !.at = "answered", !.answer = row']
       ELSE reply' = [reply EXCEPT !.at = "refused"] /\ UNCHANGED row
    /\ UNCHANGED <<wxTrade, shown, screen, sync, payCall, cancelCall>>

(* An answer, a refusal, or a call that got lost on either way.             *)
ReplyEnds ==
    /\ reply.at # "none"
    /\ reply' = [at |-> "none", answer |-> NoOrder, accepted |-> FALSE]
    /\ \/ reply.at = "answered" /\ applyOrder(reply.answer)
       \/ UNCHANGED shown
    /\ UNCHANGED <<row, wxTrade, screen, sync, payCall, cancelCall>>

(* payOrder: prepay, then the wallet, then a synchronisation.               *)
payOrder ==
    /\ Tap /\ shouldPay(shown) /\ payCall = "none"
    /\ payCall' = "sent"
    /\ UNCHANGED <<row, wxTrade, shown, screen, sync, reply, cancelCall>>

ServerAnswersPrepay ==
    /\ payCall = "sent"
    /\ payCall' = CASE row.pay = "PAID" /\ row.status # "CANCELLED" -> "paid"
                    [] row.pay # "PAID" /\ Payable(row)           -> "granted"
                    [] OTHER                                      -> "refused"
    /\ wxTrade' = IF payCall' = "granted" /\ wxTrade = "none" THEN "issued"
                  ELSE wxTrade
    /\ UNCHANGED <<row, shown, screen, sync, reply, cancelCall>>

PrepayArrives ==
    /\ payCall \in {"granted", "paid"}
    /\ payCall' = IF payCall = "granted" THEN "wallet" ELSE "done"
    /\ UNCHANGED <<row, wxTrade, shown, screen, sync, reply, cancelCall>>

(* The call failed or was lost, or the customer closed the wallet.          *)
PaymentEnds ==
    /\ payCall \in {"sent", "granted", "paid", "refused", "wallet"}
    /\ payCall' = "none"
    /\ UNCHANGED <<row, wxTrade, shown, screen, sync, reply, cancelCall>>

CustomerPaysInWallet ==
    /\ payCall = "wallet" /\ wxTrade = "issued"
    /\ wxTrade' = "paid" /\ payCall' = "done"
    /\ UNCHANGED <<row, shown, screen, sync, reply, cancelCall>>

SyncAfterPayment ==
    /\ payCall = "done"
    /\ syncOrder
    /\ payCall' = IF MaySync THEN "syncing" ELSE "none"
    /\ UNCHANGED <<row, wxTrade, shown, screen, reply, cancelCall>>

(* cancelOrder: a dialog first, or a word about the customer service.       *)
cancelOrder ==
    /\ Tap /\ canCancel(shown) /\ cancelCall.at = "none"
    /\ ~requiresRefund(shown)
    /\ cancelCall' = [NoCall EXCEPT !.at = "dialog"]
    /\ UNCHANGED <<row, wxTrade, shown, screen, sync, reply, payCall>>

CancelConfirmed ==
    /\ cancelCall.at = "dialog"
    /\ cancelCall' = Sent
    /\ UNCHANGED <<row, wxTrade, shown, screen, sync, reply, payCall>>

(* A paid order is refunded, at once or later; the trade of an unpaid one  *)
(* is closed, which WeChat refuses once it is paid.  A refund may fail.    *)
Refused == cancelCall' = [cancelCall EXCEPT !.at = "refused"]
Cancelled(pay) ==
    /\ Changes([row EXCEPT !.status = "CANCELLED", !.pay = pay])
    /\ cancelCall' = [at |-> "answered", answer |-> row']

ServerAnswersCancel ==
    /\ cancelCall.at = "sent"
    /\ \/ /\ \/ ~Cancellable(row)
             \/ ~over(row) /\ (row.pay = "PAID" \/ wxTrade = "paid")
          /\ Refused
          /\ UNCHANGED <<row, wxTrade>>
       \/ /\ row.status = "CANCELLED"
          /\ cancelCall' = [at |-> "answered", answer |-> row]
          /\ UNCHANGED <<row, wxTrade>>
       \/ /\ Cancellable(row) /\ ~over(row) /\ row.pay = "PAID"
          /\ \E pay \in {"REFUNDED", "REFUNDING"} : Cancelled(pay)
          /\ UNCHANGED wxTrade
       \/ /\ ~over(row) /\ row.pay # "PAID" /\ wxTrade # "paid"
          /\ Cancelled("CLOSED")
          /\ wxTrade' = IF wxTrade = "issued" THEN "closed" ELSE wxTrade
    /\ UNCHANGED <<shown, screen, sync, reply, payCall>>

(* The dialog is dismissed, an answer or a refusal arrives, or is lost.     *)
CancelEnds ==
    /\ cancelCall.at # "none"
    /\ cancelCall' = NoCall
    /\ \/ cancelCall.at = "answered" /\ applyOrder(cancelCall.answer)
       \/ UNCHANGED shown
    /\ UNCHANGED <<row, wxTrade, screen, sync, reply, payCall>>

----------------------------------------------------------------------------
(* The others: merchant, operator and rider, and WeChat.                    *)
MerchantQuotes(fee) ==
    /\ Quotable(row)
    /\ Changes([row EXCEPT !.quote = "QUOTED", !.fee = fee])
    /\ UNCHANGED <<wxTrade, shown, screen, sync, customer>>

OrderMovesOn ==
    /\ MayMoveOn(row)
    /\ \/ row.status = "PENDING"    /\ Changes([row EXCEPT !.status = "ACCEPTED"])
       \/ row.status = "ACCEPTED"   /\ Changes([row EXCEPT !.status = "PICKING_UP"])
       \/ /\ row.status = "PICKING_UP"
          /\ \/ ~row.arrived /\ Changes([row EXCEPT !.arrived = TRUE])
             \/ Changes([row EXCEPT !.status = "DELIVERING"])
       \/ row.status = "DELIVERING" /\ Changes([row EXCEPT !.status = "COMPLETED"])
    /\ UNCHANGED <<wxTrade, shown, screen, sync, customer>>

OperatorCancels ==
    /\ ~over(row)
    /\ Changes([row EXCEPT !.status = "CANCELLED"])
    /\ UNCHANGED <<wxTrade, shown, screen, sync, customer>>

WechatNotifiesServer ==
    /\ \/ /\ wxTrade = "paid" /\ wxTrade' = "settled"
          /\ Changes([row EXCEPT !.pay = "PAID"])
       \/ /\ row.pay = "REFUNDING" /\ UNCHANGED wxTrade
          /\ Changes([row EXCEPT !.pay = "REFUNDED"])
    /\ UNCHANGED <<shown, screen, sync, customer>>

ServerChanges ==
    \/ \E fee \in QuotedFees : MerchantQuotes(fee)
    \/ OrderMovesOn \/ OperatorCancels \/ WechatNotifiesServer

CustomerTaps ==
    \/ \E accepted \in BOOLEAN : respondToQuote(accepted)
    \/ payOrder \/ cancelOrder \/ CancelConfirmed

DetailNext ==
    \/ onShow \/ onHide
    \/ startOrderPolling \/ PollTick \/ manualSync \/ SyncAfterPayment
    \/ \E i \in DOMAIN polls :
         ServerAnswersPoll(i) \/ PollArrives(i) \/ PollFails(i)
    \/ CustomerTaps
    \/ ServerAnswersReply \/ ReplyEnds
    \/ ServerAnswersPrepay \/ PrepayArrives \/ PaymentEnds
    \/ CustomerPaysInWallet
    \/ ServerAnswersCancel \/ CancelEnds
    \/ ServerChanges

(* The timer fires, and the network loses neither every request nor every  *)
(* answer for ever.  Nobody else is obliged to do anything.                *)
DetailFairness ==
    /\ WF_detailVars(startOrderPolling)
    /\ WF_detailVars(PollTick)
    /\ SF_detailVars(\E i \in DOMAIN polls : ServerAnswersPoll(i))
    /\ SF_detailVars(\E i \in DOMAIN polls : PollArrives(i))

DetailSpec == DetailInit /\ [][DetailNext]_detailVars /\ DetailFairness

----------------------------------------------------------------------------
(* Polls never go back in time: what a poll shows is at least as new as    *)
(* what the poll before it showed (syncOrder's orderSyncing, line 199).    *)
(* Answers to the customer's own calls may: the next poll mends that.      *)
PollsNeverGoBack == [][lastPoll' >= lastPoll]_detailVars

(* Every button of the page does what the server would do: an order the    *)
(* page offers to pay can be paid, one it offers to cancel is cancelled,   *)
(* with a refund exactly when it promises one, the customer is sent to the *)
(* customer service only where the server would refuse, and the headline   *)
(* names the step that the buttons offer (order-detail.js, lines 41-44 and *)
(* 263-266, against orders.service.ts, lines 77-84 and 625-645).           *)
OffersAreHonoured == shown # NoOrder =>
    /\ shouldPay(shown) => Payable(shown) /\ shown.fee > 0
    /\ (displayStatus(shown) = "AWAITING_PAYMENT")
         = (shouldPay(shown) /\ ~over(shown))
    /\ (displayStatus(shown) = "AWAITING_QUOTE_CONFIRMATION")
         = needsQuoteConfirmation(shown)
    /\ needsQuoteConfirmation(shown) => Answerable(shown)
    /\ canCancel(shown) => (Cancellable(shown) = ~requiresRefund(shown))
    /\ canCancel(shown) /\ ~requiresRefund(shown)
         => ((shown.pay = "PAID") = canAutoRefund(shown))

(* A page that stays open shows the order as it is, however many polls     *)
(* fail on the way and whatever late answers were shown in between         *)
(* (startOrderPolling and syncOrder, lines 184-220).                       *)
PageCatchesUp == <>[]visible => <>[](shown = row)
=============================================================================
