----------------------------- MODULE PagesProofs -----------------------------
(***************************************************************************)
(* What the operator's desk and the customer's order page show, however    *)
(* answers are delayed, reordered or lost.                                 *)
(***************************************************************************)
EXTENDS OperationsDesk, OrderDetailPage, TLAPS

DeskSpec == DeskInit /\ [][DeskNext]_deskVars

----------------------------------------------------------------------------
(* An order that was announced has been seen, and none is announced before  *)
(* the session's first answer.                                              *)
DeskIInv ==
    /\ announced \in [DeskOrders -> Nat]
    /\ known \in BOOLEAN
    /\ \A o \in DeskOrders : /\ announced[o] <= 1
                             /\ announced[o] > 0 => known /\ o \in seen
    /\ Actionable(onDesk) \subseteq seen

LEMMA ShownKeeps ==
    ASSUME DeskIInv, NEW view, Shown(view)
    PROVE  DeskIInv'
  <1>1. /\ onDesk' = view /\ known' = TRUE
        /\ Actionable(view) \subseteq seen'
        /\ known => seen' = seen \cup Actionable(view)
        /\ announced' = [o \in DeskOrders |->
             IF known /\ o \in Actionable(view) \ seen THEN announced[o] + 1
                                                       ELSE announced[o]]
    BY DEF Shown, SeenSoFar, DeskIInv
  <1>2. announced' \in [DeskOrders -> Nat]
    BY <1>1 DEF DeskIInv
  <1>3. \A o \in DeskOrders : /\ announced'[o] <= 1
                              /\ announced'[o] > 0 => o \in seen'
    BY <1>1 DEF DeskIInv
  <1>4. Actionable(onDesk)' \subseteq seen'
    BY <1>1 DEF Actionable
  <1> QED BY <1>1, <1>2, <1>3, <1>4 DEF DeskIInv

(* A desk that shows nothing has nothing to announce.                       *)
LEMMA EmptyDeskIsQuiet == Actionable(EmptyDesk) = {}
  BY DEF Actionable, EmptyDesk

LEMMA FreshDesk ==
    ASSUME announced = [o \in DeskOrders |-> 0], known = FALSE,
           Actionable(onDesk) = {}
    PROVE  DeskIInv
  <1>1. announced \in [DeskOrders -> Nat]
    OBVIOUS
  <1>2. \A o \in DeskOrders : announced[o] = 0
    OBVIOUS
  <1>3. known \in BOOLEAN
    OBVIOUS
  <1>4. Actionable(onDesk) \subseteq seen
    OBVIOUS
  <1>5. \A o \in DeskOrders : announced[o] <= 1 /\ ~(announced[o] > 0)
    BY <1>2
  <1> QED BY <1>1, <1>3, <1>4, <1>5 DEF DeskIInv

LEMMA DeskNextKeeps ==
    ASSUME DeskIInv, [DeskNext]_deskVars
    PROVE  DeskIInv'
  <1>1. CASE UNCHANGED deskScreen
    BY <1>1 DEF deskScreen, DeskIInv, Actionable
  <1>2. CASE logout
    <2>1. /\ announced' = [o \in DeskOrders |-> 0] /\ known' = FALSE
          /\ Actionable(onDesk)' = Actionable(EmptyDesk)
      BY <1>2 DEF logout, Actionable
    <2>2. \A o \in DeskOrders : announced'[o] <= 1 /\ ~(announced'[o] > 0)
      BY <2>1
    <2>3. announced' \in [DeskOrders -> Nat] /\ known' \in BOOLEAN
      BY <2>1
    <2>4. Actionable(onDesk)' \subseteq seen'
      BY <2>1, EmptyDeskIsQuiet
    <2> QED BY <2>2, <2>3, <2>4 DEF DeskIInv
  <1>3. ASSUME NEW i \in DOMAIN loads, LoadArrives(i)
        PROVE  DeskIInv'
    BY <1>3, ShownKeeps DEF LoadArrives
  <1> QED BY <1>1, <1>2, <1>3
          DEF DeskNext, deskVars, Refresh, completeOperatorLogin,
              ServerAnswersLoad, LoadFails, advanceOrder, quoteOrder, DeskAsks,
              CustomersStep, ServerAnswersDeskCall, DeskCallEnds

(* However the answers overtake each other, fail or outlive the session: an *)
(* order is announced once in a session at most, and none waits unseen      *)
(* (OperationsApp.tsx:562-575).                                             *)
THEOREM OneAnnouncement == DeskSpec => []AnnouncedOnce
  <1>1. ASSUME DeskInit PROVE DeskIInv
    <2>1. /\ announced = [o \in DeskOrders |-> 0] /\ known = FALSE
          /\ Actionable(onDesk) = Actionable(EmptyDesk)
      BY <1>1 DEF DeskInit
    <2> QED BY <2>1, EmptyDeskIsQuiet, FreshDesk
  <1>2. DeskIInv /\ [DeskNext]_deskVars => DeskIInv'
    BY DeskNextKeeps
  <1>3. DeskIInv => AnnouncedOnce
    BY DEF DeskIInv, AnnouncedOnce
  <1> QED BY <1>1, <1>2, <1>3, PTL DEF DeskSpec

----------------------------------------------------------------------------
(* An order as the server may hold it: whatever is not to be quoted any     *)
(* more has a price.                                                        *)
OrderRow ==
    {o \in [rev : Nat,
            status : {"PENDING", "ACCEPTED", "PICKING_UP", "DELIVERING",
                      "COMPLETED", "CANCELLED"},
            pay : {"UNPAID", "PAID", "CLOSED", "REFUNDING", "REFUNDED"},
            quote : {"NONE", "PENDING", "QUOTED", "ACCEPTED", "REJECTED"},
            fee : Nat, arrived : BOOLEAN] :
       o.quote # "PENDING" => o.fee > 0}

(* The calls that are answered with an order.                               *)
Answered(call) == call.at = "answered" => call.answer \in OrderRow
Replies ==
    {r \in [at : {"none", "sent", "answered", "refused"},
            answer : OrderRow \cup {NoOrder}, accepted : BOOLEAN] : Answered(r)}

(* Only what the server has held is ever on its way to the page; polls go   *)
(* one at a time, and what one brings is no older than what was shown.      *)
PollFits(p) ==
    p.at = "answered" => /\ p.answer \in OrderRow
                         /\ lastPoll <= p.answer.rev
                         /\ p.answer.rev <= row.rev

DetailIInv ==
    /\ row \in OrderRow
    /\ shown = NoOrder \/ shown \in OrderRow
    /\ reply \in Replies
    /\ Answered(cancelCall)
    /\ lastPoll \in Nat /\ lastPoll <= row.rev
    /\ polls = <<>> \/ (orderSyncing /\ polls = <<polls[1]>>)
    /\ \A i \in DOMAIN polls : PollFits(polls[i])

(* The only element of a sequence, replaced or removed.                     *)
LEMMA OnlyOne ==
    ASSUME NEW s, s = <<s[1]>>, NEW i \in DOMAIN s, NEW x
    PROVE  i = 1 /\ [s EXCEPT ![i] = x] = <<x>> /\ RemoveAt(s, i) = <<>>
  <1>1. i = 1
    OBVIOUS
  <1>2. [s EXCEPT ![i] = x] = <<x>>
    BY <1>1
  <1>3. RemoveAt(s, i) = <<>>
    <2>1. Len(s) = 1
      OBVIOUS
    <2>2. RemoveAt(s, i) = SubSeq(s, 1, 0) \o SubSeq(s, 2, 1)
      BY <1>1, <2>1 DEF RemoveAt
    <2>3. SubSeq(s, 1, 0) = <<>> /\ SubSeq(s, 2, 1) = <<>>
      OBVIOUS
    <2> QED BY <2>2, <2>3
  <1> QED BY <1>1, <1>2, <1>3

LEMMA ChangesFit ==
    ASSUME row \in OrderRow, NEW o \in OrderRow, Changes(o)
    PROVE  row' \in OrderRow /\ row'.rev = row.rev + 1
  BY DEF Changes, OrderRow

(* Steps that leave the polls alone: the order may move on, and what the    *)
(* server has held may be shown or be on its way.                           *)
LEMMA OffPollKeeps ==
    ASSUME DetailIInv, UNCHANGED sync,
           row' = row \/ (row' \in OrderRow /\ row'.rev = row.rev + 1),
           shown' = shown \/ shown' \in OrderRow,
           reply' = reply \/ reply' \in Replies,
           cancelCall' = cancelCall \/ Answered(cancelCall')
    PROVE  DetailIInv' /\ lastPoll <= lastPoll'
  <1>1. /\ row.rev \in Nat /\ row' \in OrderRow /\ row'.rev \in Nat
        /\ row.rev <= row'.rev
    BY DEF DetailIInv, OrderRow
  <1>2. \A i \in DOMAIN polls : PollFits(polls[i])'
    BY <1>1 DEF DetailIInv, PollFits, sync, OrderRow
  <1>3. lastPoll <= row'.rev
    BY <1>1 DEF DetailIInv
  <1>4. Answered(cancelCall')
    BY DEF DetailIInv
  <1> QED BY <1>1, <1>2, <1>3, <1>4 DEF DetailIInv, sync

LEMMA SendPollKeeps ==
    ASSUME DetailIInv, MaySync, SendPoll, UNCHANGED <<row, shown, reply, cancelCall>>
    PROVE  DetailIInv' /\ lastPoll <= lastPoll'
  <1>1. polls' = <<Sent>> /\ orderSyncing' = TRUE /\ lastPoll' = lastPoll
    <2>1. polls = <<>>
      BY DEF DetailIInv, MaySync
    <2> QED BY <2>1 DEF SendPoll
  <1>2. \A i \in DOMAIN polls' : polls'[i].at = "sent"
    BY <1>1 DEF Sent
  <1>3. polls' = <<polls'[1]>>
    BY <1>1
  <1> QED BY <1>1, <1>2, <1>3 DEF DetailIInv, PollFits

LEMMA SyncOrderKeeps ==
    ASSUME DetailIInv, syncOrder, UNCHANGED <<row, shown, reply, cancelCall>>
    PROVE  DetailIInv' /\ lastPoll <= lastPoll'
  <1>1. CASE MaySync
    BY <1>1, SendPollKeeps DEF syncOrder
  <1>2. CASE ~MaySync
    BY <1>2, OffPollKeeps DEF syncOrder, sync, DetailIInv
  <1> QED BY <1>1, <1>2

(* The poll in flight is gone, and what it brought was no older.            *)
LEMMA PollEndsKeeps ==
    ASSUME DetailIInv, NEW i \in DOMAIN polls, polls' = RemoveAt(polls, i),
           UNCHANGED <<row, reply, cancelCall>>,
           shown' = shown \/ shown' \in OrderRow,
           lastPoll' \in Nat, lastPoll' <= row.rev
    PROVE  DetailIInv'
  <1>1. polls = <<polls[1]>>
    BY DEF DetailIInv
  <1>2. polls' = <<>>
    BY <1>1, OnlyOne
  <1> QED BY <1>2 DEF DetailIInv

LEMMA PollArrivesKeeps ==
    ASSUME DetailIInv, NEW i \in DOMAIN polls, PollArrives(i)
    PROVE  DetailIInv' /\ lastPoll <= lastPoll'
  <1>1. /\ polls[i].answer \in OrderRow /\ lastPoll <= polls[i].answer.rev
        /\ polls[i].answer.rev <= row.rev
    BY DEF PollArrives, DetailIInv, PollFits
  <1> QED BY <1>1, PollEndsKeeps DEF PollArrives, applyOrder, OrderRow

LEMMA ServerAnswersPollKeeps ==
    ASSUME DetailIInv, NEW i \in DOMAIN polls, ServerAnswersPoll(i)
    PROVE  DetailIInv'
  <1>1. polls = <<polls[1]>> /\ orderSyncing
    BY DEF DetailIInv
  <1> DEFINE p == [at |-> "answered", answer |-> row]
  <1>2. polls' = <<p>>
    BY <1>1, OnlyOne DEF ServerAnswersPoll
  <1>3. polls' = <<polls'[1]>> /\ \A j \in DOMAIN polls' : polls'[j] = p
    BY <1>2
  <1>4. PollFits(p)'
    BY DEF PollFits, DetailIInv, ServerAnswersPoll, OrderRow
  <1>5. UNCHANGED <<row, shown, orderSyncing, lastPoll, reply, cancelCall>>
    BY DEF ServerAnswersPoll, customer
  <1>6. \A j \in DOMAIN polls' : PollFits(polls[j])'
    BY <1>3, <1>5 DEF PollFits, DetailIInv, OrderRow
  <1> QED BY <1>1, <1>3, <1>5, <1>6 DEF DetailIInv

----------------------------------------------------------------------------
LEMMA ServerChangesKeep ==
    ASSUME DetailIInv, ServerChanges
    PROVE  DetailIInv' /\ lastPoll <= lastPoll'
  <1>1. row \in OrderRow
    BY DEF DetailIInv
  <1>2. row' = row \/ (row' \in OrderRow /\ row'.rev = row.rev + 1)
    <2>1. ASSUME NEW fee \in QuotedFees, MerchantQuotes(fee)
          PROVE  row' \in OrderRow /\ row'.rev = row.rev + 1
      <3>1. [row EXCEPT !.quote = "QUOTED", !.fee = fee] \in OrderRow
        <4>1. fee \in Nat /\ fee > 0
          BY DetailAssumption
        <4> QED BY <1>1, <4>1 DEF OrderRow
      <3> QED BY <1>1, <2>1, <3>1, ChangesFit DEF MerchantQuotes
    <2>2. CASE OrderMovesOn
      <3>1. /\ \A status \in {"ACCEPTED", "PICKING_UP", "DELIVERING", "COMPLETED"} :
                 [row EXCEPT !.status = status] \in OrderRow
            /\ [row EXCEPT !.arrived = TRUE] \in OrderRow
        BY <1>1 DEF OrderRow
      <3> QED BY <1>1, <2>2, <3>1, ChangesFit DEF OrderMovesOn
    <2>3. CASE OperatorCancels
      <3>1. [row EXCEPT !.status = "CANCELLED"] \in OrderRow
        BY <1>1 DEF OrderRow
      <3> QED BY <1>1, <2>3, <3>1, ChangesFit DEF OperatorCancels
    <2>4. CASE WechatNotifiesServer
      <3>1. \A pay \in {"PAID", "REFUNDED"} :
              [row EXCEPT !.pay = pay] \in OrderRow
        BY <1>1 DEF OrderRow
      <3> QED BY <1>1, <2>4, <3>1, ChangesFit DEF WechatNotifiesServer
    <2> QED BY <2>1, <2>2, <2>3, <2>4 DEF ServerChanges
  <1>3. UNCHANGED <<sync, shown, reply, cancelCall>>
    BY DEF ServerChanges, MerchantQuotes, OrderMovesOn, OperatorCancels,
           WechatNotifiesServer, customer
  <1> QED BY <1>2, <1>3, OffPollKeeps

LEMMA ServerAnswersReplyKeeps ==
    ASSUME DetailIInv, ServerAnswersReply
    PROVE  DetailIInv' /\ lastPoll <= lastPoll'
  <1>1. row \in OrderRow
    BY DEF DetailIInv
  <1>2. UNCHANGED <<sync, shown, cancelCall>>
    BY DEF ServerAnswersReply
  <1>3. CASE Answerable(row)
    <2>1. \A quote \in {"ACCEPTED", "REJECTED"} :
            row.quote = "QUOTED" => [row EXCEPT !.quote = quote] \in OrderRow
      BY <1>1 DEF OrderRow
    <2>2. row' \in OrderRow /\ row'.rev = row.rev + 1
      BY <1>1, <1>3, <2>1, ChangesFit DEF ServerAnswersReply, Answerable
    <2>3. reply' \in Replies
      BY <1>3, <2>2 DEF ServerAnswersReply, DetailIInv, Replies, Answered
    <2> QED BY <1>2, <2>2, <2>3, OffPollKeeps
  <1>4. CASE ~Answerable(row)
    <2>1. reply' \in Replies /\ row' = row
      BY <1>4 DEF ServerAnswersReply, DetailIInv, Replies, Answered
    <2> QED BY <1>2, <2>1, OffPollKeeps
  <1> QED BY <1>3, <1>4

LEMMA ServerAnswersCancelKeeps ==
    ASSUME DetailIInv, ServerAnswersCancel
    PROVE  DetailIInv' /\ lastPoll <= lastPoll'
  <1>1. row \in OrderRow
    BY DEF DetailIInv
  <1>2. UNCHANGED <<sync, shown, reply>>
    BY DEF ServerAnswersCancel
  <1>3. ASSUME NEW pay \in {"REFUNDED", "REFUNDING", "CLOSED"}, Cancelled(pay)
        PROVE  DetailIInv' /\ lastPoll <= lastPoll'
    <2>1. [row EXCEPT !.status = "CANCELLED", !.pay = pay] \in OrderRow
      BY <1>1 DEF OrderRow
    <2>2. row' \in OrderRow /\ row'.rev = row.rev + 1
      BY <1>1, <1>3, <2>1, ChangesFit DEF Cancelled
    <2>3. Answered(cancelCall')
      BY <1>3, <2>2 DEF Cancelled, Answered
    <2> QED BY <1>2, <2>2, <2>3, OffPollKeeps
  <1>4. CASE UNCHANGED row /\ Refused
    <2>1. Answered(cancelCall')
      BY <1>4 DEF Refused, Answered, DetailIInv
    <2> QED BY <1>2, <1>4, <2>1, OffPollKeeps
  <1>5. CASE UNCHANGED row /\ cancelCall' = [at |-> "answered", answer |-> row]
    <2>1. Answered(cancelCall')
      BY <1>1, <1>5 DEF Answered
    <2> QED BY <1>2, <1>5, <2>1, OffPollKeeps
  <1> QED BY <1>3, <1>4, <1>5 DEF ServerAnswersCancel

LEMMA DetailNextKeeps ==
    ASSUME DetailIInv, [DetailNext]_detailVars
    PROVE  DetailIInv' /\ lastPoll <= lastPoll'
  <1>0. lastPoll \in Nat
    BY DEF DetailIInv
  <1>1. CASE UNCHANGED <<row, shown, sync, reply, cancelCall>>
    BY <1>1, OffPollKeeps
  <1>2. CASE startOrderPolling \/ SyncAfterPayment
    BY <1>2, SyncOrderKeeps DEF startOrderPolling, SyncAfterPayment, customer
  <1>3. CASE PollTick \/ manualSync
    BY <1>3, SendPollKeeps DEF PollTick, manualSync, customer
  <1>4. ASSUME NEW i \in DOMAIN polls, ServerAnswersPoll(i)
        PROVE  DetailIInv' /\ lastPoll <= lastPoll'
    <2>1. UNCHANGED lastPoll
      BY <1>4 DEF ServerAnswersPoll
    <2> QED BY <1>0, <1>4, <2>1, ServerAnswersPollKeeps
  <1>5. ASSUME NEW i \in DOMAIN polls, PollFails(i)
        PROVE  DetailIInv' /\ lastPoll <= lastPoll'
    BY <1>0, <1>5, PollEndsKeeps DEF PollFails, DetailIInv
  <1>6. CASE ReplyEnds
    <2>1. reply' \in Replies
      BY <1>6 DEF ReplyEnds, Replies, Answered
    <2>2. shown' = shown \/ shown' \in OrderRow
      BY <1>6 DEF ReplyEnds, applyOrder, DetailIInv, Replies, Answered
    <2> QED BY <1>6, <2>1, <2>2, OffPollKeeps DEF ReplyEnds
  <1>7. CASE CancelEnds
    <2>1. Answered(cancelCall')
      BY <1>7 DEF CancelEnds, Answered, NoCall
    <2>2. shown' = shown \/ shown' \in OrderRow
      BY <1>7 DEF CancelEnds, applyOrder, DetailIInv, Answered
    <2> QED BY <1>7, <2>1, <2>2, OffPollKeeps DEF CancelEnds
  <1>8. CASE ServerAnswersReply \/ ServerAnswersCancel \/ ServerChanges
    BY <1>8, ServerAnswersReplyKeeps, ServerAnswersCancelKeeps,
       ServerChangesKeep
  <1>9. CASE CustomerTaps
    <2>1. reply' = reply \/ reply' \in Replies
      BY <1>9 DEF CustomerTaps, respondToQuote, payOrder, cancelOrder,
                  CancelConfirmed, Replies, Answered
    <2>2. cancelCall' = cancelCall \/ Answered(cancelCall')
      BY <1>9 DEF CustomerTaps, respondToQuote, payOrder, cancelOrder,
                  CancelConfirmed, NoCall, Sent, Answered
    <2>3. UNCHANGED <<row, shown, sync>>
      BY <1>9 DEF CustomerTaps, respondToQuote, payOrder, cancelOrder,
                  CancelConfirmed
    <2> QED BY <2>1, <2>2, <2>3, OffPollKeeps
  <1>10. CASE onShow
    <2>1. shown' = shown \/ shown' \in OrderRow
      BY <1>10 DEF onShow, applyOrder, DetailIInv
    <2> QED BY <1>10, <2>1, OffPollKeeps DEF onShow, customer
  <1> QED BY <1>1, <1>2, <1>3, <1>4, <1>5, <1>6, <1>7, <1>8, <1>9, <1>10,
             PollArrivesKeeps
          DEF DetailNext, detailVars, customer, onHide,
              ServerAnswersPrepay, PrepayArrives, PaymentEnds,
              CustomerPaysInWallet

(* The customer's order page keeps DetailIInv: the order it shows is one    *)
(* the server has had, no newer than the server's and no older than the     *)
(* last poll's answer (order-detail.js:199-206).                            *)
THEOREM DetailInvariance == DetailSpec => []DetailIInv
  <1>1. ASSUME DetailInit PROVE DetailIInv
    <2>1. Opened \subseteq OrderRow
      <3>1. \A fee \in QuotedFees : fee \in Nat /\ fee > 0
        BY DetailAssumption
      <3>2. \A fee \in QuotedFees :
              /\ [NoOrder EXCEPT !.status = "PENDING", !.pay = "UNPAID",
                                 !.quote = "NONE", !.fee = fee] \in OrderRow
              /\ [NoOrder EXCEPT !.status = "PICKING_UP", !.pay = "PAID",
                                 !.quote = "NONE", !.fee = fee] \in OrderRow
        BY <3>1 DEF NoOrder, OrderRow
      <3>3. [NoOrder EXCEPT !.status = "PENDING", !.pay = "UNPAID",
                            !.quote = "PENDING"] \in OrderRow
        BY DEF NoOrder, OrderRow
      <3> QED BY <3>2, <3>3 DEF Opened
    <2>2. row \in OrderRow /\ row.rev \in Nat
      BY <1>1, <2>1 DEF DetailInit, OrderRow
    <2>3. reply \in Replies /\ Answered(cancelCall)
      BY <1>1 DEF DetailInit, Replies, Answered, NoCall
    <2>4. shown = NoOrder \/ shown \in OrderRow
      BY <1>1, <2>2 DEF DetailInit
    <2>5. lastPoll = 0 /\ polls = <<>>
      BY <1>1 DEF DetailInit
    <2> QED BY <2>2, <2>3, <2>4, <2>5 DEF DetailIInv
  <1>2. DetailIInv /\ [DetailNext]_detailVars => DetailIInv'
    BY DetailNextKeeps
  <1> QED BY <1>1, <1>2, PTL DEF DetailSpec

(* Every answer to a poll is at least as new as the one before it           *)
(* (order-detail.js:199).                                                   *)
THEOREM PollsGoForward == DetailSpec => PollsNeverGoBack
  <1>1. DetailIInv /\ [DetailNext]_detailVars => [lastPoll' >= lastPoll]_detailVars
    BY DetailNextKeeps
  <1> QED BY <1>1, DetailInvariance, PTL DEF DetailSpec, PollsNeverGoBack

(* Whatever order is on the screen, stale or not: the page offers what the  *)
(* server would do with it, and a price stands where it offers to pay       *)
(* (order-detail.js:41-44, 263-266).                                        *)
THEOREM PageOffersAreHonoured == DetailSpec => []OffersAreHonoured
  <1>1. ASSUME shown \in OrderRow
        PROVE  OffersAreHonoured
    <2>1. /\ shown.status \in {"PENDING", "ACCEPTED", "PICKING_UP", "DELIVERING",
                              "COMPLETED", "CANCELLED"}
          /\ shown.quote \in {"NONE", "PENDING", "QUOTED", "ACCEPTED",
                             "REJECTED"}
          /\ shown.quote # "PENDING" => shown.fee > 0
      BY <1>1 DEF OrderRow
    <2> USE <2>1 DEF over, manual
    <2>2. shouldPay(shown) => Payable(shown) /\ shown.fee > 0
      BY DEF shouldPay, Payable
    <2>3. /\ (displayStatus(shown) = "AWAITING_PAYMENT")
                <=> (shouldPay(shown) /\ ~over(shown))
          /\ (displayStatus(shown) = "AWAITING_QUOTE_CONFIRMATION")
                <=> needsQuoteConfirmation(shown)
      <3>1. CASE over(shown)
        BY <3>1 DEF displayStatus, needsQuoteConfirmation
      <3>2. CASE ~over(shown)
        <4>1. displayStatus(shown) = getBusinessStatus(shown)
          BY <3>2 DEF displayStatus
        <4>2. CASE shown.quote \in {"PENDING", "REJECTED"}
          <5>1. getBusinessStatus(shown) = "AWAITING_QUOTE"
            BY <3>2, <4>2 DEF getBusinessStatus
          <5> QED BY <3>2, <4>1, <4>2, <5>1 DEF shouldPay, needsQuoteConfirmation
        <4>3. CASE shown.quote = "QUOTED"
          <5>1. getBusinessStatus(shown) = "AWAITING_QUOTE_CONFIRMATION"
            BY <3>2, <4>3 DEF getBusinessStatus
          <5> QED BY <3>2, <4>1, <4>3, <5>1 DEF shouldPay, needsQuoteConfirmation
        <4>4. CASE shown.quote \in {"NONE", "ACCEPTED"} /\ shown.pay # "PAID"
          <5>1. getBusinessStatus(shown) = "AWAITING_PAYMENT"
            BY <3>2, <4>4 DEF getBusinessStatus
          <5> QED BY <3>2, <4>1, <4>4, <5>1 DEF shouldPay, needsQuoteConfirmation
        <4>5. CASE shown.quote \in {"NONE", "ACCEPTED"} /\ shown.pay = "PAID"
          <5>1. getBusinessStatus(shown) \in
                  {"AWAITING_MERCHANT_ACCEPTANCE", "AWAITING_RIDER_ACCEPTANCE",
                   "ARRIVED", shown.status}
            BY <3>2, <4>5 DEF getBusinessStatus
          <5> QED BY <4>1, <4>5, <5>1 DEF shouldPay, needsQuoteConfirmation
        <4> QED BY <4>2, <4>3, <4>4, <4>5
      <3> QED BY <3>1, <3>2
    <2>4. /\ (displayStatus(shown) = "AWAITING_PAYMENT")
                = (shouldPay(shown) /\ ~over(shown))
          /\ (displayStatus(shown) = "AWAITING_QUOTE_CONFIRMATION")
                = needsQuoteConfirmation(shown)
      BY <2>3 DEF needsQuoteConfirmation
    <2>5. needsQuoteConfirmation(shown) => Answerable(shown)
      BY DEF needsQuoteConfirmation, Answerable
    <2>6. canCancel(shown) =>
            /\ Cancellable(shown) = ~requiresRefund(shown)
            /\ ~requiresRefund(shown)
                 => ((shown.pay = "PAID") = canAutoRefund(shown))
      BY DEF canCancel, Cancellable, requiresRefund, canAutoRefund
    <2> QED BY <2>2, <2>4, <2>5, <2>6 DEF OffersAreHonoured
  <1>2. DetailIInv => OffersAreHonoured
    BY <1>1 DEF DetailIInv, OffersAreHonoured
  <1> QED BY <1>2, DetailInvariance, PTL
=============================================================================
