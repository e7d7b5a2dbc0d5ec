CONSTANTS
  Orders = {o1}
  ManualOrders = {o1}
  Riders = {r1}
  Keys = {k1}
  Workers = {w1}
  Traffic = {"updateStatus", "cancel", "hide", "quote", "respondToQuote",
             "createPrepay", "confirmMockPayment",
             "handleWechatNotification", "handleWechatRefundNotification",
             "refund", "claim", "assign", "riderUpdateStatus", "setOnline",
             "changeStatus"}
  TradeNos = {t1, t2}
  RefundNos = {n1}
  Fees = {1, 2}
  PaymentMode = "wechat"
  RiderMax = 1
  PlatformMax = 1
  None = None
  Serves <- MCServes
SPECIFICATION FairSpec
INVARIANTS
  TypeOK
  HiddenIsOver
  AcceptedIsDispatchable
  PaidPriceIsOrderPrice
  CustomerCancelIsSettled
  OnlineIsActive
  InactiveIsFree
PROPERTIES
  StatusMovesForward
  AgreedPriceStands
  CaptureIsBooked
  RefundingEnds
