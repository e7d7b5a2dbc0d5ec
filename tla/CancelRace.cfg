CONSTANTS
  Orders = {o1}
  ManualOrders = {}
  Riders = {}
  Keys = {k1}
  Workers = {w1, w2}
  Traffic = {"updateStatus", "cancel", "createPrepay",
             "handleWechatNotification"}
  TradeNos = {t1}
  RefundNos = {n1}
  Fees = {1}
  PaymentMode = "wechat"
  RiderMax = 1
  PlatformMax = 1
  None = None
  Serves <- MCServes
SPECIFICATION Spec
SYMMETRY Sym
INVARIANTS
  CustomerCancelIsSettled
CHECK_DEADLOCK FALSE
