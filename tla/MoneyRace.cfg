CONSTANTS
  Orders = {o1}
  ManualOrders = {}
  Riders = {}
  Keys = {k1}
  Workers = {w1, w2}
  Traffic = {"updateStatus", "cancel", "hide", "createPrepay",
             "handleWechatNotification", "handleWechatRefundNotification",
             "refund"}
  TradeNos = {t1, t2}
  RefundNos = {n1, n2}
  Fees = {1}
  PaymentMode = "wechat"
  RiderMax = 1
  PlatformMax = 1
  None = None
  Serves <- MCServes
SPECIFICATION Spec
SYMMETRY Sym
INVARIANTS
  ProgressIsPaid
  RefundsAreRecorded
  IInv
PROPERTIES
  ContractSpec
