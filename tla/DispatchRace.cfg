CONSTANTS
  Orders = {o1}
  ManualOrders = {}
  Riders = {r1, r2}
  Keys = {k1}
  Workers = {w1, w2}
  Traffic = {"updateStatus", "cancel", "createPrepay",
             "handleWechatNotification", "claim", "assign",
             "riderUpdateStatus"}
  TradeNos = {t1}
  RefundNos = {n1}
  Fees = {1}
  PaymentMode = "wechat"
  RiderMax = 1
  PlatformMax = 1
  None = None
  Serves <- MCServes
SPECIFICATION Spec
SYMMETRY Sym
INVARIANTS
  TakenOnce
  ClaimIsRemembered
  IInv
PROPERTIES
  ContractSpec
