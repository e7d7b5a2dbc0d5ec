CONSTANTS
  Orders = {o1, o2}
  ManualOrders = {}
  Riders = {r1}
  Keys = {k1}
  Workers = {w1}
  Traffic = {"updateStatus", "cancel", "createPrepay",
             "confirmMockPayment", "refund", "claim", "assign",
             "riderUpdateStatus", "setOnline", "changeStatus"}
  TradeNos = {t1, t2}
  RefundNos = {n1}
  Fees = {1}
  PaymentMode = "mock"
  RiderMax = 1
  PlatformMax = 0
  None = None
  Serves <- MCServes
SPECIFICATION Spec
SYMMETRY Sym
INVARIANTS
  WithinCapacity
