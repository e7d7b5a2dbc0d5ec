CONSTANTS
  Orders = {o1, o2}
  ManualOrders = {}
  Riders = {r1}
  Keys = {k1}
  Workers = {w1, w2}
  Traffic = {"updateStatus", "createPrepay", "confirmMockPayment", "claim",
             "assign"}
  TradeNos = {t1, t2}
  RefundNos = {n1}
  Fees = {1}
  PaymentMode = "mock"
  RiderMax = 1
  PlatformMax = 1
  None = None
  Serves <- MCServes
SPECIFICATION Spec
SYMMETRY Sym
INVARIANTS
  WithinCapacity
CHECK_DEADLOCK FALSE
