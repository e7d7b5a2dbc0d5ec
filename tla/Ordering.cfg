SPECIFICATION MCSpec
CONSTANTS
    Services <- MCServices
    Routes <- MCRoutes
    Places <- MCPlaces
    Located <- MCPlaces
    PlacesOf <- MCPlacesOf
    Distance <- MCDistance
    FloatAbove <- MCFloatAbove
    FloatProduct <- MCFloatProduct
    Payloads <- MCPayloads
    Edits <- MCEdits
    Wanted <- MCWanted
    Hours = {"day", "night"}
    Traffic = {"saveDraft", "publish", "quote", "create", "quoteCarpool", "quoteHandling", "updateService", "updatePricing", "restart"}
    Workers = {w1, w2}
    Quotes = {q1}
    MaxBudget = 4
    Pages = {p1, p2}
    MaxChanges = 2
    Calls = {k1, k2}
    NoPage = NoPage
    None = None
SYMMETRY Sym
INVARIANTS TypeOK QuoteUsedOnce LiveRulesAreLastRevision QuotedPriceWasPublished DirectFeeIsAQuote
PROPERTIES ExpiredQuoteBuysNothing RevisionReplacesItsBase OnlyOvertakenWorkTakesBack
CHECK_DEADLOCK FALSE
