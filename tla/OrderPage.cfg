SPECIFICATION PageSpec
CONSTANTS
    Services <- MCServices
    Routes <- MCRoutes
    Places <- MCPlaces
    Located <- MCPlaces
    PlacesOf <- MCPlacesOf
    Distance <- MCDistance
    Road <- MCRoad
    Straight <- MCStraight
    FloatAbove <- MCFloatAbove
    FloatProduct = {}
    WithPoint <- MCPlaces
    WeatherMock = FALSE
    WeatherOverride = "unset"
    MapKey = FALSE
    Skies <- MCSkies
    ParcelServiceEnabled = TRUE
    DefaultPickup = "door"
    DefaultDropoff = "stop"
    FudingStop = "stop"
    Payloads <- MCPayloads
    Edits = {}
    Wanted <- MCWanted
    Hours = {"day"}
    Traffic = {"publish"}
    Workers = {w1}
    Quotes = {q1}
    MaxBudget = 3
    MaxCalls = 2
    Drafts <- MCDrafts
    None = None
INVARIANTS ChargedAsAgreed EstimateIsServerPrice RouteIsOfTheseEnds
CHECK_DEADLOCK FALSE
