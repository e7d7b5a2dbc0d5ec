------------------------------ MODULE OrderForm ------------------------------
(***************************************************************************)
(* The draft of an order in the mini program (app.js: globalData.          *)
(* draftOrder), which the home page, the order page and the address page   *)
(* edit in place: what a choice of service and a published configuration   *)
(* make of it, and the price the page shows for it before the server is    *)
(* asked.  Operators only; OrderCreatePage has the pages' actions.         *)
(*                                                                         *)
(* A draft is [task, carpool, line, lines, district, direction,            *)
(* passengers, pickup, dropoff, weight, pet, budget, km, stray, bad,       *)
(* quoteId, mode, base, perKm, included, weather, parcel, remote].          *)
(***************************************************************************)
EXTENDS PriceQuotes, MapsAndWeather

CONSTANTS
    ParcelServiceEnabled,   \* runtime.js: PARCEL_SERVICE_ENABLED
    DefaultPickup,          \* getDefaultOrderAddresses of app.js
    DefaultDropoff,
    FudingStop              \* the fixed stop of shared rides

DraftTyped(f) ==
    /\ DOMAIN f = {"task", "carpool", "line", "lines", "district", "direction",
                   "passengers", "pickup", "dropoff", "weight", "pet", "budget",
                   "km", "stray", "bad", "quoteId", "mode", "base", "perKm",
                   "included", "weather", "parcel", "remote"}
    /\ f.task \in Services \ {"carpool_ride"}
    /\ f.carpool \in BOOLEAN /\ f.pet \in BOOLEAN
    /\ f.direction \in {"OUTBOUND", "RETURN"} /\ f.passengers \in 1..6
    /\ f.pickup \in Places \cup {None} /\ f.dropoff \in Places \cup {None}
    /\ f.weight \in Nat /\ f.budget \in Nat /\ f.km \in Nat
    /\ f.line # None => f.line.id \in Routes
    /\ f.lines # <<>> => DOMAIN f.lines # {} /\ f.task = "send_parcel"
    /\ \A r \in DOMAIN f.lines : f.lines[r].id \in Routes

----------------------------------------------------------------------------
(* The services as the mini program knows them before any answer.           *)

BuiltinPrice(base, perKm, weather) ==
    [base |-> base, perKm |-> perKm, weather |-> weather,
     included |-> IF perKm = 0 THEN 0 ELSE 4000]

ALL_TASKS ==
    [send_parcel      |-> BuiltinPrice(0, 0, 0),
     cargo_haul       |-> BuiltinPrice(3300, 300, 0),
     urgent_delivery  |-> BuiltinPrice(1300, 160, 500),
     pickup           |-> BuiltinPrice(1000, 160, 500),
     buy_for_me       |-> BuiltinPrice(1200, 160, 500),
     moving_handling  |-> BuiltinPrice(0, 0, 0),
     pedicab_delivery |-> BuiltinPrice(1500, 200, 0)]

TaskMode(t) ==
    CASE t = "send_parcel"          -> "parcel_category"
      [] t = "moving_handling"      -> "manual_quote"
      [] t \in WEATHER_SERVICE_IDS  -> "distance_weather"
      [] OTHER                      -> "distance"

(* Each service has one vehicle: its own price, and the percentage of a     *)
(* line's price that the page shows for it.                                 *)
VEHICLES(t) ==
    CASE t = "send_parcel"      -> [base |-> 3500, perKm |-> 320, line |-> 100]
      [] t = "cargo_haul"       -> [base |-> 2800, perKm |-> 300, line |-> 85]
      [] t = "pedicab_delivery" -> [base |-> 1500, perKm |-> 200, line |-> 65]
      [] t = "moving_handling"  -> [base |-> 3800, perKm |-> 0, line |-> 70]
      [] OTHER                  -> [base |-> 1000, perKm |-> 160, line |-> 55]

carpoolLines ==
    [cangnan |-> 4000, wenzhou |-> 15000, fuzhou |-> 0]

BuiltinLines(t) ==
    IF t = "send_parcel" THEN {"wenzhou_parcel", "fuzhou_parcel"} ELSE {}

isRouteTask(t)   == t = "send_parcel"
isTaskEnabled(t) == t = "send_parcel" => ParcelServiceEnabled
isCarpoolMode(f) == f.task = "send_parcel" /\ f.carpool

(* What the home page offers: everything before the first answer or when    *)
(* the answer lists nothing.  The first one offered is the default; the     *)
(* operators choose the order.                                              *)
EnabledTasks == {t \in Services \ {"carpool_ride"} : isTaskEnabled(t)}

ListsServices(c) == c # None /\ c.services # {}
visibleTasks(c) ==
    IF ListsServices(c) THEN EnabledTasks \cap c.services ELSE EnabledTasks

firstEnabledTaskId == IF ParcelServiceEnabled THEN "send_parcel" ELSE "cargo_haul"
defaultTaskIds(c) ==
    IF ListsServices(c) /\ visibleTasks(c) # {} THEN visibleTasks(c)
    ELSE {firstEnabledTaskId}

(* A vehicle brings its own price when the service has none, and its table  *)
(* of prices no longer says where they come from.                           *)
applyVehicleToDraft(f) ==
    LET v == VEHICLES(f.task) IN
    [f EXCEPT !.remote   = FALSE,
              !.included = IF @ = 0 THEN 4000 ELSE @,
              !.base     = IF f.base > 0 THEN @ ELSE v.base,
              !.perKm    = IF f.base > 0 THEN @ ELSE v.perKm]

buildDraftService(f, t) ==
    LET p == ALL_TASKS[t] IN
    [f EXCEPT !.task = t, !.mode = TaskMode(t), !.line = None,
              !.lines = <<>>, !.parcel = <<>>, !.bad = FALSE,
              !.base = p.base, !.perKm = p.perKm, !.included = p.included,
              !.weather = p.weather, !.remote = FALSE]

(* What a published rule and its routes do to the draft.  A chosen line     *)
(* that the configuration no longer lists is dropped.                       *)
RemoteLines(c, t) ==
    {r \in DOMAIN c.routes :
       /\ c.routes[r].service = t
       /\ r \in DOMAIN c.cities => /\ c.cities[r].enabled
                                   /\ "send_parcel" \in c.cities[r].services}

Line(r, unit, perPerson) == [id |-> r, unit |-> unit, perPerson |-> perPerson]

ListedLines(c, t) ==
    [r \in RemoteLines(c, t) |->
       Line(r, c.routes[r].unit, c.routes[r].perPerson)]

WithRule(f, c) ==
    LET r == c.rules[f.task]
        labour == f.task = "moving_handling" IN
    [f EXCEPT !.mode     = IF labour THEN "manual_quote" ELSE r.mode,
              !.parcel   = IF f.task = "send_parcel" THEN r.parcel ELSE @,
              !.base     = r.base,
              !.perKm    = IF labour THEN 0 ELSE r.perKm,
              !.included = IF labour THEN 0 ELSE r.included,
              !.weather  = r.weather,
              !.remote   = TRUE]

WithLines(f, c) ==
    LET lines == ListedLines(c, f.task)
        kept  == f.line # None /\ f.line.id \in DOMAIN lines
    IN [f EXCEPT !.lines = lines,
                 !.line  = IF kept THEN lines[f.line.id]
                           ELSE IF isRouteTask(f.task) \/ lines = <<>> THEN None
                           ELSE lines[CHOOSE r \in DOMAIN lines : TRUE]]

applyRemoteConfigToDraft(f, c) ==
    IF c = None \/ f.task \notin DOMAIN c.rules THEN f
    ELSE IF f.task \in c.services THEN WithLines(WithRule(f, c), c)
    ELSE WithRule(f, c)

----------------------------------------------------------------------------
(* The estimate on the page.                                                *)

inferPricingMode(f) == IF isCarpoolMode(f) THEN "fixed_line_ride" ELSE f.mode

getRouteDistance(f) ==
    IF f.task = "moving_handling" THEN 0
    ELSE IF f.dropoff = None \/ f.pickup = None THEN 2600
    ELSE IF f.km > 0 THEN f.km
    ELSE getAddressDistanceKm(f.pickup, f.dropoff)

getPricingRule(f) ==
    LET own == f.base > 0 IN
    [included |-> IF own /\ f.included > 0 THEN f.included ELSE 4000,
     base     |-> IF own THEN f.base ELSE 1000,
     perKm    |-> IF own THEN f.perKm ELSE 160,
     weather  |-> IF f.task \in WEATHER_SERVICE_IDS THEN f.weather ELSE 0]

getParcelPriceFen(f) ==
    LET option == IF f.pet THEN "PET"
                  ELSE IF f.weight <= 10 THEN "NORMAL_10" ELSE "NORMAL_30"
    IN IF /\ f.line # None
          /\ f.line.id \in DOMAIN f.parcel
          /\ f.parcel[f.line.id][option].enabled
       THEN AtLeast(1, f.parcel[f.line.id][option].price) ELSE 1

(* toFixed(1): a tenth of a yuan is ten fen.  Five fen may go either way in *)
(* doubles; here they go up.                                                *)
formatMoney(fen) == ((fen + 5) \div 10) * 10

(* Slips: a short way is cheaper than the start price; a kilometre begun is *)
(* not charged.                                                             *)
DistanceEstimateDown(f, r) ==
    r.base + (AtLeast(0, getRouteDistance(f) - r.included) \div 1000) * r.perKm
           + (IF f.bad THEN r.weather ELSE 0)

DistanceEstimate(f, r) ==
    r.base + FloatExcessKm(getRouteDistance(f), r.included) * r.perKm
           + (IF f.bad THEN r.weather ELSE 0)

LineEstimate(f, mode, r) ==
    LET unit == IF f.line = None THEN r.base ELSE f.line.unit
        perPerson == f.line # None /\ f.line.perPerson
    IN ((unit * VEHICLES(f.task).line) \div 100)
         * (IF mode = "fixed_line_ride" \/ perPerson THEN f.passengers ELSE 1)

estimateFee(f) ==
    LET mode    == inferPricingMode(f)
        r       == getPricingRule(f)
        product == IF f.task = "buy_for_me" THEN f.budget ELSE 0
        parcel  == ~isCarpoolMode(f)
                     /\ (f.task = "send_parcel" \/ mode = "parcel_category")
        fixed   == mode \in {"fixed_line_parcel", "fixed_line_ride"}
                     \/ f.line # None
        unpriced == f.line # None /\ f.line.unit <= 100
        Priced(pending, fen) ==
            [pending |-> pending, total |-> formatMoney(fen + product)]
    IN IF f.task = "moving_handling" THEN [pending |-> FALSE, total |-> 0]
       ELSE IF parcel
       THEN Priced(getParcelPriceFen(f) <= 1, getParcelPriceFen(f))
       ELSE IF fixed
       THEN Priced(unpriced, IF unpriced THEN 1 ELSE LineEstimate(f, mode, r))
       ELSE IF mode = "handling_fixed"
       THEN Priced(FALSE, IF f.base > 0 THEN f.base ELSE 4800)
       ELSE Priced(FALSE, DistanceEstimate(f, r))
=============================================================================
