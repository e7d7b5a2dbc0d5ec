---------------------------- MODULE PricingRules ----------------------------
(***************************************************************************)
(* How the server turns a pricing rule into a price: what publishing keeps *)
(* of a rule an operator typed, the price ConfigCenterService.quote gives, *)
(* and the price OrdersService.create charges when an order arrives        *)
(* without a quote.  Money is in fen, distances in metres.                 *)
(***************************************************************************)
EXTENDS Integers

CONSTANTS
    FloatAbove,     \* <<metres, metres>> whose difference, as kilometres in
                    \* doubles, lies above the whole number it should be
    FloatProduct    \* metres that come out larger when the kilometres they
                    \* are in doubles are turned into metres again

(* Only a difference of whole kilometres can be lifted over one; whole      *)
(* kilometres are exact in doubles.                                         *)
ASSUME FloatAssumption ==
    /\ FloatAbove \subseteq Nat \X Nat
    /\ \A pair \in FloatAbove :
         /\ pair[1] > pair[2]
         /\ (pair[1] - pair[2]) % 1000 = 0
         /\ pair[2] % 1000 # 0
    /\ FloatProduct \subseteq Nat

DISTANCE_SERVICE_IDS == {"cargo_haul", "urgent_delivery", "pickup",
                         "buy_for_me", "pedicab_delivery"}
WEATHER_SERVICE_IDS  == {"urgent_delivery", "pickup", "buy_for_me"}
SERVICE_IDS == DISTANCE_SERVICE_IDS
                 \cup {"carpool_ride", "send_parcel", "moving_handling"}

vehicleType(task) ==
    CASE task \in {"carpool_ride", "send_parcel"}    -> "VAN"
      [] task \in {"cargo_haul", "pedicab_delivery"} -> "ETRIKE"
      [] task = "moving_handling"                    -> "MANUAL"
      [] OTHER                                       -> "EBIKE"

(* The built-in prices, used for a service whose rule is missing or off.    *)
VEHICLE_PRICING(type) ==
    CASE type = "EBIKE"  -> [base |-> 1000, perKm |-> 160]
      [] type = "ETRIKE" -> [base |-> 2800, perKm |-> 300]
      [] type = "VAN"    -> [base |-> 3500, perKm |-> 320]
      [] type = "MANUAL" -> [base |-> 4800, perKm |-> 0]

AtLeast(low, x) == IF x < low THEN low ELSE x

(* Slips: what a change of the arithmetic could get wrong.                  *)
ExcessKmSigned(meters, included) == (meters - included + 999) \div 1000

estimateRoundedDown(task, input, meters, badWeather, product) ==
      input.base
    + (AtLeast(0, meters - input.included) \div 1000) * input.perKm
    + (IF badWeather THEN input.weather ELSE 0)
    + (IF task = "buy_for_me" THEN product ELSE 0)

(* Kilometres beyond the included distance, each one begun counting whole:  *)
(* quote() subtracts metres, the two estimates kilometres in doubles.       *)
ExcessKm(meters, included) == (AtLeast(0, meters - included) + 999) \div 1000

FloatExcessKm(meters, included) ==
    ExcessKm(meters, included)
      + (IF <<meters, included>> \in FloatAbove THEN 1 ELSE 0)

----------------------------------------------------------------------------
(* The price matrix of parcels: one entry per route and kind of parcel.  A  *)
(* price of one fen means "not configured yet".                             *)

PARCEL_DEFAULT_PRICE_FEN == 1
PARCEL_PRICE_OPTIONS == {"NORMAL_10", "NORMAL_30", "PET"}

ParcelOption(pet, weight) ==
    IF pet THEN "PET" ELSE IF weight <= 10 THEN "NORMAL_10" ELSE "NORMAL_30"

(* Entries the operator left out are on, at the placeholder price.          *)
normalizeParcelPricing(source, routes) ==
    [r \in routes |-> [o \in PARCEL_PRICE_OPTIONS |->
        IF r \in DOMAIN source
        THEN [price   |-> AtLeast(PARCEL_DEFAULT_PRICE_FEN, source[r][o].price),
              enabled |-> source[r][o].enabled]
        ELSE [price |-> PARCEL_DEFAULT_PRICE_FEN, enabled |-> TRUE]]]

Configured(price) == price > PARCEL_DEFAULT_PRICE_FEN

----------------------------------------------------------------------------
(* What publishing stores of a rule: the start price absorbs the surcharge, *)
(* labour has no distance, and only the services exposed to the weather     *)
(* keep a weather surcharge.                                                *)
PublishedRule(s, rule, parcelRoutes, version) ==
    [mode     |-> rule.mode,
     base     |-> rule.base + rule.surcharge,
     included |-> IF s = "moving_handling" THEN 0 ELSE rule.included,
     perKm    |-> IF s = "moving_handling" THEN 0 ELSE rule.perKm,
     max      |-> AtLeast(0, rule.max),
     weather  |-> IF s \in WEATHER_SERVICE_IDS THEN rule.weather ELSE 0,
     parcel   |-> IF s = "send_parcel"
                  THEN normalizeParcelPricing(rule.parcel, parcelRoutes)
                  ELSE <<>>,
     enabled  |-> rule.enabled,
     version  |-> version]

(* The price of a distance service, as quote() computes it.                 *)
QuoteTotal(task, rule, meters, badWeather, product) ==
      rule.base
    + ExcessKm(meters, rule.included) * rule.perKm
    + (IF badWeather /\ task \in WEATHER_SERVICE_IDS THEN rule.weather ELSE 0)
    + (IF task = "buy_for_me" THEN AtLeast(0, product) ELSE 0)

(* What create() feeds the estimate with.  The pedicab's prices are written *)
(* in the code and win over its rule.                                       *)
serverPricingInput(task, rule, ruleFound) ==
    LET builtin == VEHICLE_PRICING(vehicleType(task))
        pedicab == task = "pedicab_delivery"
    IN [mode     |-> IF task \in WEATHER_SERVICE_IDS THEN "distance_weather"
                     ELSE IF ruleFound THEN rule.mode ELSE "distance",
        base     |-> IF pedicab THEN 1500
                     ELSE IF ruleFound THEN rule.base ELSE builtin.base,
        perKm    |-> IF pedicab THEN 200
                     ELSE IF ruleFound THEN rule.perKm ELSE builtin.perKm,
        included |-> IF ruleFound THEN rule.included ELSE 4000,
        weather  |-> IF task \notin WEATHER_SERVICE_IDS THEN 0
                     ELSE IF ruleFound THEN rule.weather ELSE 500]

(* PricingService.estimate for the inputs create() passes: a parcel has a   *)
(* placeholder price, a manual service only its start price.                *)
estimate(task, input, meters, badWeather, product) ==
    LET manual == input.mode = "manual_quote"
        distanceFee == IF manual THEN 0
                       ELSE FloatExcessKm(meters, input.included) * input.perKm
        weatherFee  == IF /\ badWeather
                          /\ input.mode = "distance_weather"
                          /\ vehicleType(task) = "EBIKE"
                       THEN input.weather ELSE 0
        productFee  == IF task = "buy_for_me" THEN product ELSE 0
    IN IF input.mode = "parcel_category"
       THEN PARCEL_DEFAULT_PRICE_FEN + productFee
       ELSE input.base + distanceFee + weatherFee + productFee
=============================================================================
