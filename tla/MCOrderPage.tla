----------------------------- MODULE MCOrderPage -----------------------------
(* OrderCreatePage on small sets: a shared-ride line and a parcel line, two  *)
(* distance services, labour; the published prices differ from those the     *)
(* mini program is built with.                                               *)
EXTENDS OrderCreatePage, TLC

MCServices == {"send_parcel", "carpool_ride", "cargo_haul", "buy_for_me",
               "moving_handling"}
MCRoutes   == {"wenzhou", "wenzhou_parcel"}
MCPlaces   == {"door", "stop", "city"}
MCPlacesOf == [r \in MCRoutes |-> {"city"}]
MCRoad     == [way \in DISTANCE_MODES \X MCPlaces \X MCPlaces |->
                 CASE way[2] = way[3]                       -> 40
                   [] way = <<"driving", "door", "city">>   -> 7240
                   [] way = <<"bicycling", "door", "city">> -> 9340
                   [] way[1] = "driving" /\ way[2] # way[3]
                        /\ <<way[2], way[3]>> # <<"door", "city">> -> 4360
                   [] OTHER                                 -> 4560]
MCStraight == [pair \in MCPlaces \X MCPlaces |->
                 IF pair[1] = pair[2] THEN 0 ELSE 3500]
MCDistance == [pair \in MCPlaces \X MCPlaces |->
                 roundDistance(MCRoad[<<"driving", pair[1], pair[2]>>])]

(* 9.3 - 3.3 is 6.000000000000001 in doubles.  No other distance of this     *)
(* instance comes out above the whole number it should be.                   *)
MCFloatAbove == {<<9300, 3300>>}

MCSkies ==
    {[now |-> NoReading, alarms |-> FALSE,
      hours |-> {NoReading, [NoReading EXCEPT !.windScale = 7]},
      coming |-> <<[NoReading EXCEPT !.code = 3], [NoReading EXCEPT !.code = 65]>>],
     [now |-> NoReading, alarms |-> FALSE, hours |-> {NoReading},
      coming |-> <<[NoReading EXCEPT !.code = 1, !.rain = 2]>>]}

Typed(mode, base, included, perKm) ==
    [mode |-> mode, base |-> base, surcharge |-> 100, included |-> included,
     perKm |-> perKm, max |-> 10000, weather |-> 300, enabled |-> TRUE,
     parcel |-> [r \in {"wenzhou_parcel"} |-> [o \in PARCEL_PRICE_OPTIONS |->
                   [price |-> base, enabled |-> o # "PET"]]]]
Row(s, unit) == [service |-> s, unit |-> unit, perPerson |-> s = "carpool_ride",
                 enabled |-> TRUE, version |-> 1]
Prices(base) ==
    [rules |-> [s \in {"send_parcel", "cargo_haul", "buy_for_me"} |->
         CASE s = "send_parcel" -> Typed("parcel_category", base, 3000, 0)
           [] s = "cargo_haul"  -> Typed("distance", base, 3300, 1500)
           [] s = "buy_for_me"  -> Typed("distance_weather", base, 3000, 200)],
     routes |-> [r \in MCRoutes |-> IF r = "wenzhou" THEN Row("carpool_ride", base)
                                    ELSE Row("send_parcel", 1)]]

MCPayloads ==
    [PRICING |-> {Prices(2000)}, SERVICE_AREA |-> {},
     SYSTEM |-> {[settings |-> [accepting |-> TRUE, hours |-> Hours, validity |-> 5],
                  services |-> [s \in {"send_parcel", "cargo_haul"} |->
                                s = "send_parcel"]]}]

(* A parcel filled in earlier, from the built-in lines.                     *)
MCDrafts ==
    {EmptyForm,
     applyVehicleToDraft([buildDraftService(EmptyForm, "send_parcel") EXCEPT
       !.line = Line("wenzhou_parcel", 0, FALSE), !.district = TRUE,
       !.pickup = "city", !.dropoff = "city"])}

MCWanted ==
    {[task |-> "send_parcel", carpool |-> TRUE, routeId |-> "wenzhou",
      direction |-> "RETURN", passengers |-> 2, pickup |-> "city",
      dropoff |-> "stop", weight |-> 20, pet |-> TRUE, product |-> 500]}
=============================================================================
