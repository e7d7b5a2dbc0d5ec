----------------------------- MODULE MCOrdering -----------------------------
(***************************************************************************)
(* Two parts of the configuration that share no state, one of which moves: *)
(* PriceQuotes on small sets (a shared-ride line, a distance service,      *)
(* labour and parcels, two pricing payloads and one of each other kind),   *)
(* and the operators' pages of ConfigWorkspace.                            *)
(***************************************************************************)
EXTENDS PriceQuotes, ConfigWorkspace, TLC

VARIABLE part

MCServices == {"send_parcel", "carpool_ride", "urgent_delivery",
               "moving_handling"}
MCRoutes   == {"cangnan", "wenzhou_parcel"}
MCPlaces   == {"home", "city"}
MCPlacesOf == [r \in MCRoutes |-> {"city"}]
MCDistance == [pair \in MCPlaces \X MCPlaces |->
                 IF pair[1] = pair[2] THEN 900 ELSE 9300]

(* 9.3 - 3.3 = 6.000000000000001 in doubles; 9.3 - 13, 9.3 - 4 and 0.9 - 3.3 *)
(* are no whole kilometres; 9.3 * 1000 = 9300.                               *)
MCFloatAbove   == {<<9300, 3300>>}
MCFloatProduct == {}

Typed(mode, base, perKm) ==
    [mode |-> mode, base |-> base, surcharge |-> 100, included |-> 3300,
     perKm |-> perKm, max |-> 10000, weather |-> 300, enabled |-> base # 6000,
     parcel |-> [r \in {"wenzhou_parcel"} |-> [o \in PARCEL_PRICE_OPTIONS |->
                   [price |-> IF o = "PET" THEN 1 ELSE base, enabled |-> TRUE]]]]
Line(s, unit) == [service |-> s, unit |-> unit, perPerson |-> TRUE,
                  enabled |-> TRUE, version |-> 1]
Fares(unit) == [r \in MCRoutes |-> IF r = "cangnan"
                                   THEN Line("carpool_ride", unit)
                                   ELSE Line("send_parcel", 1)]
NewPrices(base) ==
    [rules |-> [s \in {"send_parcel", "urgent_delivery", "moving_handling"} |->
         CASE s = "send_parcel"     -> Typed("parcel_category", base, 0)
           [] s = "urgent_delivery" -> Typed("distance_weather", base, 200)
           [] s = "moving_handling" -> Typed("handling_fixed", base, 0)],
     routes |-> Fares(base)]

MCPayloads ==
    [PRICING |-> {NewPrices(5000), NewPrices(6000)},
     SERVICE_AREA |->
       {[services |-> {"send_parcel", "urgent_delivery", "moving_handling"},
         cities |-> [r \in {"wenzhou_parcel"} |->
                       [enabled |-> TRUE, districts |-> {"city"},
                        services |-> {"send_parcel"}]],
         areas |-> {[services |-> {"urgent_delivery"}, covers |-> {"home"},
                     enabled |-> TRUE]},
         policies |-> [s \in {"urgent_delivery"} |-> TRUE]]},
     SYSTEM |-> {[settings |-> [accepting |-> FALSE, hours |-> Hours,
                                validity |-> 5],
                  services |-> [s \in {"carpool_ride"} |-> FALSE]]}]

MCEdits == {[base |-> 700, perKm |-> 300, max |-> 20000, included |-> 13000]}

Wish == [task |-> "urgent_delivery", carpool |-> FALSE, routeId |-> None,
         direction |-> "OUTBOUND", passengers |-> 1, pickup |-> "home",
         dropoff |-> "city", weight |-> 1, pet |-> FALSE, product |-> 0]
MCWanted ==
    {Wish,
     [Wish EXCEPT !.task = "send_parcel", !.carpool = TRUE, !.passengers = 2,
                  !.routeId = "cangnan"],
     [Wish EXCEPT !.task = "send_parcel", !.pickup = "city",
                  !.routeId = "wenzhou_parcel"],
     [Wish EXCEPT !.task = "carpool_ride", !.passengers = 2,
                  !.routeId = "cangnan"],
     [Wish EXCEPT !.task = "moving_handling", !.dropoff = None]}

Sym == Permutations(Workers) \cup Permutations(Pages) \cup Permutations(Calls)

MCInit ==
    /\ part \in {"orders", "pages"}
    /\ Init /\ WorkspaceInit
    /\ part = "pages" => hour = "day"

Ordering ==
    /\ part = "orders" /\ Next
    /\ UNCHANGED <<workspaceVars, part>>

Editing ==
    /\ part = "pages" /\ WorkspaceNext
    /\ UNCHANGED <<vars, part>>

MCNext == Ordering \/ Editing
MCSpec == MCInit /\ [][MCNext]_<<vars, workspaceVars, part>>
=============================================================================
