---------------------------- MODULE ConfigCenter ----------------------------
(***************************************************************************)
(* The configuration operators publish and everything else reads:          *)
(* config-center.service.ts (drafts, revisions, publishing, service areas) *)
(* and catalog.service.ts (the defaults a start of the API writes, and the *)
(* older endpoints that edit a row directly).                              *)
(*                                                                         *)
(* A request in flight is a record with the handler, its next step and     *)
(* what it has read.  Publishing reads the draft, then the version, then   *)
(* runs one transaction; two operators' requests interleave in between.    *)
(***************************************************************************)
EXTENDS PricingRules, Sequences, FiniteSets

CONSTANTS
    Services,       \* the services configured, some of SERVICE_IDS
    Routes,         \* ids of service routes
    Places,         \* addresses, as far as configuration tells them apart
    Located,        \* those with coordinates, their own or geocoded
    PlacesOf,       \* [Routes -> places that belong to the route's city]
    Hours,          \* phases of the week
    Payloads,       \* [Category -> payloads operators save as drafts]
    Edits,          \* rule values typed at the older pricing endpoint
    Traffic,        \* handlers that operators and customers call
    Workers,        \* slots for requests in flight
    MaxBudget,      \* bound on the requests, edits and restarts together
    None            \* SQL NULL

VARIABLES
    rule,           \* [Services -> row of pricing_rules]
    route,          \* [Routes -> row of service_routes, or None]
    catalog,        \* [Services -> enabled flag of service_catalog]
    area,           \* rows of service_areas and service_coverage_policies
    settings,       \* the platform_settings row
    revisions,      \* [Category -> payloads of config_revisions, oldest first]
    draft,          \* [Category -> the config_drafts row, or None]
    hour,           \* the phase of the week it is
    edits,          \* edits made at the older endpoints
    boots,          \* restarts of the API so far
    req,            \* [Workers -> request in flight]
    budget          \* requests, edits and restarts still to come

configTables == <<rule, route, catalog, area, settings, revisions, draft>>
configVars   == <<configTables, hour, edits, boots>>

Category == {"PRICING", "SERVICE_AREA", "SYSTEM"}

ASSUME ConfigAssumption ==
    /\ Services \subseteq SERVICE_IDS
    /\ Located \subseteq Places
    /\ PlacesOf \in [Routes -> SUBSET Places]
    /\ MaxBudget \in Nat

(* A pricing payload before it is validated: records of the right shape,    *)
(* with whatever integers the operator typed.  The older endpoint's DTO     *)
(* checks its amounts.                                                      *)
Matrix(parcel, Price) ==
    /\ DOMAIN parcel \subseteq Routes
    /\ \A r \in DOMAIN parcel :
         parcel[r] \in [PARCEL_PRICE_OPTIONS -> [price : Price, enabled : BOOLEAN]]

PRICING_MODES == {"distance", "distance_weather", "fixed_route",
                  "parcel_category", "manual_quote", "handling_fixed"}
LabourModes   == {"manual_quote", "handling_fixed"}

TypedRule(r) ==
    /\ {r.base, r.surcharge, r.included, r.perKm, r.max, r.weather} \subseteq Int
    /\ r.mode \in PRICING_MODES /\ r.enabled \in BOOLEAN
    /\ Matrix(r.parcel, Int)

TypedRoute ==
    [service : SERVICE_IDS, unit : Int, perPerson : BOOLEAN, enabled : BOOLEAN,
     version : Nat]

ASSUME PayloadAssumption ==
    /\ \A p \in Payloads["PRICING"] :
         /\ DOMAIN p.rules \subseteq SERVICE_IDS
         /\ \A s \in DOMAIN p.rules : TypedRule(p.rules[s])
         /\ DOMAIN p.routes \subseteq Routes
         /\ \A r \in DOMAIN p.routes : p.routes[r] \in TypedRoute
    /\ \A p \in Payloads["SERVICE_AREA"] :
         \A r \in DOMAIN p.cities : p.cities[r].enabled \in BOOLEAN
    /\ \A p \in Payloads["SYSTEM"] :
         \A s \in DOMAIN p.services : p.services[s] \in BOOLEAN
    /\ Edits \subseteq [base : Nat, perKm : Nat, max : Nat, included : Nat]
    /\ None \notin TypedRoute

----------------------------------------------------------------------------
(* The rows a first start creates.                                          *)

DefaultRule(mode, base, perKm, weather) ==
    [mode |-> mode, base |-> base, perKm |-> perKm, weather |-> weather,
     included |-> IF perKm = 0 THEN 0 ELSE 4000, max |-> 100000,
     parcel |-> <<>>, enabled |-> TRUE, version |-> 1]

DEFAULT_PRICING_RULES ==
    [send_parcel      |-> DefaultRule("parcel_category", 0, 0, 0),
     carpool_ride     |-> DefaultRule("fixed_route", 0, 0, 0),
     cargo_haul       |-> DefaultRule("distance", 3300, 300, 0),
     urgent_delivery  |-> DefaultRule("distance_weather", 1300, 160, 500),
     pickup           |-> DefaultRule("distance_weather", 1000, 160, 500),
     buy_for_me       |-> DefaultRule("distance_weather", 1200, 160, 500),
     pedicab_delivery |-> DefaultRule("distance", 1500, 200, 0),
     moving_handling  |-> DefaultRule("manual_quote", 0, 0, 0)]

DEFAULT_SERVICE_ROUTES ==
    [cangnan |-> 4000, wenzhou |-> 15000, fuzhou |-> 0,
     wenzhou_parcel |-> 1, fuzhou_parcel |-> 1]

DefaultRoute(r) ==
    LET carpool == r \in {"cangnan", "wenzhou", "fuzhou"}
    IN [service |-> IF carpool THEN "carpool_ride" ELSE "send_parcel",
        unit |-> DEFAULT_SERVICE_ROUTES[r], perPerson |-> carpool,
        enabled |-> TRUE, version |-> 1]

DefaultService(s) == s # "send_parcel"

(* No area is drawn and no service enforces one.                            *)
NoAreas == [areas |-> {}, enforced |-> {}]

InitConfig ==
    /\ rule = [s \in Services |-> DEFAULT_PRICING_RULES[s]]
    /\ route = [r \in Routes |-> IF r \in DOMAIN DEFAULT_SERVICE_ROUTES
                                 THEN DefaultRoute(r) ELSE None]
    /\ catalog = [s \in Services |-> DefaultService(s)]
    /\ area = NoAreas
    /\ settings = [accepting |-> TRUE, hours |-> Hours, validity |-> 10]
    /\ revisions = [c \in Category |-> <<>>]
    /\ draft = [c \in Category |-> None]
    /\ hour \in Hours
    /\ edits = 0
    /\ boots = 0

----------------------------------------------------------------------------
(* Reads.  The first revision of a category is version 2: without one the   *)
(* current version is 1.                                                    *)

Version(i)        == i + 1
currentVersion(c) == Version(Len(revisions[c]))
LatestPayload(c)  == revisions[c][Len(revisions[c])]
Published(c)      == revisions[c] # <<>>
isWithinHours(s)  == hour \in s.hours

RoutesFor(s) == {r \in Routes : route[r] # None /\ route[r].service = s}
EnabledRoutesFor(s) == {r \in RoutesFor(s) : route[r].enabled}

pointInside(s, p) ==
    /\ p \in Located
    /\ \E a \in area.areas : a.enabled /\ s \in a.services /\ p \in a.covers

(* A place that was not given is not checked.                               *)
checkServiceArea(s, pickup, dropoff) ==
    /\ Published("SERVICE_AREA") => s \in LatestPayload("SERVICE_AREA").services
    /\ \/ s \notin area.enforced
       \/ ~ \E a \in area.areas : a.enabled /\ s \in a.services
       \/ \A p \in {pickup, dropoff} \ {None} : pointInside(s, p)

(* What the mini program and the merchant see.                              *)
normalizePublicPricingRule(s) ==
    [mode |-> rule[s].mode, base |-> rule[s].base, perKm |-> rule[s].perKm,
     included |-> rule[s].included, max |-> rule[s].max,
     weather |-> IF s \in WEATHER_SERVICE_IDS THEN rule[s].weather ELSE 0,
     parcel |-> IF s = "send_parcel"
                THEN normalizeParcelPricing(rule[s].parcel, EnabledRoutesFor(s))
                ELSE <<>>]

normalizeServiceCities ==
    IF Published("SERVICE_AREA") /\ LatestPayload("SERVICE_AREA").cities # <<>>
    THEN LatestPayload("SERVICE_AREA").cities
    ELSE [r \in EnabledRoutesFor("send_parcel") |->
            [enabled |-> TRUE, districts |-> PlacesOf[r],
             services |-> {"send_parcel"}]]

getAppConfig ==
    [version  |-> currentVersion("PRICING"),
     openNow  |-> settings.accepting /\ isWithinHours(settings),
     services |-> {s \in Services : catalog[s]},
     rules    |-> [s \in {t \in Services : rule[t].enabled} |->
                     normalizePublicPricingRule(s)],
     routes   |-> [r \in UNION {EnabledRoutesFor(s) : s \in Services} |->
                     route[r]],
     cities   |-> normalizeServiceCities]

----------------------------------------------------------------------------
(* Validation of a draft, when it is saved and again when it is published.  *)

validatePayload(c, p) ==
    CASE c = "PRICING" ->
           /\ \A s \in DOMAIN p.rules :
                LET r == p.rules[s] IN
                /\ r.max >= r.included
                /\ r.base >= 0 /\ r.perKm >= 0 /\ r.surcharge >= 0
                /\ r.weather >= 0 /\ r.included >= 0
                /\ s = "send_parcel" =>
                     \A q \in DOMAIN r.parcel, o \in PARCEL_PRICE_OPTIONS :
                       r.parcel[q][o].price >= PARCEL_DEFAULT_PRICE_FEN
           /\ \A r \in DOMAIN p.routes : p.routes[r].unit >= 0
      [] c = "SERVICE_AREA" ->
           /\ p.services \subseteq SERVICE_IDS
           /\ \A r \in DOMAIN p.cities : LET city == p.cities[r] IN
                /\ city.services \subseteq SERVICE_IDS
                /\ city.enabled /\ "send_parcel" \in city.services
                     => city.districts # {}
      [] c = "SYSTEM" -> p.settings.validity \in 1..60

(* Publishing, one operator per category: the rows the transaction leaves.  *)

publishPricing(p, version) ==
    LET parcelRoutes == {r \in DOMAIN p.routes :
                           p.routes[r].service = "send_parcel"}
        covered == DOMAIN p.rules
                     \cup {p.routes[r].service : r \in DOMAIN p.routes}
    IN
    /\ rule' = [s \in Services |-> IF s \in DOMAIN p.rules
          THEN PublishedRule(s, p.rules[s], parcelRoutes, version)
          ELSE rule[s]]
    /\ route' = [r \in Routes |->
          IF r \in DOMAIN p.routes
          THEN [p.routes[r] EXCEPT
                  !.unit = IF p.routes[r].service = "send_parcel"
                           THEN PARCEL_DEFAULT_PRICE_FEN ELSE p.routes[r].unit,
                  !.version = version]
          ELSE IF route[r] # None /\ route[r].service \in covered
          THEN [route[r] EXCEPT !.enabled = FALSE, !.version = version]
          ELSE route[r]]
    /\ UNCHANGED <<area, settings, catalog>>

(* The cities of a service-area payload double as the parcel routes.        *)
publishAreas(p, version) ==
    LET served == {r \in DOMAIN p.cities :
                     "send_parcel" \in p.cities[r].services}
    IN
    /\ area' = [areas |-> p.areas,
                enforced |-> (area.enforced \ DOMAIN p.policies)
                               \cup {s \in DOMAIN p.policies : p.policies[s]}]
    /\ route' = [r \in Routes |->
          IF r \in served
          THEN [service |-> "send_parcel", perPerson |-> FALSE,
                unit |-> IF r \in RoutesFor("send_parcel") /\ route[r].unit # 0
                         THEN route[r].unit ELSE PARCEL_DEFAULT_PRICE_FEN,
                enabled |-> p.cities[r].enabled, version |-> version]
          ELSE IF route[r] # None /\ route[r].service = "send_parcel"
          THEN [route[r] EXCEPT !.enabled = FALSE, !.version = version]
          ELSE route[r]]
    /\ UNCHANGED <<rule, settings, catalog>>

publishSystem(p) ==
    /\ settings' = p.settings
    /\ catalog' = [s \in Services |-> IF s \in DOMAIN p.services
                                      THEN p.services[s] ELSE catalog[s]]
    /\ UNCHANGED <<rule, route, area>>

ApplyPayload(c, p, version) ==
    CASE c = "PRICING"      -> publishPricing(p, version)
      [] c = "SERVICE_AREA" -> publishAreas(p, version)
      [] c = "SYSTEM"       -> publishSystem(p)

----------------------------------------------------------------------------
(* Requests.  A handler that throws changes nothing and needs no action.    *)

Idle          == [op |-> "none", pc |-> "idle"]
Free(w)       == req[w].pc = "idle"
At(w, op, pc) == req[w].op = op /\ req[w].pc = pc
Spend         == budget > 0 /\ budget' = budget - 1
Begin(w, r)   == /\ Free(w) /\ r.op \in Traffic
                 /\ req' = [req EXCEPT ![w] = r] /\ Spend
Goto(w, r)    == req' = [req EXCEPT ![w] = r] /\ UNCHANGED budget
Finish(w)     == Goto(w, Idle)

----------------------------------------------------------------------------
(* Slips: what a change of this file could get wrong.  No action uses them. *)

(* publish numbers the revision inside the transaction, after the check.    *)
VersionStillFree(w) == TRUE

(* publish no longer compares the draft's base with the current version.    *)
DraftOnAnyBase(d) == TRUE
----------------------------------------------------------------------------

(* Operator: PUT config-drafts.  The one draft of a category is replaced.   *)
SavableBase(c, base) == base = currentVersion(c)

SaveDraftRead(w, c, base, p) ==
    /\ SavableBase(c, base)
    /\ validatePayload(c, p)
    /\ Begin(w, [op |-> "saveDraft", pc |-> "write", cat |-> c,
                 base |-> base, payload |-> p])
    /\ UNCHANGED configVars

SaveDraftWrite(w) ==
    /\ At(w, "saveDraft", "write")
    /\ draft' = [draft EXCEPT ![req[w].cat] =
                   [base |-> req[w].base, payload |-> req[w].payload]]
    /\ Finish(w)
    /\ UNCHANGED <<rule, route, catalog, area, settings, revisions, hour,
                   edits, boots>>

(* Operator: POST config-publish.                                           *)
PublishRead(w, c) ==
    /\ draft[c] # None
    /\ Begin(w, [op |-> "publish", pc |-> "version", cat |-> c,
                 base |-> draft[c].base, payload |-> draft[c].payload])
    /\ UNCHANGED configVars

DraftIsCurrent(d) == d.base = currentVersion(d.cat)

PublishCheck(w) ==
    /\ At(w, "publish", "version")
    /\ DraftIsCurrent(req[w])
    /\ validatePayload(req[w].cat, req[w].payload)
    /\ Goto(w, [op |-> "publish", pc |-> "tx", cat |-> req[w].cat,
                base |-> req[w].base, payload |-> req[w].payload,
                next |-> currentVersion(req[w].cat) + 1])
    /\ UNCHANGED configVars

(* (category, version) is unique, so the transaction of the second of two   *)
(* publishers rolls back; so does one whose draft is gone when it ends.     *)
NextVersionFree(w) == req[w].next = currentVersion(req[w].cat) + 1

PublishTx(w) ==
    /\ At(w, "publish", "tx")
    /\ NextVersionFree(w)
    /\ LET c == req[w].cat IN
       /\ draft[c] # None
       /\ ApplyPayload(c, req[w].payload, req[w].next)
       /\ revisions' = [revisions EXCEPT ![c] = Append(@, req[w].payload)]
       /\ draft' = [draft EXCEPT ![c] = None]
    /\ Finish(w)
    /\ UNCHANGED <<hour, edits, boots>>

(* Operator: PUT service-configs, PUT pricing-rules.  One row, no revision. *)
UpdateService(s, enabled) ==
    /\ "updateService" \in Traffic
    /\ Spend
    /\ edits' = edits + 1
    /\ catalog' = [catalog EXCEPT ![s] = enabled]
    /\ UNCHANGED <<rule, route, area, settings, revisions, draft, hour, boots,
                   req>>

UpdatePricing(s, e) ==
    /\ "updatePricing" \in Traffic
    /\ Spend
    /\ edits' = edits + 1
    /\ rule' = [rule EXCEPT ![s] =
         [@ EXCEPT !.base = e.base, !.perKm = e.perKm, !.max = e.max,
                   !.included = e.included, !.version = rule[s].version + 1]]
    /\ UNCHANGED <<route, catalog, area, settings, revisions, draft, hour,
                   boots, req>>

----------------------------------------------------------------------------
(* The API restarts: requests in flight die, and onModuleInit of both       *)
(* services writes the defaults over what is there.                         *)
BootRule(s) ==
    IF s = "moving_handling"
    THEN [rule[s] EXCEPT !.mode = "manual_quote", !.base = 0] ELSE rule[s]

BootRoute(r) ==
    IF r \in DOMAIN DEFAULT_SERVICE_ROUTES
    THEN [DefaultRoute(r) EXCEPT !.unit = route[r].unit,
                                 !.version = route[r].version]
    ELSE IF r \in {"cangnan_parcel", "qinyu_parcel", "longan_parcel"}
              /\ route[r] # None /\ route[r].service = "send_parcel"
    THEN [route[r] EXCEPT !.enabled = FALSE]
    ELSE IF route[r] # None /\ route[r].service = "carpool_ride"
    THEN [route[r] EXCEPT !.enabled = TRUE]
    ELSE route[r]

Restart ==
    /\ "restart" \in Traffic
    /\ Spend
    /\ boots' = boots + 1
    /\ req' = [w \in Workers |-> Idle]
    /\ rule' = [s \in Services |-> BootRule(s)]
    /\ route' = [r \in Routes |-> BootRoute(r)]
    /\ catalog' = [s \in Services |-> DefaultService(s)]
    /\ UNCHANGED <<area, settings, revisions, draft, hour, edits>>

(* The connection drops, or an awaited call throws.                         *)
DropRequest(w) == ~Free(w) /\ Finish(w) /\ UNCHANGED configVars

ClockTurns ==
    /\ Spend
    /\ hour' \in Hours \ {hour}
    /\ UNCHANGED <<configTables, edits, boots, req>>

ConfigNext ==
    \/ \E w \in Workers :
         \/ \E c \in Category :
              \/ PublishRead(w, c)
              \/ \E p \in Payloads[c], base \in 1..currentVersion(c) :
                   SaveDraftRead(w, c, base, p)
         \/ SaveDraftWrite(w)
         \/ PublishCheck(w)
         \/ PublishTx(w)
    \/ \E s \in Services :
         \/ \E enabled \in BOOLEAN : UpdateService(s, enabled)
         \/ \E e \in Edits : UpdatePricing(s, e)
    \/ Restart
    \/ ClockTurns
=============================================================================
