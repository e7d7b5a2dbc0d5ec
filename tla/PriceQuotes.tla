---------------------------- MODULE PriceQuotes ----------------------------
(***************************************************************************)
(* From a wish to an order: ConfigCenterService.quote, the two older quote *)
(* endpoints of CatalogService, and OrdersService.create with and without  *)
(* a quote.  Every read of the configuration is an await of its own, so a  *)
(* publication or a restart can fall between any two of them; a call to    *)
(* the maps or the weather service may answer anything, or fail.           *)
(* One customer: quotes and orders are looked up by their owner anyway.    *)
(***************************************************************************)
EXTENDS ConfigCenter

CONSTANTS
    Wanted,         \* what customers ask a price for (PricingQuoteDto)
    Distance,       \* [Places \X Places -> metres by road]
    Quotes          \* ids of quotes

VARIABLES
    quote,          \* [Quotes -> row of quotes, or None]
    placed          \* orders as create() leaves them, oldest first

orderVars == <<quote, placed>>
vars == <<configVars, orderVars, req, budget>>

(* The fields of PricingQuoteDto and CreateOrderDto that decide anything.   *)
PricingQuoteDto ==
    [task : Services, carpool : BOOLEAN, routeId : Routes \cup {None},
     direction : {"OUTBOUND", "RETURN"}, passengers : 1..6,
     pickup : Places \cup {None}, dropoff : Places \cup {None},
     weight : Nat, pet : BOOLEAN, product : Nat]

(* The row of quotes.                                                       *)
QuoteRow ==
    [dto : Wanted, task : SERVICE_IDS, routeId : Routes \cup {None}, unit : Nat,
     total : Nat, version : Nat, used : BOOLEAN, expired : BOOLEAN]

(* carpool stands for the mode of a send_parcel wish.                       *)
ASSUME WantedAssumption ==
    /\ Wanted \subseteq PricingQuoteDto
    /\ \A d \in Wanted : d.carpool => d.task = "send_parcel"
    /\ Distance \in [Places \X Places -> Nat]
    /\ None \notin Quotes /\ None \notin QuoteRow

(* What the workspaces leave as they loaded it, and the server believes: the *)
(* mode of a service's rule and the service of a line.  A line carries       *)
(* people or parcels, the built-in ones people; a city is no such line.      *)
CarpoolLines == {"cangnan", "wenzhou", "fuzhou"}

KindsKept ==
    /\ \A p \in Payloads["PRICING"] :
         /\ \A s \in DOMAIN p.rules :
              /\ p.rules[s].mode = "parcel_category" => s = "send_parcel"
              /\ s \in DISTANCE_SERVICE_IDS => p.rules[s].mode \notin LabourModes
              /\ s = "carpool_ride" => p.rules[s].mode = "fixed_route"
         /\ \A r \in DOMAIN p.routes :
              /\ p.routes[r].service \in {"carpool_ride", "send_parcel"}
              /\ r \in CarpoolLines => p.routes[r].service = "carpool_ride"
    /\ \A p \in Payloads["SERVICE_AREA"] : DOMAIN p.cities \cap CarpoolLines = {}

ASSUME KindsAssumption == KindsKept

----------------------------------------------------------------------------
(* quote(): which price, and whether there is one.                          *)

Point(p) == IF p \in Located THEN p ELSE None

(* A shared ride is checked at the city end only.                           *)
CheckedPickup(d) ==
    IF d.carpool /\ d.direction = "OUTBOUND" THEN None ELSE Point(d.pickup)
CheckedDropoff(d) ==
    IF (d.carpool /\ d.direction = "RETURN") \/ d.task = "moving_handling"
    THEN None ELSE Point(d.dropoff)

(* Both ends of a parcel lie in the districts of its route's city: those    *)
(* configured, or else those built in; the built-in postal prefixes always  *)
(* count.                                                                   *)
validateParcelRouteAddress(d) ==
    LET cities == IF Published("SERVICE_AREA")
                  THEN LatestPayload("SERVICE_AREA").cities ELSE <<>>
        configured == d.routeId \in DOMAIN cities
        builtin == IF d.routeId = None THEN {} ELSE PlacesOf[d.routeId]
        allowed == IF configured /\ cities[d.routeId].districts # {}
                   THEN cities[d.routeId].districts ELSE builtin
    IN /\ configured => /\ cities[d.routeId].enabled
                        /\ "send_parcel" \in cities[d.routeId].services
       /\ allowed # {}
       /\ {d.pickup, d.dropoff} \subseteq allowed \cup builtin

validateCarpoolRouteAddress(d) ==
    /\ d.routeId \in CarpoolLines
    /\ (IF d.direction = "RETURN" THEN d.pickup ELSE d.dropoff)
         \in PlacesOf[d.routeId]

(* The route row quote() finds: the one asked for, if it serves the task.   *)
RouteService(d) == IF d.carpool THEN "carpool_ride" ELSE d.task
FoundRoute(d) ==
    IF d.routeId \in EnabledRoutesFor(RouteService(d)) THEN route[d.routeId]
    ELSE None

ParcelEntry(d, r) ==
    normalizeParcelPricing(r.parcel, {d.routeId})
      [d.routeId][ParcelOption(d.pet, d.weight)]

(* The branches of quote(), in order: each names its price per unit and its *)
(* total, and is refused when there is no price yet.                        *)
RidePrice(d, found) == [unit |-> found.unit, total |-> found.unit * d.passengers]
LinePrice(d, found) ==
    [unit |-> found.unit,
     total |-> found.unit * (IF found.perPerson THEN d.passengers ELSE 1)]
ParcelPrice(d, r)   == LET fen == ParcelEntry(d, r).price IN
                       [unit |-> fen, total |-> fen]
LabourPrice         == [unit |-> 0, total |-> 0]
DistancePrice(d, r, bad) ==
    [unit |-> 0, total |-> QuoteTotal(d.task, r, Distance[d.pickup, d.dropoff],
                                      bad, d.product)]

IsParcel(d, r) == d.task = "send_parcel" \/ r.mode = "parcel_category"

(* The prices quote() can answer with, given the rows it has read.          *)
QuotedPrice(d, r, found) ==
    CASE d.carpool ->
           {p \in {RidePrice(d, found)} : Configured(p.total)}
      [] ~d.carpool /\ IsParcel(d, r) ->
           {p \in {ParcelPrice(d, r)} : Configured(p.total)}
      [] ~d.carpool /\ ~IsParcel(d, r) /\ d.task = "moving_handling" ->
           {LabourPrice}
      [] ~d.carpool /\ ~IsParcel(d, r) /\ d.task # "moving_handling"
           /\ found # None ->
           {p \in {LinePrice(d, found)} : Configured(p.total)}
      [] OTHER -> {DistancePrice(d, r, bad) : bad \in BOOLEAN}

RouteAccepted(d, r, found) ==
    IF d.carpool
    THEN found # None /\ validateCarpoolRouteAddress(d)
    ELSE IF IsParcel(d, r)
    THEN /\ found # None
         /\ d.pet \/ d.weight <= 30
         /\ ParcelEntry(d, r).enabled
    ELSE d.task = "moving_handling" \/ found # None
         \/ /\ EnabledRoutesFor(d.task) = {}
            /\ r.mode # "fixed_route"
            /\ {d.pickup, d.dropoff} \subseteq Located
            /\ Distance[d.pickup, d.dropoff] <= r.max

----------------------------------------------------------------------------
(* Slips: what a change of these files could get wrong.                     *)

(* createQuote reads the version again, as it reads the validity again.     *)
VersionWhenSaved(w) == rule[req[w].dto.task].version

(* The transaction trusts the check made before it.                         *)
ConsumableAsRead(q) == TRUE

(* The conditional update forgets the expiry.                               *)
ConsumableUnused(q) == ~quote[q].used
----------------------------------------------------------------------------

(* Customer: POST quotes.                                                   *)
QuoteOpen(w, d) ==
    /\ settings.accepting /\ isWithinHours(settings)
    /\ Begin(w, [op |-> "quote", pc |-> "rule", dto |-> d])
    /\ UNCHANGED <<configVars, orderVars>>

QuoteReadRule(w) ==
    /\ At(w, "quote", "rule")
    /\ LET d == req[w].dto IN
       /\ rule[d.task].enabled
       /\ Goto(w, [op |-> "quote", pc |-> "area", dto |-> d,
                   rule |-> rule[d.task]])
    /\ UNCHANGED <<configVars, orderVars>>

QuoteCheckArea(w) ==
    /\ At(w, "quote", "area")
    /\ LET d == req[w].dto IN
       /\ d.task = "send_parcel" /\ ~d.carpool => validateParcelRouteAddress(d)
       /\ checkServiceArea(d.task, CheckedPickup(d), CheckedDropoff(d))
    /\ Goto(w, [req[w] EXCEPT !.pc = "route"])
    /\ UNCHANGED <<configVars, orderVars>>

QuoteReadRoute(w) ==
    /\ At(w, "quote", "route")
    /\ LET d == req[w].dto
           r == req[w].rule
           found == FoundRoute(d) IN
       /\ RouteAccepted(d, r, found)
       /\ \E price \in QuotedPrice(d, r, found) :
            Goto(w, [op |-> "quote", pc |-> "save", dto |-> d, rule |-> r,
                     price |-> price])
    /\ UNCHANGED <<configVars, orderVars>>

RecordedVersion(w) == req[w].rule.version

NewQuote(d, price, version) ==
    [dto |-> d, task |-> d.task, routeId |-> d.routeId, unit |-> price.unit,
     total |-> price.total, version |-> version, used |-> FALSE,
     expired |-> FALSE]

QuoteSave(w, q) ==
    /\ At(w, "quote", "save")
    /\ quote[q] = None
    /\ quote' = [quote EXCEPT ![q] =
                   NewQuote(req[w].dto, req[w].price, RecordedVersion(w))]
    /\ Finish(w)
    /\ UNCHANGED <<configVars, placed>>

(* Customer: POST quotes/carpool.  A line that is off in service_routes is  *)
(* still found in carpool_routes, at the price it was seeded with.          *)
CarpoolRoutePrice(r) ==
    IF r \in EnabledRoutesFor("carpool_ride") THEN {route[r].unit}
    ELSE IF r \in {"cangnan", "wenzhou"} THEN {DEFAULT_SERVICE_ROUTES[r]}
    ELSE {}

QuoteCarpoolRead(w, d) ==
    /\ d.carpool
    /\ "carpool_ride" \in {s \in Services : catalog[s]}
    /\ validateCarpoolRouteAddress(d)
    /\ \E unit \in CarpoolRoutePrice(d.routeId) :
         Begin(w, [op |-> "quoteCarpool", pc |-> "save", dto |-> d,
                   price |-> [unit |-> unit, total |-> unit * d.passengers]])
    /\ UNCHANGED <<configVars, orderVars>>

QuoteCarpoolSave(w, q) ==
    /\ At(w, "quoteCarpool", "save")
    /\ quote[q] = None
    /\ quote' = [quote EXCEPT ![q] =
         [NewQuote(req[w].dto, req[w].price, 1) EXCEPT !.task = "carpool_ride"]]
    /\ Finish(w)
    /\ UNCHANGED <<configVars, placed>>

(* Customer: POST quotes/handling.                                          *)
QuoteHandlingRead(w, d) ==
    /\ d.task = "moving_handling"
    /\ rule[d.task].enabled
    /\ Begin(w, [op |-> "quoteHandling", pc |-> "save", dto |-> d,
                 rule |-> rule[d.task]])
    /\ UNCHANGED <<configVars, orderVars>>

QuoteHandlingSave(w, q) ==
    /\ At(w, "quoteHandling", "save")
    /\ quote[q] = None
    /\ quote' = [quote EXCEPT ![q] =
                   NewQuote(req[w].dto, LabourPrice, RecordedVersion(w))]
    /\ Finish(w)
    /\ UNCHANGED <<configVars, placed>>

(* Time passes the quote's expiresAt.                                       *)
QuoteExpires(q) ==
    /\ quote[q] # None /\ ~quote[q].expired
    /\ quote' = [quote EXCEPT ![q] = [@ EXCEPT !.expired = TRUE]]
    /\ UNCHANGED <<configVars, placed, req, budget>>

----------------------------------------------------------------------------
(* Customer: POST orders with a quoteId.                                    *)
Usable(q)     == ~quote[q].used /\ ~quote[q].expired
Consumable(q) == ~quote[q].used /\ ~quote[q].expired

CreateFromQuoteRead(w, q) ==
    /\ quote[q] # None
    /\ Usable(q)
    /\ Begin(w, [op |-> "create", pc |-> "consume", quote |-> q])
    /\ UNCHANGED <<configVars, orderVars>>

CreateFromQuoteTx(w) ==
    /\ At(w, "create", "consume")
    /\ LET q == req[w].quote IN
       /\ Consumable(q)
       /\ quote' = [quote EXCEPT ![q] = [@ EXCEPT !.used = TRUE]]
       /\ placed' = Append(placed,
            [quote |-> q, task |-> quote[q].task,
             manual |-> quote[q].task = "moving_handling",
             fee |-> IF quote[q].task = "moving_handling" THEN 0
                     ELSE quote[q].total,
             dto |-> quote[q].dto])
    /\ Finish(w)
    /\ UNCHANGED configVars

(* Customer: POST orders without one.  Only the distance services may.  The *)
(* rule is read for the price, and again for the longest distance.          *)
CreateReadRule(w, d) ==
    /\ d.task \notin {"carpool_ride", "moving_handling", "send_parcel"}
    /\ Begin(w, [op |-> "create", pc |-> "distance", dto |-> d,
                 input |-> serverPricingInput(d.task, rule[d.task],
                                              rule[d.task].enabled)])
    /\ UNCHANGED <<configVars, orderVars>>

CreateReadDistance(w) ==
    /\ At(w, "create", "distance")
    /\ LET d == req[w].dto IN
       /\ {d.pickup, d.dropoff} \subseteq Located
       /\ rule[d.task].enabled =>
            LET metres == Distance[d.pickup, d.dropoff] IN
            metres + (IF metres \in FloatProduct THEN 1 ELSE 0)
              <= rule[d.task].max
    /\ Goto(w, [req[w] EXCEPT !.pc = "write"])
    /\ UNCHANGED <<configVars, orderVars>>

CreateWrite(w) ==
    /\ At(w, "create", "write")
    /\ LET d == req[w].dto IN \E bad \in BOOLEAN :
       /\ bad => d.task \in WEATHER_SERVICE_IDS
       /\ placed' = Append(placed,
            [quote |-> None, task |-> d.task,
             manual |-> req[w].input.mode = "manual_quote",
             fee |-> estimate(d.task, req[w].input,
                              Distance[d.pickup, d.dropoff], bad, d.product),
             dto |-> d])
    /\ Finish(w)
    /\ UNCHANGED <<configVars, quote>>

----------------------------------------------------------------------------
Init ==
    /\ InitConfig
    /\ quote = [q \in Quotes |-> None]
    /\ placed = <<>>
    /\ req = [w \in Workers |-> Idle]
    /\ budget = MaxBudget

OrderingStep(w) ==
    \/ \E d \in Wanted : \/ QuoteOpen(w, d)
                         \/ QuoteCarpoolRead(w, d)
                         \/ QuoteHandlingRead(w, d)
                         \/ CreateReadRule(w, d)
    \/ QuoteReadRule(w)
    \/ QuoteCheckArea(w)
    \/ QuoteReadRoute(w)
    \/ \E q \in Quotes : \/ QuoteSave(w, q)
                         \/ QuoteCarpoolSave(w, q)
                         \/ QuoteHandlingSave(w, q)
                         \/ CreateFromQuoteRead(w, q)
    \/ CreateFromQuoteTx(w)
    \/ CreateReadDistance(w)
    \/ CreateWrite(w)

Next ==
    \/ ConfigNext /\ UNCHANGED orderVars
    \/ \E w \in Workers : OrderingStep(w)
    \/ \E w \in Workers : DropRequest(w) /\ UNCHANGED orderVars
    \/ \E q \in Quotes : QuoteExpires(q)

Spec == Init /\ [][Next]_vars

----------------------------------------------------------------------------
(* The rule and the fare that the revisions up to version v leave: the last *)
(* one that names the service or the route, or the default.                 *)

PricingPayload(i)  == revisions["PRICING"][i]
UpTo(v)            == {i \in DOMAIN revisions["PRICING"] : Version(i) <= v}
Latest(indices)    == CHOOSE i \in indices : \A j \in indices : j <= i

RuleAt(s, v) ==
    LET naming == {i \in UpTo(v) : s \in DOMAIN PricingPayload(i).rules}
    IN IF naming = {} THEN DEFAULT_PRICING_RULES[s]
       ELSE LET i == Latest(naming)
                p == PricingPayload(i)
            IN PublishedRule(s, p.rules[s],
                 {r \in DOMAIN p.routes : p.routes[r].service = "send_parcel"},
                 Version(i))

FareAt(r, v) ==
    LET naming == {i \in UpTo(v) : r \in DOMAIN PricingPayload(i).routes}
    IN IF naming = {} THEN DEFAULT_SERVICE_ROUTES[r]
       ELSE PricingPayload(Latest(naming)).routes[r].unit

(* The fare of a line may change between the reads of rule and route; seats *)
(* are charged one by one or together, as the line's row says at the time.  *)
PublishedPrices(d, v) ==
    LET r == RuleAt(d.task, v)
        fares == {FareAt(d.routeId, u) : u \in v..currentVersion("PRICING")} IN
    IF d.carpool THEN {fare * d.passengers : fare \in fares}
    ELSE IF IsParcel(d, r) THEN {ParcelEntry(d, r).price}
    ELSE IF d.task = "moving_handling" THEN {0}
    ELSE IF d.task = "carpool_ride"
    THEN fares \cup {fare * d.passengers : fare \in fares}
    ELSE {QuoteTotal(d.task, r, Distance[d.pickup, d.dropoff], bad, d.product) :
            bad \in BOOLEAN}

(* What create() falls back on for a service whose rule is switched off.    *)
BuiltinPrices(d) ==
    LET builtin == VEHICLE_PRICING(vehicleType(d.task))
        r == [base |-> builtin.base, perKm |-> builtin.perKm,
              included |-> 4000, weather |-> 500] IN
    {QuoteTotal(d.task, r, Distance[d.pickup, d.dropoff], bad, d.product) :
       bad \in BOOLEAN}

Draft == [base : Nat, payload : UNION {Payloads[c] : c \in Category}]

(* Every row holds values its columns can hold.                             *)
TypeOK ==
    /\ \A s \in Services : rule[s].version \in Nat /\ rule[s].base \in Nat
    /\ \A r \in Routes : route[r] # None => route[r].unit \in Nat
    /\ catalog \in [Services -> BOOLEAN]
    /\ \A c \in Category : /\ draft[c] \in Draft \cup {None}
                           /\ revisions[c] \in Seq(Payloads[c])
    /\ \A q \in Quotes : quote[q] # None => /\ quote[q].dto \in Wanted
                                             /\ quote[q].total \in Nat
    /\ \A i \in DOMAIN placed : placed[i].fee \in Nat

(* A quote pays for exactly one order once it is used, however many         *)
(* requests carry it at the same time (orders.service.ts:323-328).          *)
QuoteUsedOnce ==
    \A q \in Quotes : quote[q] # None =>
      Cardinality({i \in DOMAIN placed : placed[i].quote = q})
        = (IF quote[q].used THEN 1 ELSE 0)

(* No order is placed at a price whose validity has run out, even when it   *)
(* ran out after the quote was first read (orders.service.ts:284, 325).     *)
ExpiredQuoteBuysNothing ==
    [][\A q \in Quotes : quote[q] # None /\ quote[q].expired
                            => quote'[q].used = quote[q].used]_vars

(* An operator's revision replaces the very version it was edited from:     *)
(* nobody's published change is overwritten by someone who never saw it     *)
(* (config-center.service.ts:186-213).                                      *)
RevisionReplacesItsBase ==
    [][\A c \in Category : revisions'[c] # revisions[c] =>
         \E w \in Workers :
           /\ At(w, "publish", "tx") /\ req'[w] = Idle
           /\ req[w].cat = c /\ req[w].base = currentVersion(c)]_vars

(* The rule in force is the one of the last revision that names its         *)
(* service, whichever publishers, direct edits and restarts raced (publish  *)
(* and updatePricing).  Labour is left out: a restart resets it.            *)
LiveRulesAreLastRevision ==
    \A s \in Services \ {"moving_handling"} :
      LET last == RuleAt(s, currentVersion("PRICING")) IN
      /\ rule[s].version >= last.version
      /\ rule[s].version = last.version => rule[s] = last

(* A quote's price is the one published at the version it records, and a    *)
(* shared ride's the fare of that version or a later one, although rule and *)
(* route are read at different times (config-center.service.ts:237-309).    *)
(* Direct edits move a rule's version without a revision and are left out.  *)
QuotedPriceWasPublished ==
    edits = 0 => \A q \in Quotes :
      quote[q] # None /\ quote[q].task = quote[q].dto.task =>
        quote[q].total \in PublishedPrices(quote[q].dto, quote[q].version)

(* An order placed without a quote costs what some quote for it would have, *)
(* or one kilometre more where the doubles of pricing.service.ts:41 count   *)
(* one that quote() does not, and never anything else; where an operator    *)
(* had switched the rule off and quote() refuses, it costs the built-in     *)
(* price (orders.service.ts:171-192, 756-778 and                            *)
(* config-center.service.ts:300-309 compute the price twice over).  The     *)
(* pedicab is left out: its prices are fixed.                               *)
KilometreMore(d, r) ==
    IF <<Distance[d.pickup, d.dropoff], r.included>> \in FloatAbove
    THEN r.perKm ELSE 0

DirectFeeIsAQuote ==
    edits = 0 => \A i \in DOMAIN placed :
      placed[i].quote = None /\ placed[i].task # "pedicab_delivery" =>
        \E v \in 1..currentVersion("PRICING") :
          LET d == placed[i].dto
              r == RuleAt(placed[i].task, v) IN
          IF r.enabled
          THEN \E price \in PublishedPrices(d, v) :
                 placed[i].fee = price + KilometreMore(d, r)
          ELSE placed[i].fee \in BuiltinPrices(d)
=============================================================================
