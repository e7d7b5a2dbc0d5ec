------------------------- MODULE PriceQuotesProofs -------------------------
(***************************************************************************)
(* Prices, quotes and revisions, for any configuration the pages can type, *)
(* any number of requests in flight and any number of restarts: what       *)
(* PriceQuotes promises, proved.                                           *)
(***************************************************************************)
EXTENDS PriceQuotes, FiniteSetTheorems, WellFoundedInduction, TLAPS

----------------------------------------------------------------------------
(* Rows.                                                                    *)
Entry    == [price : Int, enabled : BOOLEAN]
Matrices == UNION {[S -> [PARCEL_PRICE_OPTIONS -> Entry]] : S \in SUBSET Routes}

RuleRow ==
    [mode : PRICING_MODES, base : Nat, perKm : Nat, weather : Nat, included : Nat,
     max : Int, parcel : Matrices, enabled : BOOLEAN, version : Nat]

RouteRow ==
    [service : SERVICE_IDS, unit : Nat, perPerson : BOOLEAN, enabled : BOOLEAN,
     version : Nat]

----------------------------------------------------------------------------
(* The operators of PricingRules give natural numbers.                      *)
LEMMA ProductNat == ASSUME NEW a \in Nat, NEW b \in Nat PROVE a * b \in Nat
  OBVIOUS

LEMMA ExcessKmNat ==
    ASSUME NEW m \in Nat, NEW i \in Nat
    PROVE  ExcessKm(m, i) \in Nat
  <1>1. AtLeast(0, m - i) \in Nat
    BY DEF AtLeast
  <1> QED BY <1>1 DEF ExcessKm

LEMMA FloatExcessKmNat ==
    ASSUME NEW m \in Nat, NEW i \in Nat
    PROVE  FloatExcessKm(m, i) \in Nat
  <1>1. ExcessKm(m, i) \in Nat
    BY ExcessKmNat
  <1> QED BY <1>1 DEF FloatExcessKm

LEMMA QuoteTotalNat ==
    ASSUME NEW task, NEW r, r.base \in Nat, r.perKm \in Nat,
           r.weather \in Nat, r.included \in Nat,
           NEW m \in Nat, NEW bad \in BOOLEAN, NEW product \in Nat
    PROVE  QuoteTotal(task, r, m, bad, product) \in Nat
  <1>1. ExcessKm(m, r.included) * r.perKm \in Nat
    BY ExcessKmNat, ProductNat
  <1>2. AtLeast(0, product) \in Nat
    BY DEF AtLeast
  <1> QED BY <1>1, <1>2 DEF QuoteTotal

LEMMA NoMatrix == <<>> \in Matrices
  <1>1. <<>> \in [{} -> [PARCEL_PRICE_OPTIONS -> Entry]]
    OBVIOUS
  <1> QED BY <1>1 DEF Matrices

LEMMA NormalizedMatrix ==
    ASSUME NEW source, Matrix(source, Int), NEW routes
    PROVE  /\ routes \subseteq Routes
                => normalizeParcelPricing(source, routes) \in Matrices
           /\ \A r \in routes, o \in PARCEL_PRICE_OPTIONS :
                normalizeParcelPricing(source, routes)[r][o].price \in Nat
  <1> DEFINE entry(r, o) ==
               IF r \in DOMAIN source
               THEN [price |-> AtLeast(PARCEL_DEFAULT_PRICE_FEN, source[r][o].price),
                     enabled |-> source[r][o].enabled]
               ELSE [price |-> PARCEL_DEFAULT_PRICE_FEN, enabled |-> TRUE]
             matrix == [r \in routes |-> [o \in PARCEL_PRICE_OPTIONS |-> entry(r, o)]]
  <1>1. normalizeParcelPricing(source, routes) = matrix
    BY DEF normalizeParcelPricing
  <1>2. ASSUME NEW r, NEW o \in PARCEL_PRICE_OPTIONS
        PROVE  entry(r, o) \in Entry /\ entry(r, o).price \in Nat
    <2>1. CASE r \in DOMAIN source
      <3>1. source[r][o] \in [price : Int, enabled : BOOLEAN]
        BY <2>1 DEF Matrix
      <3> QED BY <2>1, <3>1 DEF Entry, AtLeast, PARCEL_DEFAULT_PRICE_FEN
    <2>2. CASE r \notin DOMAIN source
      BY <2>2 DEF Entry, PARCEL_DEFAULT_PRICE_FEN
    <2> QED BY <2>1, <2>2
  <1> HIDE DEF entry
  <1>3. matrix \in [routes -> [PARCEL_PRICE_OPTIONS -> Entry]]
    BY <1>2
  <1>4. routes \subseteq Routes => matrix \in Matrices
    BY <1>3 DEF Matrices
  <1>5. \A r \in routes, o \in PARCEL_PRICE_OPTIONS : matrix[r][o].price \in Nat
    BY <1>2
  <1> QED BY <1>1, <1>4, <1>5

LEMMA MatricesMatch == ASSUME NEW m \in Matrices PROVE Matrix(m, Int)
  <1>1. PICK S \in SUBSET Routes : m \in [S -> [PARCEL_PRICE_OPTIONS -> Entry]]
    BY DEF Matrices
  <1> QED BY <1>1 DEF Matrix, Entry

(* What a first start writes is well typed.                                 *)
LEMMA DefaultRuleTyped ==
    ASSUME NEW s \in SERVICE_IDS
    PROVE  /\ DEFAULT_PRICING_RULES[s] \in RuleRow
           /\ DEFAULT_PRICING_RULES[s].version = 1
           /\ DEFAULT_PRICING_RULES[s].mode = "parcel_category"
                => s = "send_parcel"
           /\ s \in DISTANCE_SERVICE_IDS
                => DEFAULT_PRICING_RULES[s].mode \notin LabourModes
           /\ s = "carpool_ride" => DEFAULT_PRICING_RULES[s].mode = "fixed_route"
  <1>1. ASSUME NEW mode \in PRICING_MODES, NEW base \in Nat, NEW perKm \in Nat,
               NEW weather \in Nat
        PROVE  /\ DefaultRule(mode, base, perKm, weather) \in RuleRow
               /\ DefaultRule(mode, base, perKm, weather).version = 1
               /\ DefaultRule(mode, base, perKm, weather).mode = mode
    BY NoMatrix DEF DefaultRule, RuleRow
  <1>2. /\ DEFAULT_PRICING_RULES["send_parcel"] = DefaultRule("parcel_category", 0, 0, 0)
        /\ DEFAULT_PRICING_RULES["carpool_ride"] = DefaultRule("fixed_route", 0, 0, 0)
        /\ DEFAULT_PRICING_RULES["cargo_haul"] = DefaultRule("distance", 3300, 300, 0)
        /\ DEFAULT_PRICING_RULES["urgent_delivery"]
             = DefaultRule("distance_weather", 1300, 160, 500)
        /\ DEFAULT_PRICING_RULES["pickup"] = DefaultRule("distance_weather", 1000, 160, 500)
        /\ DEFAULT_PRICING_RULES["buy_for_me"]
             = DefaultRule("distance_weather", 1200, 160, 500)
        /\ DEFAULT_PRICING_RULES["pedicab_delivery"] = DefaultRule("distance", 1500, 200, 0)
        /\ DEFAULT_PRICING_RULES["moving_handling"] = DefaultRule("manual_quote", 0, 0, 0)
    BY DEF DEFAULT_PRICING_RULES
  <1>3. \E mode \in PRICING_MODES, base \in Nat, perKm \in Nat, weather \in Nat :
          /\ DEFAULT_PRICING_RULES[s] = DefaultRule(mode, base, perKm, weather)
          /\ mode = "parcel_category" => s = "send_parcel"
          /\ s \in DISTANCE_SERVICE_IDS => mode \notin LabourModes
          /\ s = "carpool_ride" => mode = "fixed_route"
    <2> USE DEF PRICING_MODES, LabourModes
    <2>1. CASE s = "send_parcel"
      <3> WITNESS "parcel_category" \in PRICING_MODES, 0 \in Nat, 0 \in Nat, 0 \in Nat
      <3> QED BY <1>2, <2>1 DEF DISTANCE_SERVICE_IDS
    <2>2. CASE s = "carpool_ride"
      <3> WITNESS "fixed_route" \in PRICING_MODES, 0 \in Nat, 0 \in Nat, 0 \in Nat
      <3> QED BY <1>2, <2>2 DEF DISTANCE_SERVICE_IDS
    <2>3. CASE s = "cargo_haul"
      <3> WITNESS "distance" \in PRICING_MODES, 3300 \in Nat, 300 \in Nat, 0 \in Nat
      <3> QED BY <1>2, <2>3
    <2>4. CASE s = "pedicab_delivery"
      <3> WITNESS "distance" \in PRICING_MODES, 1500 \in Nat, 200 \in Nat, 0 \in Nat
      <3> QED BY <1>2, <2>4
    <2>5. CASE s = "urgent_delivery"
      <3> WITNESS "distance_weather" \in PRICING_MODES, 1300 \in Nat, 160 \in Nat, 500 \in Nat
      <3> QED BY <1>2, <2>5
    <2>6. CASE s = "pickup"
      <3> WITNESS "distance_weather" \in PRICING_MODES, 1000 \in Nat, 160 \in Nat, 500 \in Nat
      <3> QED BY <1>2, <2>6
    <2>7. CASE s = "buy_for_me"
      <3> WITNESS "distance_weather" \in PRICING_MODES, 1200 \in Nat, 160 \in Nat, 500 \in Nat
      <3> QED BY <1>2, <2>7
    <2>8. CASE s = "moving_handling"
      <3> WITNESS "manual_quote" \in PRICING_MODES, 0 \in Nat, 0 \in Nat, 0 \in Nat
      <3> QED BY <1>2, <2>8 DEF DISTANCE_SERVICE_IDS
    <2> QED BY <2>1, <2>2, <2>3, <2>4, <2>5, <2>6, <2>7, <2>8
            DEF SERVICE_IDS, DISTANCE_SERVICE_IDS
  <1>4. PICK mode \in PRICING_MODES, base \in Nat, perKm \in Nat, weather \in Nat :
          /\ DEFAULT_PRICING_RULES[s] = DefaultRule(mode, base, perKm, weather)
          /\ mode = "parcel_category" => s = "send_parcel"
          /\ s \in DISTANCE_SERVICE_IDS => mode \notin LabourModes
          /\ s = "carpool_ride" => mode = "fixed_route"
    BY <1>3
  <1>5. /\ DefaultRule(mode, base, perKm, weather) \in RuleRow
        /\ DefaultRule(mode, base, perKm, weather).version = 1
        /\ DefaultRule(mode, base, perKm, weather).mode = mode
    BY <1>1
  <1> QED BY <1>4, <1>5

LEMMA DefaultRouteTyped ==
    ASSUME NEW r \in DOMAIN DEFAULT_SERVICE_ROUTES
    PROVE  /\ DEFAULT_SERVICE_ROUTES[r] \in Nat
           /\ DefaultRoute(r) \in RouteRow
           /\ DefaultRoute(r).unit = DEFAULT_SERVICE_ROUTES[r]
           /\ DefaultRoute(r).service \in {"carpool_ride", "send_parcel"}
           /\ r \in CarpoolLines => DefaultRoute(r).service = "carpool_ride"
  <1>1. DEFAULT_SERVICE_ROUTES[r] \in Nat
    BY DEF DEFAULT_SERVICE_ROUTES
  <1> DEFINE line == r \in {"cangnan", "wenzhou", "fuzhou"}
             kind == IF line THEN "carpool_ride" ELSE "send_parcel"
  <1>2. /\ kind \in SERVICE_IDS /\ line \in BOOLEAN
        /\ kind \in {"carpool_ride", "send_parcel"}
        /\ r \in CarpoolLines => kind = "carpool_ride"
    BY DEF CarpoolLines, SERVICE_IDS
  <1>3. DefaultRoute(r) = [service |-> kind, unit |-> DEFAULT_SERVICE_ROUTES[r],
                           perPerson |-> line, enabled |-> TRUE, version |-> 1]
    BY DEF DefaultRoute
  <1> HIDE DEF line, kind
  <1> QED BY <1>1, <1>2, <1>3 DEF RouteRow

(* What publishing stores of a valid rule is well typed.                    *)
LEMMA PublishedRuleTyped ==
    ASSUME NEW s \in SERVICE_IDS, NEW p, TypedRule(p), NEW v \in Nat,
           p.base >= 0, p.perKm >= 0, p.surcharge >= 0, p.weather >= 0,
           p.included >= 0, NEW lines, lines \subseteq Routes
    PROVE  /\ PublishedRule(s, p, lines, v) \in RuleRow
           /\ PublishedRule(s, p, lines, v).version = v
           /\ PublishedRule(s, p, lines, v).mode = p.mode
  <1> DEFINE base     == p.base + p.surcharge
             included == IF s = "moving_handling" THEN 0 ELSE p.included
             perKm    == IF s = "moving_handling" THEN 0 ELSE p.perKm
             max      == AtLeast(0, p.max)
             weather  == IF s \in WEATHER_SERVICE_IDS THEN p.weather ELSE 0
             parcel   == IF s = "send_parcel"
                         THEN normalizeParcelPricing(p.parcel, lines) ELSE <<>>
  <1>1. base \in Nat /\ included \in Nat /\ perKm \in Nat /\ weather \in Nat
        /\ max \in Int
    BY DEF TypedRule, AtLeast
  <1>2. parcel \in Matrices
    BY NormalizedMatrix, NoMatrix DEF TypedRule
  <1>3. p.mode \in PRICING_MODES /\ p.enabled \in BOOLEAN
    BY DEF TypedRule
  <1>4. PublishedRule(s, p, lines, v)
          = [mode |-> p.mode, base |-> base, included |-> included,
             perKm |-> perKm, max |-> max, weather |-> weather,
             parcel |-> parcel, enabled |-> p.enabled, version |-> v]
    BY DEF PublishedRule
  <1> HIDE DEF base, included, perKm, max, weather, parcel
  <1> QED BY <1>1, <1>2, <1>3, <1>4 DEF RuleRow

(* The price quote() saves, whatever it has read.                           *)
Price == [unit : Nat, total : Nat]

LEMMA QuotedPriceTyped ==
    ASSUME NEW d \in PricingQuoteDto, NEW r \in RuleRow,
           NEW found \in RouteRow \cup {None},
           RouteAccepted(d, r, found), NEW price \in QuotedPrice(d, r, found)
    PROVE  price \in Price
  <1>1. d.passengers \in Nat /\ d.product \in Nat
    BY DEF PricingQuoteDto
  <1>2. CASE d.carpool
    <2>1. found \in RouteRow /\ price = RidePrice(d, found)
      BY <1>2 DEF RouteAccepted, QuotedPrice
    <2>2. found.unit \in Nat /\ found.unit * d.passengers \in Nat
      BY <1>1, <2>1, ProductNat DEF RouteRow
    <2> QED BY <2>1, <2>2 DEF RidePrice, Price
  <1>3. CASE ~d.carpool /\ IsParcel(d, r)
    <2>1. price = ParcelPrice(d, r)
      BY <1>3 DEF QuotedPrice
    <2>2. Matrix(r.parcel, Int)
      BY MatricesMatch DEF RuleRow
    <2>3. ParcelOption(d.pet, d.weight) \in PARCEL_PRICE_OPTIONS
      BY DEF ParcelOption, PARCEL_PRICE_OPTIONS
    <2>4. ParcelEntry(d, r).price \in Nat
      BY <2>2, <2>3, NormalizedMatrix DEF ParcelEntry
    <2> QED BY <2>1, <2>4 DEF ParcelPrice, Price
  <1>4. CASE ~d.carpool /\ ~IsParcel(d, r) /\ d.task = "moving_handling"
    BY <1>4 DEF QuotedPrice, LabourPrice, Price
  <1>5. CASE /\ ~d.carpool /\ ~IsParcel(d, r) /\ d.task # "moving_handling"
             /\ found # None
    <2>1. found \in RouteRow /\ price = LinePrice(d, found)
      BY <1>5 DEF QuotedPrice
    <2> DEFINE seats == IF found.perPerson THEN d.passengers ELSE 1
    <2>2. found.unit \in Nat /\ seats \in Nat
      BY <1>1, <2>1 DEF RouteRow
    <2>3. price = [unit |-> found.unit, total |-> found.unit * seats]
      BY <2>1 DEF LinePrice
    <2> HIDE DEF seats
    <2> QED BY <2>2, <2>3, ProductNat DEF Price
  <1>6. CASE /\ ~d.carpool /\ ~IsParcel(d, r) /\ d.task # "moving_handling"
             /\ found = None
    <2>1. PICK bad \in BOOLEAN : price = DistancePrice(d, r, bad)
      BY <1>6 DEF QuotedPrice
    <2>2. d.pickup \in Places /\ d.dropoff \in Places
      BY <1>6, ConfigAssumption DEF RouteAccepted
    <2>3. Distance[d.pickup, d.dropoff] \in Nat
      BY <2>2, WantedAssumption
    <2>4. r.base \in Nat /\ r.perKm \in Nat /\ r.weather \in Nat
          /\ r.included \in Nat
      BY DEF RuleRow
    <2>5. QuoteTotal(d.task, r, Distance[d.pickup, d.dropoff], bad, d.product)
            \in Nat
      BY <1>1, <2>3, <2>4, QuoteTotalNat
    <2> QED BY <2>1, <2>5 DEF DistancePrice, Price
  <1> QED BY <1>2, <1>3, <1>4, <1>5, <1>6

(* The price of an order without a quote.                                   *)
Input == [mode : PRICING_MODES, base : Nat, perKm : Nat, included : Nat,
          weather : Nat]

LEMMA PricingInputTyped ==
    ASSUME NEW task, NEW r \in RuleRow, NEW on \in BOOLEAN
    PROVE  serverPricingInput(task, r, on) \in Input
  <1> DEFINE builtin == VEHICLE_PRICING(vehicleType(task))
             pedicab == task = "pedicab_delivery"
             mode == IF task \in WEATHER_SERVICE_IDS THEN "distance_weather"
                     ELSE IF on THEN r.mode ELSE "distance"
             base == IF pedicab THEN 1500 ELSE IF on THEN r.base ELSE builtin.base
             perKm == IF pedicab THEN 200
                      ELSE IF on THEN r.perKm ELSE builtin.perKm
             included == IF on THEN r.included ELSE 4000
             weather == IF task \notin WEATHER_SERVICE_IDS THEN 0
                        ELSE IF on THEN r.weather ELSE 500
  <1>1. builtin.base \in Nat /\ builtin.perKm \in Nat
    BY DEF VEHICLE_PRICING, vehicleType
  <1> HIDE DEF builtin
  <1>2. /\ mode \in PRICING_MODES /\ base \in Nat /\ perKm \in Nat
        /\ included \in Nat /\ weather \in Nat
    BY <1>1 DEF RuleRow, PRICING_MODES
  <1>3. serverPricingInput(task, r, on)
          = [mode |-> mode, base |-> base, perKm |-> perKm,
             included |-> included, weather |-> weather]
    BY DEF serverPricingInput, builtin
  <1> HIDE DEF mode, base, perKm, included, weather
  <1> QED BY <1>2, <1>3 DEF Input

LEMMA EstimateNat ==
    ASSUME NEW task, NEW input \in Input, NEW m \in Nat, NEW bad \in BOOLEAN,
           NEW product \in Nat
    PROVE  estimate(task, input, m, bad, product) \in Nat
  <1>1. /\ input.base \in Nat /\ input.perKm \in Nat /\ input.included \in Nat
        /\ input.weather \in Nat
    BY DEF Input
  <1>2. FloatExcessKm(m, input.included) * input.perKm \in Nat
    BY <1>1, FloatExcessKmNat, ProductNat
  <1> QED BY <1>1, <1>2 DEF estimate, PARCEL_DEFAULT_PRICE_FEN

----------------------------------------------------------------------------
(* Revisions.  What they say of an earlier version stays said.              *)
Current == currentVersion("PRICING")

(* There is a latest revision among any, as < is well founded.              *)
LEMMA LatestIsIn ==
    ASSUME NEW n \in Nat, NEW S \in SUBSET (1..n), S # {}
    PROVE  Latest(S) \in S /\ \A j \in S : j <= Latest(S)
  <1> DEFINE T == {n - i : i \in S}
             R == {ss \in Nat \X Nat : ss[1] < ss[2]}
  <1>1. T \subseteq Nat /\ T # {}
    <2>1. \A i \in S : i \in Int /\ n - i \in Nat
      OBVIOUS
    <2>2. PICK i \in S : TRUE
      OBVIOUS
    <2>3. n - i \in T
      OBVIOUS
    <2> QED BY <2>1, <2>3
  <1>2. OpToRel(<, Nat) = R
    BY DEF OpToRel
  <1>3. IsWellFoundedOn(R, Nat)
    BY <1>2, NatLessThanWellFounded
  <1>4. PICK x \in T : \A y \in T : ~ (<<y, x>> \in R)
    BY <1>1, <1>3, WFMin
  <1>5. PICK i \in S : x = n - i
    OBVIOUS
  <1>6. \A j \in S : j <= i
    <2> TAKE j \in S
    <2>1. n - j \in T /\ n - j \in Nat /\ x \in Nat
      BY <1>1
    <2> HIDE DEF T
    <2>2. ~ (n - j < x)
      BY <1>4, <2>1
    <2> QED BY <1>5, <2>1, <2>2
  <1> QED BY <1>6 DEF Latest

(* The same, of any list of revisions: the rule and the fare are what the   *)
(* last revision up to v that names the service, or the line, says.         *)
RulesUpTo(h, s, v) == {i \in DOMAIN h : Version(i) <= v /\ s \in DOMAIN h[i].rules}
FaresUpTo(h, r, v) == {i \in DOMAIN h : Version(i) <= v /\ r \in DOMAIN h[i].routes}
ParcelLines(p)     == {r \in DOMAIN p.routes : p.routes[r].service = "send_parcel"}

RuleIn(h, s, v) ==
    IF RulesUpTo(h, s, v) = {} THEN DEFAULT_PRICING_RULES[s]
    ELSE PublishedRule(s, h[Latest(RulesUpTo(h, s, v))].rules[s],
           ParcelLines(h[Latest(RulesUpTo(h, s, v))]),
           Version(Latest(RulesUpTo(h, s, v))))

FareIn(h, r, v) ==
    IF FaresUpTo(h, r, v) = {} THEN DEFAULT_SERVICE_ROUTES[r]
    ELSE h[Latest(FaresUpTo(h, r, v))].routes[r].unit

LEMMA RuleAtIsIn ==
    ASSUME NEW s, NEW v
    PROVE  RuleAt(s, v) = RuleIn(revisions["PRICING"], s, v)
  <1>1. {i \in UpTo(v) : s \in DOMAIN PricingPayload(i).rules}
          = RulesUpTo(revisions["PRICING"], s, v)
    BY DEF UpTo, PricingPayload, RulesUpTo
  <1> QED BY <1>1 DEF RuleAt, RuleIn, PricingPayload, ParcelLines

LEMMA FareAtIsIn ==
    ASSUME NEW r, NEW v
    PROVE  FareAt(r, v) = FareIn(revisions["PRICING"], r, v)
  <1>1. {i \in UpTo(v) : r \in DOMAIN PricingPayload(i).routes}
          = FaresUpTo(revisions["PRICING"], r, v)
    BY DEF UpTo, PricingPayload, FaresUpTo
  <1> QED BY <1>1 DEF FareAt, FareIn, PricingPayload

(* A new revision changes nothing of the versions before it, and rules and  *)
(* fares from now on are its own where it names them.                       *)
LEMMA RulesGrow ==
    ASSUME NEW P, NEW h \in Seq(P), NEW p \in P, NEW s
    PROVE  LET n == Len(h) + 1
               g == Append(h, p) IN
           /\ \A v \in 1..n : RuleIn(g, s, v) = RuleIn(h, s, v)
           /\ RuleIn(g, s, n + 1) =
                IF s \in DOMAIN p.rules
                THEN PublishedRule(s, p.rules[s], ParcelLines(p), n + 1)
                ELSE RuleIn(h, s, n)
  <1> DEFINE n == Len(h) + 1
             g == Append(h, p)
  <1>1. /\ Len(h) \in Nat /\ n \in Nat /\ DOMAIN h = 1..Len(h)
        /\ DOMAIN g = 1..n /\ g[n] = p
        /\ \A i \in 1..Len(h) : g[i] = h[i]
    OBVIOUS
  <1>2. \A i \in 1..n : i \in Int /\ (i # n => i \in 1..Len(h))
    BY <1>1
  <1>3. 1..Len(h) \subseteq 1..n
    BY <1>1
  <1>4. n = Len(h) + 1
    OBVIOUS
  <1> HIDE DEF n, g
  <1>5. ASSUME NEW v \in 1..n PROVE RuleIn(g, s, v) = RuleIn(h, s, v)
    <2>1. \A i \in 1..n : Version(i) <= v => i \in 1..Len(h)
      BY <1>1, <1>2, <1>4 DEF Version
    <2>2. RulesUpTo(g, s, v) = RulesUpTo(h, s, v)
      BY <1>1, <1>3, <2>1 DEF RulesUpTo
    <2>3. CASE RulesUpTo(h, s, v) = {}
      BY <2>2, <2>3 DEF RuleIn
    <2>4. CASE RulesUpTo(h, s, v) # {}
      <3>1. RulesUpTo(h, s, v) \in SUBSET (1..Len(h))
        BY <1>1 DEF RulesUpTo
      <3>2. Latest(RulesUpTo(h, s, v)) \in 1..Len(h)
        BY <1>1, <2>4, <3>1, LatestIsIn
      <3>3. g[Latest(RulesUpTo(h, s, v))] = h[Latest(RulesUpTo(h, s, v))]
        BY <1>1, <3>2
      <3> QED BY <2>2, <3>3 DEF RuleIn
    <2> QED BY <2>3, <2>4
  <1>6. CASE s \in DOMAIN p.rules
    <2> DEFINE then == RulesUpTo(g, s, n + 1)
    <2>1. then \in SUBSET (1..n)
      BY <1>1 DEF RulesUpTo
    <2>2. n \in 1..n /\ Version(n) = n + 1
      BY <1>1, <1>4 DEF Version
    <2>3. n \in then
      BY <1>1, <1>6, <2>2 DEF RulesUpTo
    <2>4. Latest(then) \in then /\ \A j \in then : j <= Latest(then)
      BY <1>1, <2>1, <2>3, LatestIsIn
    <2>5. Latest(then) = n
      <3> HIDE DEF then
      <3>1. Latest(then) \in 1..n /\ n <= Latest(then)
        BY <2>1, <2>3, <2>4
      <3> QED BY <1>1, <3>1
    <2>6. RuleIn(g, s, n + 1)
            = PublishedRule(s, g[n].rules[s], ParcelLines(g[n]), Version(n))
      BY <2>3, <2>5 DEF RuleIn
    <2> QED BY <1>1, <1>4, <1>5, <1>6, <2>2, <2>6 DEF n, g
  <1>7. CASE s \notin DOMAIN p.rules
    <2>1. \A i \in 1..Len(h) : Version(i) <= n /\ Version(i) <= n + 1
      BY <1>1, <1>4 DEF Version
    <2>2. \A i \in 1..n : s \in DOMAIN g[i].rules => i \in 1..Len(h)
      BY <1>1, <1>2, <1>7
    <2>3. RulesUpTo(g, s, n + 1) = RulesUpTo(h, s, n)
      BY <1>1, <1>3, <2>1, <2>2 DEF RulesUpTo
    <2>4. RuleIn(g, s, n + 1) = RuleIn(h, s, n)
      <3>1. CASE RulesUpTo(h, s, n) = {}
        BY <2>3, <3>1 DEF RuleIn
      <3>2. CASE RulesUpTo(h, s, n) # {}
        <4>1. RulesUpTo(h, s, n) \in SUBSET (1..Len(h))
          BY <1>1 DEF RulesUpTo
        <4>2. Latest(RulesUpTo(h, s, n)) \in 1..Len(h)
          BY <1>1, <3>2, <4>1, LatestIsIn
        <4>3. g[Latest(RulesUpTo(h, s, n))] = h[Latest(RulesUpTo(h, s, n))]
          BY <1>1, <4>2
        <4> QED BY <2>3, <4>3 DEF RuleIn
      <3> QED BY <3>1, <3>2
    <2> QED BY <1>5, <1>7, <2>4 DEF n, g
  <1> QED BY <1>6, <1>7

LEMMA FaresGrow ==
    ASSUME NEW P, NEW h \in Seq(P), NEW p \in P, NEW r
    PROVE  LET n == Len(h) + 1
               g == Append(h, p) IN
           /\ \A v \in 1..n : FareIn(g, r, v) = FareIn(h, r, v)
           /\ FareIn(g, r, n + 1) =
                IF r \in DOMAIN p.routes
                THEN p.routes[r].unit
                ELSE FareIn(h, r, n)
  <1> DEFINE n == Len(h) + 1
             g == Append(h, p)
  <1>1. /\ Len(h) \in Nat /\ n \in Nat /\ DOMAIN h = 1..Len(h)
        /\ DOMAIN g = 1..n /\ g[n] = p
        /\ \A i \in 1..Len(h) : g[i] = h[i]
    OBVIOUS
  <1>2. \A i \in 1..n : i \in Int /\ (i # n => i \in 1..Len(h))
    BY <1>1
  <1>3. 1..Len(h) \subseteq 1..n
    BY <1>1
  <1>4. n = Len(h) + 1
    OBVIOUS
  <1> HIDE DEF n, g
  <1>5. ASSUME NEW v \in 1..n PROVE FareIn(g, r, v) = FareIn(h, r, v)
    <2>1. \A i \in 1..n : Version(i) <= v => i \in 1..Len(h)
      BY <1>1, <1>2, <1>4 DEF Version
    <2>2. FaresUpTo(g, r, v) = FaresUpTo(h, r, v)
      BY <1>1, <1>3, <2>1 DEF FaresUpTo
    <2>3. CASE FaresUpTo(h, r, v) = {}
      BY <2>2, <2>3 DEF FareIn
    <2>4. CASE FaresUpTo(h, r, v) # {}
      <3>1. FaresUpTo(h, r, v) \in SUBSET (1..Len(h))
        BY <1>1 DEF FaresUpTo
      <3>2. Latest(FaresUpTo(h, r, v)) \in 1..Len(h)
        BY <1>1, <2>4, <3>1, LatestIsIn
      <3>3. g[Latest(FaresUpTo(h, r, v))] = h[Latest(FaresUpTo(h, r, v))]
        BY <1>1, <3>2
      <3> QED BY <2>2, <3>3 DEF FareIn
    <2> QED BY <2>3, <2>4
  <1>6. CASE r \in DOMAIN p.routes
    <2> DEFINE then == FaresUpTo(g, r, n + 1)
    <2>1. then \in SUBSET (1..n)
      BY <1>1 DEF FaresUpTo
    <2>2. n \in 1..n /\ Version(n) = n + 1
      BY <1>1, <1>4 DEF Version
    <2>3. n \in then
      BY <1>1, <1>6, <2>2 DEF FaresUpTo
    <2>4. Latest(then) \in then /\ \A j \in then : j <= Latest(then)
      BY <1>1, <2>1, <2>3, LatestIsIn
    <2>5. Latest(then) = n
      <3> HIDE DEF then
      <3>1. Latest(then) \in 1..n /\ n <= Latest(then)
        BY <2>1, <2>3, <2>4
      <3> QED BY <1>1, <3>1
    <2>6. FareIn(g, r, n + 1) = g[n].routes[r].unit
      BY <2>3, <2>5 DEF FareIn
    <2> QED BY <1>1, <1>4, <1>5, <1>6, <2>2, <2>6 DEF n, g
  <1>7. CASE r \notin DOMAIN p.routes
    <2>1. \A i \in 1..Len(h) : Version(i) <= n /\ Version(i) <= n + 1
      BY <1>1, <1>4 DEF Version
    <2>2. \A i \in 1..n : r \in DOMAIN g[i].routes => i \in 1..Len(h)
      BY <1>1, <1>2, <1>7
    <2>3. FaresUpTo(g, r, n + 1) = FaresUpTo(h, r, n)
      BY <1>1, <1>3, <2>1, <2>2 DEF FaresUpTo
    <2>4. FareIn(g, r, n + 1) = FareIn(h, r, n)
      <3>1. CASE FaresUpTo(h, r, n) = {}
        BY <2>3, <3>1 DEF FareIn
      <3>2. CASE FaresUpTo(h, r, n) # {}
        <4>1. FaresUpTo(h, r, n) \in SUBSET (1..Len(h))
          BY <1>1 DEF FaresUpTo
        <4>2. Latest(FaresUpTo(h, r, n)) \in 1..Len(h)
          BY <1>1, <3>2, <4>1, LatestIsIn
        <4>3. g[Latest(FaresUpTo(h, r, n))] = h[Latest(FaresUpTo(h, r, n))]
          BY <1>1, <4>2
        <4> QED BY <2>3, <4>3 DEF FareIn
      <3> QED BY <3>1, <3>2
    <2> QED BY <1>5, <1>7, <2>4 DEF n, g
  <1> QED BY <1>6, <1>7

----------------------------------------------------------------------------
(* The inductive invariant.                                                 *)

(* A payload of category c that was checked before it was stored.           *)
Checked(c, p) == p \in Payloads[c] /\ validatePayload(c, p)

(* What KindsAssumption leaves of a rule's mode, whoever writes the row.    *)
OfItsKind(s, row) ==
    /\ row.mode = "parcel_category" => s = "send_parcel"
    /\ s \in DISTANCE_SERVICE_IDS => row.mode \notin LabourModes
    /\ s = "carpool_ride" => row.mode = "fixed_route"

Quoted == {"carpool_ride", "moving_handling", "send_parcel"}

OrderRow == [quote : Quotes \cup {None}, task : SERVICE_IDS, manual : BOOLEAN,
             fee : Nat, dto : Wanted]

Is(r, op, pc) == r.op = op /\ r.pc = pc

RuleTaken   == [op : {"quote"}, pc : {"area", "route"}, dto : Wanted, rule : RuleRow]
WithInput  == [op : {"create"}, pc : {"distance", "write"}, dto : Wanted,
               input : Input]

(* What a request in flight holds, whatever has happened since.             *)
Asked(r) ==
    /\ (\/ Is(r, "saveDraft", "write") \/ Is(r, "publish", "version")
        \/ Is(r, "publish", "tx"))
         => r.cat \in Category /\ r.base \in Nat /\ Checked(r.cat, r.payload)
    /\ Is(r, "publish", "tx") => r.next = r.base + 1
    /\ Is(r, "quote", "rule") => r.dto \in Wanted
    /\ Is(r, "quote", "area") \/ Is(r, "quote", "route")
         => r \in RuleTaken /\ OfItsKind(r.dto.task, r.rule)
    /\ Is(r, "quote", "save")
         => r.dto \in Wanted /\ r.rule \in RuleRow /\ r.price \in Price
    /\ Is(r, "quoteCarpool", "save")
         => r.dto \in Wanted /\ r.dto.carpool /\ r.price \in Price
    /\ Is(r, "quoteHandling", "save")
         => /\ r.dto \in Wanted /\ r.dto.task = "moving_handling"
            /\ r.rule \in RuleRow
    /\ Is(r, "create", "consume") => r.quote \in Quotes
    /\ Is(r, "create", "distance") \/ Is(r, "create", "write")
         => r \in WithInput /\ r.dto.task \notin Quoted
    /\ Is(r, "create", "write")
         => r.dto.pickup \in Places /\ r.dto.dropoff \in Places

(* What it holds of the tables.  Prices only while no row was edited        *)
(* without a revision.                                                      *)
PriceIsPublished(d, v, fee) ==
    v \in 1..Current /\ fee \in PublishedPrices(d, v)

DirectPrices(d, v) ==
    IF RuleAt(d.task, v).enabled
    THEN {price + KilometreMore(d, RuleAt(d.task, v)) :
            price \in PublishedPrices(d, v)}
    ELSE BuiltinPrices(d)

Holds(r) ==
    /\ Is(r, "create", "consume") => quote[r.quote] # None
    /\ edits = 0 =>
         /\ Is(r, "quote", "area") \/ Is(r, "quote", "route") =>
              /\ r.rule.version \in 1..Current
              /\ r.dto.task # "moving_handling" =>
                   r.rule = RuleAt(r.dto.task, r.rule.version)
         /\ Is(r, "quote", "save") =>
              PriceIsPublished(r.dto, r.rule.version, r.price.total)
         /\ Is(r, "quoteHandling", "save") =>
              PriceIsPublished(r.dto, r.rule.version, 0)
         /\ Is(r, "create", "distance") \/ Is(r, "create", "write") =>
              \E v \in 1..Current :
                r.input = serverPricingInput(r.dto.task, RuleAt(r.dto.task, v),
                                             RuleAt(r.dto.task, v).enabled)

TablesTyped ==
    /\ rule \in [Services -> RuleRow]
    /\ \A s \in Services : OfItsKind(s, rule[s])
    /\ route \in [Routes -> RouteRow \cup {None}]
    /\ \A r \in Routes \cap DOMAIN DEFAULT_SERVICE_ROUTES : route[r] \in RouteRow
    /\ catalog \in [Services -> BOOLEAN]
    /\ edits \in Nat

HistoryTyped ==
    /\ DOMAIN revisions = Category /\ DOMAIN draft = Category
    /\ \A c \in Category :
         /\ revisions[c] \in Seq(Payloads[c])
         /\ \A i \in DOMAIN revisions[c] : validatePayload(c, revisions[c][i])
         /\ draft[c] # None =>
              /\ draft[c] \in [base : Nat, payload : Payloads[c]]
              /\ validatePayload(c, draft[c].payload)

OrdersTyped ==
    /\ quote \in [Quotes -> QuoteRow \cup {None}]
    /\ placed \in Seq(OrderRow)

RequestsHold ==
    /\ DOMAIN req = Workers
    /\ \A w \in Workers : Asked(req[w]) /\ Holds(req[w])

(* A quote has at most one order, and one exactly when it is used.          *)
OrdersOf(q) == {i \in DOMAIN placed : placed[i].quote = q}

UsedOnce ==
    \A q \in Quotes :
      IF quote[q] # None /\ quote[q].used THEN \E i \in OrdersOf(q) : OrdersOf(q) = {i}
      ELSE OrdersOf(q) = {}

(* The rule the last revision leaves is the one of its own version.         *)
Last(s) == RuleAt(s, Current)

LastIsItsOwn ==
    \A s \in Services : /\ Last(s).version \in 1..Current
                        /\ RuleAt(s, Last(s).version) = Last(s)

RulesFollow ==
    \A s \in Services \ {"moving_handling"} :
      /\ rule[s].version >= Last(s).version
      /\ rule[s].version = Last(s).version => rule[s] = Last(s)

FaresFollow ==
    \A r \in Routes : route[r] # None =>
      /\ route[r].service \in {"carpool_ride", "send_parcel"}
      /\ r \in CarpoolLines => route[r].service = "carpool_ride"
      /\ route[r].service = "carpool_ride" => route[r].unit = FareAt(r, Current)

RulesUnedited ==
    edits = 0 =>
      \A s \in Services : /\ rule[s].version \in 1..Current
                          /\ s # "moving_handling" => rule[s] = Last(s)

QuotesPriced ==
    edits = 0 =>
      \A q \in Quotes : quote[q] # None /\ quote[q].task = quote[q].dto.task =>
        PriceIsPublished(quote[q].dto, quote[q].version, quote[q].total)

DirectPriced ==
    edits = 0 =>
      \A i \in DOMAIN placed :
        placed[i].quote = None /\ placed[i].task # "pedicab_delivery" =>
          /\ placed[i].task = placed[i].dto.task
          /\ \E v \in 1..Current : placed[i].fee \in DirectPrices(placed[i].dto, v)

IInv ==
    /\ TablesTyped
    /\ HistoryTyped
    /\ OrdersTyped
    /\ RequestsHold
    /\ UsedOnce
    /\ LastIsItsOwn
    /\ RulesFollow
    /\ FaresFollow
    /\ RulesUnedited
    /\ QuotesPriced
    /\ DirectPriced

----------------------------------------------------------------------------
LEMMA HistoryStays ==
    ASSUME revisions'["PRICING"] = revisions["PRICING"]
    PROVE  /\ Current' = Current
           /\ \A s, v : RuleAt(s, v)' = RuleAt(s, v)
           /\ \A r, v : FareAt(r, v)' = FareAt(r, v)
  <1>1. /\ \A i : PricingPayload(i)' = PricingPayload(i)
        /\ \A v : UpTo(v)' = UpTo(v)
    BY DEF PricingPayload, UpTo
  <1> QED BY <1>1 DEF Current, currentVersion, RuleAt, FareAt
LEMMA HistoryGrows ==
    ASSUME NEW P, revisions["PRICING"] \in Seq(P), NEW p \in P,
           revisions'["PRICING"] = Append(revisions["PRICING"], p),
           NEW m, m = Current
    PROVE  /\ m \in Nat \ {0} /\ Current' = m + 1
           /\ \A s, v : v \in 1..m => RuleAt(s, v)' = RuleAt(s, v)
           /\ \A r, v : v \in 1..m => FareAt(r, v)' = FareAt(r, v)
           /\ \A s : RuleAt(s, m + 1)' =
                IF s \in DOMAIN p.rules
                THEN PublishedRule(s, p.rules[s], ParcelLines(p), m + 1)
                ELSE RuleAt(s, m)
           /\ \A r : FareAt(r, m + 1)' =
                IF r \in DOMAIN p.routes THEN p.routes[r].unit
                ELSE FareAt(r, m)
  <1>1. PICK h : h = revisions["PRICING"]
    OBVIOUS
  <1>2. h \in Seq(P) /\ m = Len(h) + 1 /\ revisions'["PRICING"] = Append(h, p)
    BY <1>1 DEF Current, currentVersion, Version
  <1>3. Len(Append(h, p)) = Len(h) + 1 /\ Len(h) \in Nat
    BY <1>2
  <1>4. m \in Nat \ {0} /\ Current' = m + 1
    BY <1>2, <1>3 DEF Current, currentVersion, Version
  <1>5. /\ \A s, v : RuleAt(s, v)' = RuleIn(Append(h, p), s, v)
        /\ \A r, v : FareAt(r, v)' = FareIn(Append(h, p), r, v)
    <2> DEFINE g == Append(h, p)
    <2>1. revisions'["PRICING"] = g
      BY <1>2
    <2> HIDE DEF g
    <2>2. /\ \A i : PricingPayload(i)' = g[i]
          /\ \A v : UpTo(v)' = {i \in DOMAIN g : Version(i) <= v}
      BY <2>1 DEF PricingPayload, UpTo
    <2>3. ASSUME NEW s, NEW v PROVE RuleAt(s, v)' = RuleIn(g, s, v)
      <3>1. {i \in UpTo(v)' : s \in DOMAIN PricingPayload(i)'.rules}
              = RulesUpTo(g, s, v)
        BY <2>2 DEF RulesUpTo
      <3> QED BY <2>2, <3>1 DEF RuleAt, RuleIn, ParcelLines
    <2>4. ASSUME NEW r, NEW v PROVE FareAt(r, v)' = FareIn(g, r, v)
      <3>1. {i \in UpTo(v)' : r \in DOMAIN PricingPayload(i)'.routes}
              = FaresUpTo(g, r, v)
        BY <2>2 DEF FaresUpTo
      <3> QED BY <2>2, <3>1 DEF FareAt, FareIn
    <2> QED BY <2>3, <2>4 DEF g
  <1>6. /\ \A s, v : RuleAt(s, v) = RuleIn(h, s, v)
        /\ \A r, v : FareAt(r, v) = FareIn(h, r, v)
    BY <1>1, RuleAtIsIn, FareAtIsIn
  <1>7. ASSUME NEW s
        PROVE  /\ \A v \in 1..m : RuleAt(s, v)' = RuleAt(s, v)
               /\ RuleAt(s, m + 1)' =
                    IF s \in DOMAIN p.rules
                    THEN PublishedRule(s, p.rules[s], ParcelLines(p), m + 1)
                    ELSE RuleAt(s, m)
    <2>1. LET n == Len(h) + 1 IN
          /\ \A v \in 1..n : RuleIn(Append(h, p), s, v) = RuleIn(h, s, v)
          /\ RuleIn(Append(h, p), s, n + 1) =
               IF s \in DOMAIN p.rules
               THEN PublishedRule(s, p.rules[s], ParcelLines(p), n + 1)
               ELSE RuleIn(h, s, n)
      BY <1>2, RulesGrow
    <2> QED BY <1>2, <1>5, <1>6, <2>1
  <1>8. ASSUME NEW r
        PROVE  /\ \A v \in 1..m : FareAt(r, v)' = FareAt(r, v)
               /\ FareAt(r, m + 1)' =
                    IF r \in DOMAIN p.routes THEN p.routes[r].unit
                    ELSE FareAt(r, m)
    <2>1. LET n == Len(h) + 1 IN
          /\ \A v \in 1..n : FareIn(Append(h, p), r, v) = FareIn(h, r, v)
          /\ FareIn(Append(h, p), r, n + 1) =
               IF r \in DOMAIN p.routes THEN p.routes[r].unit
               ELSE FareIn(h, r, n)
      BY <1>2, FaresGrow
    <2> QED BY <1>2, <1>5, <1>6, <2>1
  <1> QED BY <1>4, <1>7, <1>8

(* Whatever revision a rule comes from, it is well typed and of its kind.   *)
LEMMA RuleAtTyped ==
    ASSUME HistoryTyped, NEW s \in SERVICE_IDS, NEW v
    PROVE  /\ RuleAt(s, v) \in RuleRow
           /\ OfItsKind(s, RuleAt(s, v))
           /\ RuleAt(s, v).version \in 1..Current
  <1> DEFINE h == revisions["PRICING"]
             S == RulesUpTo(h, s, v)
             n == Len(h)
  <1>1. /\ h \in Seq(Payloads["PRICING"]) /\ n \in Nat
        /\ \A i \in DOMAIN h : validatePayload("PRICING", h[i])
        /\ DOMAIN h = 1..n /\ Current = n + 1
    BY DEF HistoryTyped, Category, Current, currentVersion, Version
  <1> HIDE DEF h, n
  <1>2. RuleAt(s, v) = RuleIn(h, s, v)
    BY RuleAtIsIn DEF h
  <1>3. CASE S = {}
    <2>1. RuleAt(s, v) = DEFAULT_PRICING_RULES[s]
      BY <1>2, <1>3 DEF RuleIn
    <2>2. 1 \in 1..Current
      BY <1>1
    <2> QED BY <2>1, <2>2, DefaultRuleTyped DEF OfItsKind
  <1>4. CASE S # {}
    <2>1. S \in SUBSET (1..n)
      BY <1>1 DEF RulesUpTo
    <2>2. PICK i : i = Latest(S)
      OBVIOUS
    <2>3. i \in S
      BY <1>1, <1>4, <2>1, <2>2, LatestIsIn
    <2>4. i \in 1..n /\ s \in DOMAIN h[i].rules
      BY <1>1, <2>3 DEF RulesUpTo
    <2>5. PICK p \in Payloads["PRICING"] : p = h[i]
      BY <1>1, <2>4
    <2>6. /\ TypedRule(p.rules[s]) /\ ParcelLines(p) \subseteq Routes
          /\ validatePayload("PRICING", p) /\ s \in DOMAIN p.rules
      BY <1>1, <2>4, <2>5, PayloadAssumption DEF ParcelLines
    <2>7. /\ p.rules[s].base >= 0 /\ p.rules[s].perKm >= 0
          /\ p.rules[s].surcharge >= 0 /\ p.rules[s].weather >= 0
          /\ p.rules[s].included >= 0
      BY <2>6 DEF validatePayload
    <2>8. Version(i) \in Nat /\ Version(i) \in 1..Current
      BY <1>1, <2>4 DEF Version
    <2>9. RuleAt(s, v) = PublishedRule(s, p.rules[s], ParcelLines(p), Version(i))
      BY <1>2, <1>4, <2>2, <2>5 DEF RuleIn
    <2>10. OfItsKind(s, p.rules[s])
      BY <2>5, <2>6, KindsAssumption DEF KindsKept, OfItsKind
    <2>11. /\ RuleAt(s, v) \in RuleRow /\ RuleAt(s, v).version = Version(i)
           /\ RuleAt(s, v).mode = p.rules[s].mode
      BY <2>6, <2>7, <2>8, <2>9, PublishedRuleTyped
    <2> QED BY <2>8, <2>10, <2>11 DEF OfItsKind
  <1> QED BY <1>3, <1>4

----------------------------------------------------------------------------
(* What requests and orders rely on outlives every step that only adds to   *)
(* the history.                                                             *)
HistoryKept(m) ==
    /\ m \in Nat /\ Current' \in Nat /\ m <= Current'
    /\ \A s, v : v \in 1..m => RuleAt(s, v)' = RuleAt(s, v)
    /\ \A r, v : v \in 1..m => FareAt(r, v)' = FareAt(r, v)

LEMMA CurrentNat == HistoryTyped => Current \in Nat \ {0}
  <1> SUFFICES ASSUME HistoryTyped PROVE Current \in Nat \ {0}
    OBVIOUS
  <1>1. Len(revisions["PRICING"]) \in Nat
    BY DEF HistoryTyped, Category
  <1> QED BY <1>1 DEF Current, currentVersion, Version

LEMMA PricesKept ==
    ASSUME NEW m, m = Current, HistoryKept(m), NEW d, NEW v \in 1..m
    PROVE  /\ PublishedPrices(d, v) \subseteq PublishedPrices(d, v)'
           /\ DirectPrices(d, v) \subseteq DirectPrices(d, v)'
           /\ \A fee : PriceIsPublished(d, v, fee) => PriceIsPublished(d, v, fee)'
  <1> DEFINE fares == {FareAt(d.routeId, u) : u \in v..m}
             later == {FareAt(d.routeId, u)' : u \in v..Current'}
  <1>1. v \in Nat /\ m \in Nat /\ Current' \in Nat /\ m <= Current' /\ v >= 1
    BY DEF HistoryKept
  <1>2. fares \subseteq later
    <2> SUFFICES ASSUME NEW u \in v..m PROVE FareAt(d.routeId, u) \in later
      OBVIOUS
    <2>1. u \in v..Current' /\ u \in 1..m
      BY <1>1
    <2>2. FareAt(d.routeId, u)' = FareAt(d.routeId, u)
      BY <2>1 DEF HistoryKept
    <2> QED BY <2>1, <2>2
  <1>3. RuleAt(d.task, v)' = RuleAt(d.task, v)
    BY DEF HistoryKept
  <1>4. /\ fares = {FareAt(d.routeId, u) : u \in v..currentVersion("PRICING")}
        /\ later = {FareAt(d.routeId, u)' : u \in v..currentVersion("PRICING")'}
    BY DEF Current
  <1> HIDE DEF fares, later
  <1>5. PublishedPrices(d, v) \subseteq PublishedPrices(d, v)'
    <2>1. CASE d.carpool
      BY <1>2, <1>4, <2>1 DEF PublishedPrices
    <2>2. CASE ~d.carpool /\ IsParcel(d, RuleAt(d.task, v))
      BY <1>3, <2>2 DEF PublishedPrices, IsParcel
    <2>3. CASE ~d.carpool /\ ~IsParcel(d, RuleAt(d.task, v))
      BY <1>2, <1>3, <1>4, <2>3 DEF PublishedPrices, IsParcel
    <2> QED BY <2>1, <2>2, <2>3
  <1>6. DirectPrices(d, v) \subseteq DirectPrices(d, v)'
    BY <1>3, <1>5 DEF DirectPrices, KilometreMore
  <1>7. 1..m \subseteq 1..Current'
    BY <1>1
  <1> QED BY <1>5, <1>6, <1>7 DEF PriceIsPublished

LEMMA HoldsKept ==
    ASSUME NEW m, m = Current, HistoryKept(m), edits' = 0 => edits = 0,
           NEW r, Asked(r), Holds(r),
           \A q \in Quotes : quote[q] # None => quote'[q] # None
    PROVE  Holds(r)'
  <1>1. 1..m \subseteq 1..Current'
    BY DEF HistoryKept
  <1>2. Is(r, "create", "consume") => quote'[r.quote] # None
    BY DEF Holds, Asked
  <1>3. ASSUME edits' = 0, Is(r, "quote", "area") \/ Is(r, "quote", "route")
        PROVE  /\ r.rule.version \in 1..Current'
               /\ r.dto.task # "moving_handling" =>
                    r.rule = RuleAt(r.dto.task, r.rule.version)'
    <2>1. r.rule.version \in 1..m
      BY <1>3 DEF Holds
    <2>2. RuleAt(r.dto.task, r.rule.version)' = RuleAt(r.dto.task, r.rule.version)
      BY <2>1 DEF HistoryKept
    <2> QED BY <1>1, <1>3, <2>1, <2>2 DEF Holds
  <1>4. ASSUME edits' = 0, Is(r, "quote", "save")
        PROVE  PriceIsPublished(r.dto, r.rule.version, r.price.total)'
    <2>1. PriceIsPublished(r.dto, r.rule.version, r.price.total)
      BY <1>4 DEF Holds
    <2>2. r.rule.version \in 1..m
      BY <2>1 DEF PriceIsPublished
    <2> QED BY <2>1, <2>2, PricesKept
  <1>5. ASSUME edits' = 0, Is(r, "quoteHandling", "save")
        PROVE  PriceIsPublished(r.dto, r.rule.version, 0)'
    <2>1. PriceIsPublished(r.dto, r.rule.version, 0)
      BY <1>5 DEF Holds
    <2>2. r.rule.version \in 1..m
      BY <2>1 DEF PriceIsPublished
    <2> QED BY <2>1, <2>2, PricesKept
  <1>6. ASSUME edits' = 0, Is(r, "create", "distance") \/ Is(r, "create", "write")
        PROVE  \E v \in 1..Current' :
                 r.input = serverPricingInput(r.dto.task, RuleAt(r.dto.task, v)',
                                              RuleAt(r.dto.task, v)'.enabled)
    <2>1. PICK v \in 1..m :
            r.input = serverPricingInput(r.dto.task, RuleAt(r.dto.task, v),
                                         RuleAt(r.dto.task, v).enabled)
      BY <1>6 DEF Holds
    <2>2. RuleAt(r.dto.task, v)' = RuleAt(r.dto.task, v)
      BY <2>1 DEF HistoryKept
    <2> QED BY <1>1, <2>1, <2>2
  <1> QED BY <1>2, <1>3, <1>4, <1>5, <1>6 DEF Holds

LEMMA RequestsKept ==
    ASSUME NEW m, m = Current, HistoryKept(m), edits' = 0 => edits = 0,
           \A q \in Quotes : quote[q] # None => quote'[q] # None,
           RequestsHold
    PROVE  /\ req' = req => RequestsHold'
           /\ \A w \in Workers : \A r :
                req' = [req EXCEPT ![w] = r] /\ Asked(r) /\ Holds(r)'
                  => RequestsHold'
  <1>1. \A w \in Workers : Asked(req[w]) /\ Holds(req[w])
    BY DEF RequestsHold
  <1>2. ASSUME NEW w \in Workers PROVE Holds(req[w])' \/ req'[w] # req[w]
    <2>1. PICK r : r = req[w]
      OBVIOUS
    <2>2. Holds(r)'
      BY <1>1, <2>1, HoldsKept
    <2> SUFFICES ASSUME req'[w] = req[w] PROVE Holds(req[w])'
      OBVIOUS
    <2>3. req'[w] = r
      BY <2>1
    <2> QED BY <2>2, <2>3 DEF Holds
  <1>3. req' = req => RequestsHold'
    BY <1>1, <1>2 DEF RequestsHold
  <1>4. ASSUME NEW w \in Workers, NEW r, req' = [req EXCEPT ![w] = r],
               Asked(r), Holds(r)'
        PROVE  RequestsHold'
    <2>1. DOMAIN req' = Workers /\ req'[w] = r
      BY <1>4 DEF RequestsHold
    <2>2. ASSUME NEW u \in Workers PROVE Asked(req'[u]) /\ Holds(req[u])'
      <3>1. CASE u = w
        <4>1. req'[u] = r
          BY <2>1, <3>1
        <4> QED BY <1>4, <4>1 DEF Holds
      <3>2. CASE u # w
        <4>1. req'[u] = req[u]
          BY <1>4, <3>2 DEF RequestsHold
        <4> QED BY <1>1, <1>2, <4>1
      <3> QED BY <3>1, <3>2
    <2> QED BY <2>1, <2>2 DEF RequestsHold
  <1> QED BY <1>3, <1>4

(* A step that moves one request and writes no table.                       *)
LEMMA OnlyARequest ==
    ASSUME IInv, UNCHANGED <<configTables, edits, quote, placed>>,
           NEW w \in Workers, NEW r, req' = [req EXCEPT ![w] = r],
           Asked(r), Holds(r)
    PROVE  IInv'
  <1>1. PICK m : m = Current
    OBVIOUS
  <1>2. /\ Current' = Current /\ \A s, v : RuleAt(s, v)' = RuleAt(s, v)
        /\ \A t, v : FareAt(t, v)' = FareAt(t, v)
    BY HistoryStays DEF configTables
  <1>3. HistoryKept(m)
    BY <1>1, <1>2, CurrentNat DEF HistoryKept, IInv
  <1>4. Holds(r)'
    BY <1>1, <1>3, HoldsKept
  <1>5. RequestsHold'
    BY <1>1, <1>3, <1>4, RequestsKept DEF IInv
  <1>6. TablesTyped' /\ HistoryTyped' /\ OrdersTyped'
    BY DEF IInv, TablesTyped, HistoryTyped, OrdersTyped, configTables
  <1>7. UsedOnce'
    BY DEF IInv, UsedOnce, OrdersOf
  <1>8. \A s : Last(s)' = Last(s)
    BY <1>2 DEF Last
  <1>9. LastIsItsOwn'
    BY <1>2, <1>8 DEF IInv, LastIsItsOwn
  <1>10. RulesFollow' /\ FaresFollow'
    BY <1>2, <1>8 DEF IInv, RulesFollow, FaresFollow, configTables
  <1>11. RulesUnedited' /\ QuotesPriced' /\ DirectPriced'
    <2>1. \A d, v : PublishedPrices(d, v)' = PublishedPrices(d, v)
      BY <1>2 DEF PublishedPrices, Current
    <2>2. \A d, v, fee : PriceIsPublished(d, v, fee)' <=> PriceIsPublished(d, v, fee)
      BY <1>2, <2>1 DEF PriceIsPublished
    <2>3. \A d, v : DirectPrices(d, v)' = DirectPrices(d, v)
      BY <1>2, <2>1 DEF DirectPrices, KilometreMore
    <2> QED BY <1>2, <1>8, <2>2, <2>3 DEF IInv, RulesUnedited, QuotesPriced, DirectPriced, configTables
  <1> QED BY <1>5, <1>6, <1>7, <1>9, <1>10, <1>11 DEF IInv

(* A request that holds nothing.                                            *)
LEMMA IdleHolds == Asked(Idle) /\ Holds(Idle)
  BY DEF Asked, Holds, Is, Idle

LEMMA OperatorReads ==
    ASSUME IInv, NEW w \in Workers, NEW c \in Category,
           \/ PublishRead(w, c)
           \/ \E p \in Payloads[c], base \in 1..currentVersion(c) :
                SaveDraftRead(w, c, base, p),
           UNCHANGED orderVars
    PROVE  IInv'
  <1>0. UNCHANGED <<configTables, edits, quote, placed>>
    BY DEF PublishRead, SaveDraftRead, configVars, orderVars
  <1>1. CASE PublishRead(w, c)
    <2> DEFINE r == [op |-> "publish", pc |-> "version", cat |-> c,
                     base |-> draft[c].base, payload |-> draft[c].payload]
    <2>1. draft[c].base \in Nat /\ Checked(c, draft[c].payload)
      BY <1>1 DEF PublishRead, IInv, HistoryTyped, Checked
    <2>2. Asked(r) /\ Holds(r)
      BY <2>1 DEF Asked, Holds, Is
    <2>3. req' = [req EXCEPT ![w] = r]
      BY <1>1 DEF PublishRead, Begin
    <2> QED BY <1>0, <2>2, <2>3, OnlyARequest
  <1>2. ASSUME NEW p \in Payloads[c], NEW base \in 1..currentVersion(c),
               SaveDraftRead(w, c, base, p)
        PROVE  IInv'
    <2> DEFINE r == [op |-> "saveDraft", pc |-> "write", cat |-> c,
                     base |-> base, payload |-> p]
    <2>1. base \in Nat /\ Checked(c, p)
      BY <1>2 DEF SaveDraftRead, Checked
    <2>2. Asked(r) /\ Holds(r)
      BY <2>1 DEF Asked, Holds, Is
    <2>3. req' = [req EXCEPT ![w] = r]
      BY <1>2 DEF SaveDraftRead, Begin
    <2> QED BY <1>0, <2>2, <2>3, OnlyARequest
  <1> QED BY <1>1, <1>2

LEMMA PublishChecks ==
    ASSUME IInv, NEW w \in Workers, PublishCheck(w), UNCHANGED orderVars
    PROVE  IInv'
  <1>0. UNCHANGED <<configTables, edits, quote, placed>>
    BY DEF PublishCheck, configVars, orderVars
  <1> DEFINE c == req[w].cat
             r == [op |-> "publish", pc |-> "tx", cat |-> c,
                   base |-> req[w].base, payload |-> req[w].payload,
                   next |-> currentVersion(c) + 1]
  <1>1. /\ c \in Category /\ req[w].base \in Nat /\ Checked(c, req[w].payload)
        /\ req[w].base = currentVersion(c)
    BY DEF PublishCheck, At, DraftIsCurrent, IInv, RequestsHold, Asked, Is
  <1>2. Asked(r) /\ Holds(r)
    BY <1>1 DEF Asked, Holds, Is
  <1>3. req' = [req EXCEPT ![w] = r]
    BY DEF PublishCheck, Goto
  <1> QED BY <1>0, <1>2, <1>3, OnlyARequest

LEMMA Dropped ==
    ASSUME IInv, NEW w \in Workers, DropRequest(w), UNCHANGED orderVars
    PROVE  IInv'
  <1>1. UNCHANGED <<configTables, edits, quote, placed>>
        /\ req' = [req EXCEPT ![w] = Idle]
    BY DEF DropRequest, Finish, Goto, configVars, orderVars
  <1> QED BY <1>1, IdleHolds, OnlyARequest

----------------------------------------------------------------------------
(* Customers' requests up to the row they write.                            *)

LEMMA FoundRow ==
    ASSUME IInv, NEW d \in Wanted
    PROVE  /\ FoundRoute(d) \in RouteRow \cup {None}
           /\ FoundRoute(d) # None =>
                /\ d.routeId \in Routes
                /\ FoundRoute(d) = route[d.routeId]
                /\ FoundRoute(d).service = RouteService(d)
                /\ RouteService(d) = "carpool_ride" =>
                     FoundRoute(d).unit = FareAt(d.routeId, Current)
  <1>1. CASE d.routeId \in EnabledRoutesFor(RouteService(d))
    <2>1. /\ d.routeId \in Routes /\ route[d.routeId] # None
          /\ route[d.routeId].service = RouteService(d)
          /\ FoundRoute(d) = route[d.routeId]
      BY <1>1 DEF EnabledRoutesFor, RoutesFor, FoundRoute
    <2>2. route[d.routeId] \in RouteRow
      BY <2>1 DEF IInv, TablesTyped
    <2> QED BY <2>1, <2>2 DEF IInv, FaresFollow
  <1>2. CASE d.routeId \notin EnabledRoutesFor(RouteService(d))
    BY <1>2 DEF FoundRoute
  <1> QED BY <1>1, <1>2

LEMMA QuotedIsPublished ==
    ASSUME IInv, NEW d \in Wanted, NEW r \in RuleRow, OfItsKind(d.task, r),
           r.version \in 1..Current,
           d.task # "moving_handling" => r = RuleAt(d.task, r.version),
           NEW found, found = FoundRoute(d), RouteAccepted(d, r, found),
           NEW price \in QuotedPrice(d, r, found)
    PROVE  price.total \in PublishedPrices(d, r.version)
  <1> DEFINE v == r.version
             fares == {FareAt(d.routeId, u) : u \in v..Current}
             fare  == FareAt(d.routeId, Current)
  <1>1. v \in Nat /\ Current \in Nat /\ fare \in fares
    BY CurrentNat DEF IInv
  <1>2. fares = {FareAt(d.routeId, u) : u \in v..currentVersion("PRICING")}
    BY DEF Current
  <1>3. d \in PricingQuoteDto /\ (d.carpool => d.task = "send_parcel")
        /\ d.task \in SERVICE_IDS
    BY WantedAssumption, ConfigAssumption DEF PricingQuoteDto
  <1>4. OfItsKind("moving_handling", RuleAt("moving_handling", v))
    BY RuleAtTyped DEF IInv, SERVICE_IDS
  <1>5. found # None => /\ found.service = RouteService(d)
                        /\ found \in RouteRow
                        /\ RouteService(d) = "carpool_ride" => found.unit = fare
    BY FoundRow
  <1>6. found # None => found.service \in {"carpool_ride", "send_parcel"}
    BY FoundRow DEF IInv, FaresFollow
  <1> HIDE DEF fares, v
  <1>7. CASE d.carpool
    <2>1. found # None /\ price = RidePrice(d, found)
      BY <1>7 DEF RouteAccepted, QuotedPrice
    <2>2. price.total = fare * d.passengers
      BY <1>5, <1>7, <2>1 DEF RidePrice, RouteService
    <2> QED BY <1>1, <1>2, <1>7, <2>2 DEF PublishedPrices, v
  <1>8. CASE ~d.carpool /\ d.task = "moving_handling"
    <2>1. ~IsParcel(d, r) /\ ~IsParcel(d, RuleAt(d.task, v))
      BY <1>4, <1>8 DEF IsParcel, OfItsKind
    <2>2. price = LabourPrice
      BY <1>8, <2>1 DEF QuotedPrice
    <2>3. PublishedPrices(d, v) = {0}
      BY <1>8, <2>1 DEF PublishedPrices
    <2> QED BY <2>2, <2>3 DEF LabourPrice, v
  <1>9. CASE /\ ~d.carpool /\ d.task # "moving_handling"
             /\ IsParcel(d, r)
    <2>1. price = ParcelPrice(d, r) /\ r = RuleAt(d.task, v)
      BY <1>9 DEF QuotedPrice, v
    <2>2. PublishedPrices(d, v) = {ParcelEntry(d, r).price}
      BY <1>9, <2>1 DEF PublishedPrices
    <2> QED BY <2>1, <2>2 DEF ParcelPrice, v
  <1>10. CASE /\ ~d.carpool /\ d.task # "moving_handling"
              /\ ~IsParcel(d, r) /\ found # None
    <2>1. price = LinePrice(d, found) /\ r = RuleAt(d.task, v)
      BY <1>10 DEF QuotedPrice, v
    <2>2. d.task = "carpool_ride" /\ found.unit = fare
      BY <1>5, <1>6, <1>10 DEF RouteService, IsParcel
    <2>3. PublishedPrices(d, v) = fares \cup {f * d.passengers : f \in fares}
      BY <1>2, <1>10, <2>1, <2>2 DEF PublishedPrices
    <2>4. price.total = fare * (IF found.perPerson THEN d.passengers ELSE 1)
      BY <2>1, <2>2 DEF LinePrice
    <2>5. CASE found.perPerson
      BY <1>1, <2>3, <2>4, <2>5 DEF v
    <2>6. CASE ~found.perPerson
      <3>1. fare * 1 = fare
        BY <1>5, <1>10, <2>2 DEF RouteRow
      <3> QED BY <1>1, <2>3, <2>4, <2>6, <3>1 DEF v
    <2> QED BY <2>5, <2>6
  <1>11. CASE /\ ~d.carpool /\ d.task # "moving_handling"
              /\ ~IsParcel(d, r) /\ found = None
    <2>1. PICK bad \in BOOLEAN : price = DistancePrice(d, r, bad)
      BY <1>11 DEF QuotedPrice
    <2>2. r = RuleAt(d.task, v) /\ r.mode # "fixed_route"
      BY <1>11 DEF RouteAccepted, v
    <2>3. d.task # "carpool_ride"
      BY <2>2 DEF OfItsKind
    <2>4. PublishedPrices(d, v)
            = {QuoteTotal(d.task, r, Distance[d.pickup, d.dropoff], b, d.product) :
                 b \in BOOLEAN}
      BY <1>11, <2>2, <2>3 DEF PublishedPrices
    <2> QED BY <2>1, <2>4 DEF DistancePrice, v
  <1> QED BY <1>7, <1>8, <1>9, <1>10, <1>11

LEMMA RuleRead ==
    ASSUME IInv, NEW d \in Wanted
    PROVE  /\ rule[d.task] \in RuleRow /\ OfItsKind(d.task, rule[d.task])
           /\ d.task \in Services
           /\ edits = 0 =>
                /\ rule[d.task].version \in 1..Current
                /\ d.task # "moving_handling" =>
                     rule[d.task] = RuleAt(d.task, rule[d.task].version)
  <1>1. d.task \in Services
    BY WantedAssumption DEF PricingQuoteDto
  <1>2. rule[d.task] \in RuleRow /\ OfItsKind(d.task, rule[d.task])
    BY <1>1 DEF IInv, TablesTyped
  <1>3. ASSUME edits = 0 PROVE rule[d.task].version \in 1..Current
    BY <1>1, <1>3 DEF IInv, RulesUnedited
  <1>4. ASSUME edits = 0, d.task # "moving_handling"
        PROVE  rule[d.task] = RuleAt(d.task, rule[d.task].version)
    <2>1. rule[d.task] = Last(d.task)
      BY <1>1, <1>4 DEF IInv, RulesUnedited
    <2>2. RuleAt(d.task, Last(d.task).version) = Last(d.task)
      BY <1>1 DEF IInv, LastIsItsOwn
    <2> QED BY <2>1, <2>2
  <1> QED BY <1>1, <1>2, <1>3, <1>4

LEMMA QuoteReads ==
    ASSUME IInv, NEW w \in Workers,
           \/ \E d \in Wanted : QuoteOpen(w, d)
           \/ QuoteReadRule(w) \/ QuoteCheckArea(w)
    PROVE  IInv'
  <1>0. UNCHANGED <<configTables, edits, quote, placed>>
    BY DEF QuoteOpen, QuoteReadRule, QuoteCheckArea, configVars, orderVars
  <1>1. ASSUME NEW d \in Wanted, QuoteOpen(w, d) PROVE IInv'
    <2> DEFINE r == [op |-> "quote", pc |-> "rule", dto |-> d]
    <2>1. Asked(r) /\ Holds(r)
      BY DEF Asked, Holds, Is
    <2>2. req' = [req EXCEPT ![w] = r]
      BY <1>1 DEF QuoteOpen, Begin
    <2> QED BY <1>0, <2>1, <2>2, OnlyARequest
  <1>2. CASE QuoteReadRule(w)
    <2> DEFINE d == req[w].dto
               r == [op |-> "quote", pc |-> "area", dto |-> d,
                     rule |-> rule[d.task]]
    <2>1. d \in Wanted
      BY <1>2 DEF QuoteReadRule, At, IInv, RequestsHold, Asked, Is
    <2>2. req' = [req EXCEPT ![w] = r]
      BY <1>2 DEF QuoteReadRule, Goto
    <2> HIDE DEF d
    <2>3. Asked(r)
      BY <2>1, RuleRead DEF Asked, Is, RuleTaken
    <2>4. Holds(r)
      BY <2>1, RuleRead DEF Holds, Is
    <2> QED BY <1>0, <2>2, <2>3, <2>4, OnlyARequest
  <1>3. CASE QuoteCheckArea(w)
    <2>1. PICK r0 : r0 = req[w]
      OBVIOUS
    <2>2. Asked(r0) /\ Holds(r0) /\ Is(r0, "quote", "area")
      BY <1>3, <2>1 DEF QuoteCheckArea, At, IInv, RequestsHold, Is
    <2>3. r0 \in RuleTaken /\ OfItsKind(r0.dto.task, r0.rule)
      BY <2>2 DEF Asked
    <2> DEFINE r == [r0 EXCEPT !.pc = "route"]
    <2>4. r \in RuleTaken /\ r.op = "quote" /\ r.pc = "route"
          /\ r.dto = r0.dto /\ r.rule = r0.rule
      BY <2>3 DEF RuleTaken
    <2>5. req' = [req EXCEPT ![w] = r]
      BY <1>3, <2>1 DEF QuoteCheckArea, Goto
    <2> HIDE DEF r
    <2>6. Asked(r)
      BY <2>3, <2>4 DEF Asked, Is
    <2>7. Holds(r)
      BY <2>2, <2>4 DEF Holds, Is
    <2> QED BY <1>0, <2>5, <2>6, <2>7, OnlyARequest
  <1> QED BY <1>1, <1>2, <1>3

LEMMA QuotePrices ==
    ASSUME IInv, NEW w \in Workers, QuoteReadRoute(w)
    PROVE  IInv'
  <1>0. UNCHANGED <<configTables, edits, quote, placed>>
    BY DEF QuoteReadRoute, configVars, orderVars
  <1>1. PICK d, row : d = req[w].dto /\ row = req[w].rule
    OBVIOUS
  <1>2. /\ Asked(req[w]) /\ Holds(req[w]) /\ Is(req[w], "quote", "route")
        /\ RouteAccepted(d, row, FoundRoute(d))
    BY <1>1 DEF QuoteReadRoute, At, IInv, RequestsHold, Is
  <1>3. /\ d \in Wanted /\ row \in RuleRow /\ OfItsKind(d.task, row)
    BY <1>1, <1>2 DEF Asked, RuleTaken
  <1>4. edits = 0 =>
          /\ row.version \in 1..Current
          /\ d.task # "moving_handling" => row = RuleAt(d.task, row.version)
    BY <1>1, <1>2 DEF Holds
  <1>5. PICK price \in QuotedPrice(d, row, FoundRoute(d)) :
          req' = [req EXCEPT ![w] = [op |-> "quote", pc |-> "save", dto |-> d,
                                     rule |-> row, price |-> price]]
    BY <1>1 DEF QuoteReadRoute, Goto
  <1>6. price \in Price
    <2>1. d \in PricingQuoteDto
      BY <1>3, WantedAssumption
    <2> QED BY <1>2, <1>3, <2>1, FoundRow, QuotedPriceTyped
  <1>7. edits = 0 => PriceIsPublished(d, row.version, price.total)
    BY <1>2, <1>3, <1>4, QuotedIsPublished DEF PriceIsPublished
  <1> DEFINE r == [op |-> "quote", pc |-> "save", dto |-> d, rule |-> row,
                   price |-> price]
  <1>8. Asked(r) /\ Holds(r)
    BY <1>3, <1>6, <1>7 DEF Asked, Holds, Is
  <1> QED BY <1>0, <1>5, <1>8, OnlyARequest

LEMMA OlderQuotesRead ==
    ASSUME IInv, NEW w \in Workers, NEW d \in Wanted,
           QuoteCarpoolRead(w, d) \/ QuoteHandlingRead(w, d)
    PROVE  IInv'
  <1>0. UNCHANGED <<configTables, edits, quote, placed>>
    BY DEF QuoteCarpoolRead, QuoteHandlingRead, configVars, orderVars
  <1>1. CASE QuoteCarpoolRead(w, d)
    <2>1. PICK unit \in CarpoolRoutePrice(d.routeId) :
            req' = [req EXCEPT ![w] =
                      [op |-> "quoteCarpool", pc |-> "save", dto |-> d,
                       price |-> [unit |-> unit, total |-> unit * d.passengers]]]
      BY <1>1 DEF QuoteCarpoolRead, Begin
    <2>2. unit \in Nat
      <3>1. CASE d.routeId \in EnabledRoutesFor("carpool_ride")
        <4>1. d.routeId \in Routes /\ route[d.routeId] # None
          BY <3>1 DEF EnabledRoutesFor, RoutesFor
        <4>2. route[d.routeId].unit \in Nat
          BY <4>1 DEF IInv, TablesTyped, RouteRow
        <4> QED BY <2>1, <3>1, <4>2 DEF CarpoolRoutePrice
      <3>2. CASE d.routeId \notin EnabledRoutesFor("carpool_ride")
        BY <2>1, <3>2, DefaultRouteTyped DEF CarpoolRoutePrice, DEFAULT_SERVICE_ROUTES
      <3> QED BY <3>1, <3>2
    <2>3. d.passengers \in Nat /\ d.carpool
      BY <1>1, WantedAssumption DEF PricingQuoteDto, QuoteCarpoolRead
    <2>4. unit * d.passengers \in Nat
      BY <2>2, <2>3, ProductNat
    <2> DEFINE r == [op |-> "quoteCarpool", pc |-> "save", dto |-> d,
                     price |-> [unit |-> unit, total |-> unit * d.passengers]]
    <2>5. Asked(r) /\ Holds(r)
      BY <2>2, <2>3, <2>4 DEF Asked, Holds, Is, Price
    <2> QED BY <1>0, <2>1, <2>5, OnlyARequest
  <1>2. CASE QuoteHandlingRead(w, d)
    <2> DEFINE r == [op |-> "quoteHandling", pc |-> "save", dto |-> d,
                     rule |-> rule[d.task]]
    <2>1. req' = [req EXCEPT ![w] = r] /\ d.task = "moving_handling"
      BY <1>2 DEF QuoteHandlingRead, Begin
    <2>2. Asked(r)
      BY <2>1, RuleRead DEF Asked, Is
    <2>3. ASSUME edits = 0 PROVE PriceIsPublished(d, rule[d.task].version, 0)
      <3>1. PICK v : v = rule[d.task].version
        OBVIOUS
      <3>2. v \in 1..Current
        BY <2>3, <3>1, RuleRead
      <3>3. ~d.carpool /\ d.task \in SERVICE_IDS
        BY <2>1, WantedAssumption, ConfigAssumption DEF PricingQuoteDto
      <3>4. ~IsParcel(d, RuleAt(d.task, v))
        BY <2>1, <3>3, RuleAtTyped DEF IInv, OfItsKind, IsParcel
      <3>5. PublishedPrices(d, v) = {0}
        BY <2>1, <3>3, <3>4 DEF PublishedPrices
      <3> QED BY <3>1, <3>2, <3>5 DEF PriceIsPublished
    <2>4. Holds(r)
      BY <2>3 DEF Holds, Is
    <2> QED BY <1>0, <2>1, <2>2, <2>4, OnlyARequest
  <1> QED BY <1>1, <1>2

LEMMA CreateReads ==
    ASSUME IInv, NEW w \in Workers,
           \/ \E q \in Quotes : CreateFromQuoteRead(w, q)
           \/ \E d \in Wanted : CreateReadRule(w, d)
           \/ CreateReadDistance(w)
    PROVE  IInv'
  <1>0. UNCHANGED <<configTables, edits, quote, placed>>
    BY DEF CreateFromQuoteRead, CreateReadRule, CreateReadDistance, configVars,
           orderVars
  <1>1. ASSUME NEW q \in Quotes, CreateFromQuoteRead(w, q) PROVE IInv'
    <2> DEFINE r == [op |-> "create", pc |-> "consume", quote |-> q]
    <2>1. req' = [req EXCEPT ![w] = r] /\ quote[q] # None
      BY <1>1 DEF CreateFromQuoteRead, Begin
    <2>2. Asked(r) /\ Holds(r)
      BY <2>1 DEF Asked, Holds, Is
    <2> QED BY <1>0, <2>1, <2>2, OnlyARequest
  <1>2. ASSUME NEW d \in Wanted, CreateReadRule(w, d) PROVE IInv'
    <2> DEFINE input == serverPricingInput(d.task, rule[d.task],
                                           rule[d.task].enabled)
               r == [op |-> "create", pc |-> "distance", dto |-> d,
                     input |-> input]
    <2>1. req' = [req EXCEPT ![w] = r] /\ d.task \notin Quoted
      BY <1>2 DEF CreateReadRule, Begin, Quoted
    <2>2. rule[d.task] \in RuleRow
      BY RuleRead
    <2>3. input \in Input
      BY <2>2, PricingInputTyped DEF RuleRow
    <2>4. edits = 0 => \E v \in 1..Current :
            input = serverPricingInput(d.task, RuleAt(d.task, v),
                                       RuleAt(d.task, v).enabled)
      BY <2>1, RuleRead DEF Quoted
    <2> HIDE DEF input
    <2>5. Asked(r) /\ Holds(r)
      BY <2>1, <2>3, <2>4 DEF Asked, Holds, Is, WithInput
    <2> QED BY <1>0, <2>1, <2>5, OnlyARequest
  <1>3. CASE CreateReadDistance(w)
    <2>1. PICK r0 : r0 = req[w]
      OBVIOUS
    <2>2. Asked(r0) /\ Holds(r0) /\ Is(r0, "create", "distance")
      BY <1>3, <2>1 DEF CreateReadDistance, At, IInv, RequestsHold, Is
    <2>3. r0 \in WithInput /\ r0.dto.task \notin Quoted
      BY <2>2 DEF Asked
    <2> DEFINE r == [r0 EXCEPT !.pc = "write"]
    <2>4. r \in WithInput /\ r.op = "create" /\ r.pc = "write"
          /\ r.dto = r0.dto /\ r.input = r0.input
      BY <2>3 DEF WithInput
    <2>5. req' = [req EXCEPT ![w] = r] /\ {r0.dto.pickup, r0.dto.dropoff} \subseteq Places
      BY <1>3, <2>1, ConfigAssumption DEF CreateReadDistance, Goto
    <2> HIDE DEF r
    <2>6. Asked(r)
      BY <2>3, <2>4, <2>5 DEF Asked, Is
    <2>7. Holds(r)
      BY <2>2, <2>4 DEF Holds, Is
    <2> QED BY <1>0, <2>5, <2>6, <2>7, OnlyARequest
  <1> QED BY <1>1, <1>2, <1>3

----------------------------------------------------------------------------
(* Steps that write a table of the configuration.                           *)

LEMMA OrdersKept ==
    ASSUME IInv, NEW m, m = Current, HistoryKept(m), edits' = 0 => edits = 0,
           UNCHANGED <<quote, placed>>
    PROVE  OrdersTyped' /\ UsedOnce' /\ QuotesPriced' /\ DirectPriced'
  <1>1. OrdersTyped' /\ UsedOnce'
    BY DEF IInv, OrdersTyped, UsedOnce, OrdersOf
  <1>2. QuotesPriced'
    <2> SUFFICES ASSUME edits = 0, NEW q \in Quotes, quote[q] # None,
                        quote[q].task = quote[q].dto.task
                 PROVE  PriceIsPublished(quote[q].dto, quote[q].version,
                                         quote[q].total)'
      BY DEF QuotesPriced
    <2>1. PICK d, v, fee : d = quote[q].dto /\ v = quote[q].version
                           /\ fee = quote[q].total
      OBVIOUS
    <2>2. PriceIsPublished(d, v, fee) /\ v \in 1..m
      BY <2>1 DEF IInv, QuotesPriced, PriceIsPublished
    <2>3. PriceIsPublished(d, v, fee)'
      BY <2>2, PricesKept
    <2> QED BY <2>1, <2>3
  <1>3. DirectPriced'
    <2> SUFFICES ASSUME edits = 0, NEW i \in DOMAIN placed,
                        placed[i].quote = None, placed[i].task # "pedicab_delivery"
                 PROVE  /\ placed[i].task = placed[i].dto.task
                        /\ \E v \in 1..Current' :
                             placed[i].fee \in DirectPrices(placed[i].dto, v)'
      BY DEF DirectPriced
    <2>1. PICK d : d = placed[i].dto
      OBVIOUS
    <2>2. placed[i].task = d.task
          /\ \E v \in 1..m : placed[i].fee \in DirectPrices(d, v)
      BY <2>1 DEF IInv, DirectPriced
    <2>3. PICK v \in 1..m : placed[i].fee \in DirectPrices(d, v)
      BY <2>2
    <2>4. placed[i].fee \in DirectPrices(d, v)' /\ v \in 1..Current'
      BY <2>3, PricesKept DEF HistoryKept
    <2>5. DirectPrices(placed[i].dto, v)' = DirectPrices(d, v)'
      BY <2>1
    <2> QED BY <2>1, <2>2, <2>4, <2>5
  <1> QED BY <1>1, <1>2, <1>3

(* While no pricing revision is added, what the last one says stays.        *)
LEMMA WithoutARevision ==
    ASSUME IInv, revisions'["PRICING"] = revisions["PRICING"],
           NEW m, m = Current
    PROVE  /\ HistoryKept(m) /\ Current' = m
           /\ \A s : Last(s)' = Last(s)
           /\ \A r : FareAt(r, m)' = FareAt(r, m)
           /\ LastIsItsOwn'
  <1>1. /\ Current' = Current /\ \A s, v : RuleAt(s, v)' = RuleAt(s, v)
        /\ \A t, v : FareAt(t, v)' = FareAt(t, v)
    BY HistoryStays
  <1>2. HistoryKept(m)
    BY <1>1, CurrentNat DEF HistoryKept, IInv
  <1>3. \A s : Last(s)' = Last(s)
    BY <1>1 DEF Last
  <1>4. LastIsItsOwn'
    BY <1>1, <1>3 DEF IInv, LastIsItsOwn
  <1> QED BY <1>1, <1>2, <1>3, <1>4

LEMMA RowsKept ==
    ASSUME IInv, revisions'["PRICING"] = revisions["PRICING"],
           UNCHANGED <<rule, route>>, edits' = 0 => edits = 0
    PROVE  RulesFollow' /\ FaresFollow' /\ RulesUnedited'
  <1>1. PICK m : m = Current
    OBVIOUS
  <1>2. /\ Current' = m /\ \A s : Last(s)' = Last(s)
        /\ \A r : FareAt(r, m)' = FareAt(r, m)
    BY <1>1, WithoutARevision
  <1>3. RulesFollow'
    BY <1>2 DEF IInv, RulesFollow
  <1>4. FaresFollow'
    <2>1. \A r : FareAt(r, Current)' = FareAt(r, m)
      BY <1>1, <1>2, HistoryStays
    <2> QED BY <1>1, <2>1 DEF IInv, FaresFollow
  <1>5. RulesUnedited'
    BY <1>1, <1>2 DEF IInv, RulesUnedited
  <1> QED BY <1>3, <1>4, <1>5

LEMMA SaveDraftWrites ==
    ASSUME IInv, NEW w \in Workers, SaveDraftWrite(w), UNCHANGED orderVars
    PROVE  IInv'
  <1>1. PICK m : m = Current
    OBVIOUS
  <1>2. /\ UNCHANGED <<rule, route, catalog, revisions, edits, quote, placed>>
        /\ req' = [req EXCEPT ![w] = Idle]
    BY DEF SaveDraftWrite, Finish, Goto, orderVars
  <1>3. HistoryKept(m) /\ LastIsItsOwn'
    BY <1>1, <1>2, WithoutARevision
  <1>4. RulesFollow' /\ FaresFollow' /\ RulesUnedited'
    BY <1>2, RowsKept
  <1>5. OrdersTyped' /\ UsedOnce' /\ QuotesPriced' /\ DirectPriced'
    BY <1>1, <1>2, <1>3, OrdersKept
  <1>6. TablesTyped'
    BY <1>2 DEF IInv, TablesTyped
  <1>7. HistoryTyped'
    <2>1. PICK c, base, payload :
            c = req[w].cat /\ base = req[w].base /\ payload = req[w].payload
      OBVIOUS
    <2>2. c \in Category /\ base \in Nat /\ Checked(c, payload)
      BY <2>1 DEF SaveDraftWrite, At, IInv, RequestsHold, Asked, Is
    <2>3. draft' = [draft EXCEPT ![c] = [base |-> base, payload |-> payload]]
      BY <2>1 DEF SaveDraftWrite
    <2> QED BY <1>2, <2>2, <2>3 DEF IInv, HistoryTyped, Checked
  <1>8. RequestsHold'
    <2>1. Asked(Idle) /\ Holds(Idle)'
      BY DEF Asked, Holds, Is, Idle
    <2> QED BY <1>1, <1>2, <1>3, <2>1, RequestsKept DEF IInv
  <1> QED BY <1>3, <1>4, <1>5, <1>6, <1>7, <1>8 DEF IInv

LEMMA UpdatesService ==
    ASSUME IInv, NEW s \in Services, NEW enabled \in BOOLEAN,
           UpdateService(s, enabled), UNCHANGED orderVars
    PROVE  IInv'
  <1>1. PICK m : m = Current
    OBVIOUS
  <1>2. /\ UNCHANGED <<rule, route, revisions, draft, quote, placed, req>>
        /\ edits' = edits + 1 /\ edits \in Nat
        /\ catalog' = [catalog EXCEPT ![s] = enabled]
    BY DEF UpdateService, orderVars, IInv, TablesTyped
  <1>3. HistoryKept(m) /\ LastIsItsOwn'
    BY <1>1, <1>2, WithoutARevision
  <1>4. RulesFollow' /\ FaresFollow' /\ RulesUnedited'
    BY <1>2, RowsKept
  <1>5. OrdersTyped' /\ UsedOnce' /\ QuotesPriced' /\ DirectPriced'
    BY <1>1, <1>2, <1>3, OrdersKept
  <1>6. TablesTyped' /\ HistoryTyped'
    BY <1>2 DEF IInv, TablesTyped, HistoryTyped
  <1>7. RequestsHold'
    BY <1>1, <1>2, <1>3, RequestsKept DEF IInv
  <1> QED BY <1>3, <1>4, <1>5, <1>6, <1>7 DEF IInv

LEMMA ClockTurning ==
    ASSUME IInv, ClockTurns, UNCHANGED orderVars
    PROVE  IInv'
  <1>1. PICK m : m = Current
    OBVIOUS
  <1>2. UNCHANGED <<rule, route, catalog, revisions, draft, edits, quote, placed,
                    req>>
    BY DEF ClockTurns, configTables, orderVars
  <1>3. HistoryKept(m) /\ LastIsItsOwn'
    BY <1>1, <1>2, WithoutARevision
  <1>4. RulesFollow' /\ FaresFollow' /\ RulesUnedited'
    BY <1>2, RowsKept
  <1>5. OrdersTyped' /\ UsedOnce' /\ QuotesPriced' /\ DirectPriced'
    BY <1>1, <1>2, <1>3, OrdersKept
  <1>6. TablesTyped' /\ HistoryTyped'
    BY <1>2 DEF IInv, TablesTyped, HistoryTyped
  <1>7. RequestsHold'
    BY <1>1, <1>2, <1>3, RequestsKept DEF IInv
  <1> QED BY <1>3, <1>4, <1>5, <1>6, <1>7 DEF IInv

LEMMA UnpricedRow ==
    ASSUME NEW old \in RuleRow, NEW row,
           row = [old EXCEPT !.mode = "manual_quote", !.base = 0]
    PROVE  /\ row \in RuleRow /\ row.mode = "manual_quote"
           /\ row.version = old.version
  <1>1. row = [mode |-> "manual_quote", base |-> 0, perKm |-> old.perKm,
               weather |-> old.weather, included |-> old.included,
               max |-> old.max, parcel |-> old.parcel, enabled |-> old.enabled,
               version |-> old.version]
    BY DEF RuleRow
  <1>2. /\ "manual_quote" \in PRICING_MODES /\ old.weather \in Nat
        /\ old.parcel \in Matrices /\ old.enabled \in BOOLEAN
        /\ old.perKm \in Nat /\ old.included \in Nat /\ old.max \in Int
        /\ old.version \in Nat
    BY DEF RuleRow, PRICING_MODES
  <1> QED BY <1>1, <1>2 DEF RuleRow

LEMMA UpdatesPricing ==
    ASSUME IInv, NEW s \in Services, NEW e \in Edits, UpdatePricing(s, e),
           UNCHANGED orderVars
    PROVE  IInv'
  <1>1. PICK m : m = Current
    OBVIOUS
  <1> DEFINE row == [rule[s] EXCEPT !.base = e.base, !.perKm = e.perKm,
                                    !.max = e.max, !.included = e.included,
                                    !.version = rule[s].version + 1]
  <1>2. /\ UNCHANGED <<route, catalog, revisions, draft, quote, placed, req>>
        /\ edits' = edits + 1 /\ edits \in Nat
        /\ rule' = [rule EXCEPT ![s] = row]
    BY DEF UpdatePricing, orderVars, IInv, TablesTyped
  <1>3. /\ HistoryKept(m) /\ LastIsItsOwn' /\ Current' = m
        /\ \A t : Last(t)' = Last(t)
        /\ \A r : FareAt(r, m)' = FareAt(r, m)
    BY <1>1, <1>2, WithoutARevision
  <1>4. rule[s] \in RuleRow /\ OfItsKind(s, rule[s])
    BY DEF IInv, TablesTyped
  <1>5. /\ e.base \in Nat /\ e.perKm \in Nat /\ e.max \in Nat
        /\ e.included \in Nat
    BY PayloadAssumption
  <1>6. row \in RuleRow /\ row.mode = rule[s].mode
        /\ row.version = rule[s].version + 1
    <2>1. rule[s].version + 1 \in Nat
      BY <1>4 DEF RuleRow
    <2>2. PICK old \in RuleRow, base \in Nat, perKm \in Nat, max \in Nat,
               included \in Nat, version \in Nat :
            /\ old = rule[s] /\ base = e.base /\ perKm = e.perKm /\ max = e.max
            /\ included = e.included /\ version = rule[s].version + 1
      BY <1>4, <1>5, <2>1
    <2>3. row = [old EXCEPT !.base = base, !.perKm = perKm, !.max = max,
                            !.included = included, !.version = version]
      BY <2>2
    <2> HIDE DEF row
    <2>4. row = [mode |-> old.mode, base |-> base, perKm |-> perKm,
                 weather |-> old.weather, included |-> included, max |-> max,
                 parcel |-> old.parcel, enabled |-> old.enabled,
                 version |-> version]
      BY <2>3 DEF RuleRow
    <2>5. /\ old.mode \in PRICING_MODES /\ old.weather \in Nat
          /\ old.parcel \in Matrices /\ old.enabled \in BOOLEAN
      BY DEF RuleRow
    <2>6. row \in RuleRow /\ row.mode = old.mode /\ row.version = version
      BY <2>4, <2>5 DEF RuleRow
    <2> QED BY <2>2, <2>6
  <1> HIDE DEF row
  <1>7. /\ rule \in [Services -> RuleRow]
        /\ \A t \in Services : rule'[t] = IF t = s THEN row ELSE rule[t]
    BY <1>2 DEF IInv, TablesTyped
  <1>8. TablesTyped'
    <2>1. \A t \in Services : rule'[t] \in RuleRow /\ OfItsKind(t, rule'[t])
      BY <1>4, <1>6, <1>7 DEF IInv, TablesTyped, OfItsKind
    <2> QED BY <1>2, <2>1 DEF IInv, TablesTyped
  <1>9. HistoryTyped'
    BY <1>2 DEF IInv, HistoryTyped
  <1>10. RulesFollow'
    <2> SUFFICES ASSUME NEW t \in Services \ {"moving_handling"}
                 PROVE  /\ rule'[t].version >= Last(t)'.version
                        /\ rule'[t].version = Last(t)'.version
                             => rule'[t] = Last(t)'
      BY DEF RulesFollow
    <2>1. /\ rule[t].version >= Last(t).version
          /\ rule[t].version = Last(t).version => rule[t] = Last(t)
      BY DEF IInv, RulesFollow
    <2>2. rule[t].version \in Nat /\ Last(t).version \in 1..m /\ m \in Nat
      BY <1>1, <1>7, CurrentNat DEF RuleRow, IInv, LastIsItsOwn
    <2>3. Last(t).version \in Int
      BY <2>2
    <2>4. CASE t = s
      BY <1>3, <1>6, <1>7, <2>1, <2>2, <2>3, <2>4
    <2>5. CASE t # s
      BY <1>3, <1>7, <2>1, <2>5
    <2> QED BY <2>4, <2>5
  <1>11. FaresFollow'
    <2>1. \A r : FareAt(r, Current)' = FareAt(r, m)
      BY <1>1, <1>2, HistoryStays
    <2> QED BY <1>1, <1>2, <2>1 DEF IInv, FaresFollow
  <1>12. RulesUnedited'
    BY <1>2 DEF RulesUnedited
  <1>13. OrdersTyped' /\ UsedOnce' /\ QuotesPriced' /\ DirectPriced'
    BY <1>1, <1>2, <1>3, OrdersKept
  <1>14. RequestsHold'
    BY <1>1, <1>2, <1>3, RequestsKept DEF IInv
  <1> QED BY <1>3, <1>8, <1>9, <1>10, <1>11, <1>12, <1>13, <1>14 DEF IInv

LEMMA Boots ==
    ASSUME IInv, Restart, UNCHANGED orderVars
    PROVE  IInv'
  <1>1. PICK m : m = Current
    OBVIOUS
  <1>2. /\ UNCHANGED <<revisions, draft, edits, quote, placed>>
        /\ req' = [w \in Workers |-> Idle]
        /\ rule' = [s \in Services |-> BootRule(s)]
        /\ route' = [r \in Routes |-> BootRoute(r)]
        /\ catalog' = [s \in Services |-> DefaultService(s)]
    BY DEF Restart, orderVars
  <1>3. /\ HistoryKept(m) /\ LastIsItsOwn' /\ Current' = m
        /\ \A s : Last(s)' = Last(s)
        /\ \A r : FareAt(r, m)' = FareAt(r, m)
    BY <1>1, <1>2, WithoutARevision
  <1>4. ASSUME NEW s \in Services
        PROVE  /\ BootRule(s) \in RuleRow /\ OfItsKind(s, BootRule(s))
               /\ BootRule(s).version = rule[s].version
               /\ s # "moving_handling" => BootRule(s) = rule[s]
    <2>1. rule[s] \in RuleRow /\ OfItsKind(s, rule[s])
      BY DEF IInv, TablesTyped
    <2>2. CASE s # "moving_handling"
      BY <2>1, <2>2 DEF BootRule
    <2>3. CASE s = "moving_handling"
      <3>1. BootRule(s) = [rule[s] EXCEPT !.mode = "manual_quote", !.base = 0]
        BY <2>3 DEF BootRule
      <3>2. /\ BootRule(s) \in RuleRow /\ BootRule(s).mode = "manual_quote"
            /\ BootRule(s).version = rule[s].version
        BY <2>1, <3>1, UnpricedRow
      <3> QED BY <2>3, <3>2 DEF OfItsKind, DISTANCE_SERVICE_IDS
    <2> QED BY <2>2, <2>3
  <1>5. ASSUME NEW r \in Routes, r \in DOMAIN DEFAULT_SERVICE_ROUTES
        PROVE  /\ BootRoute(r) \in RouteRow
               /\ BootRoute(r).service \in {"carpool_ride", "send_parcel"}
               /\ r \in CarpoolLines => BootRoute(r).service = "carpool_ride"
               /\ BootRoute(r).service = "carpool_ride"
                    => BootRoute(r).unit = FareAt(r, m)
    <2>1. route[r] \in RouteRow /\ route[r] # None
      BY <1>5, PayloadAssumption DEF IInv, TablesTyped, RouteRow, TypedRoute
    <2>2. BootRoute(r) = [DefaultRoute(r) EXCEPT !.unit = route[r].unit,
                                                 !.version = route[r].version]
      BY <1>5 DEF BootRoute
    <2>3. DefaultRoute(r) \in RouteRow
          /\ DefaultRoute(r).service \in {"carpool_ride", "send_parcel"}
          /\ (r \in CarpoolLines => DefaultRoute(r).service = "carpool_ride")
      BY <1>5, DefaultRouteTyped
    <2>4. /\ BootRoute(r) \in RouteRow /\ BootRoute(r).unit = route[r].unit
          /\ BootRoute(r).service = DefaultRoute(r).service
      BY <2>1, <2>2, <2>3 DEF RouteRow
    <2>5. DefaultRoute(r).service = "carpool_ride" => r \in CarpoolLines
      BY DEF DefaultRoute, CarpoolLines
    <2>6. r \in CarpoolLines => route[r].unit = FareAt(r, m)
      BY <1>1, <2>1 DEF IInv, FaresFollow
    <2> QED BY <2>3, <2>4, <2>5, <2>6
  <1>6. ASSUME NEW r \in Routes, r \notin DOMAIN DEFAULT_SERVICE_ROUTES
        PROVE  /\ BootRoute(r) \in RouteRow \cup {None}
               /\ BootRoute(r) # None =>
                    /\ route[r] # None
                    /\ BootRoute(r).service = route[r].service
                    /\ BootRoute(r).unit = route[r].unit
    <2>1. route[r] \in RouteRow \cup {None}
      BY DEF IInv, TablesTyped
    <2>2. BootRoute(r) = route[r]
          \/ /\ route[r] # None
             /\ \E on \in BOOLEAN : BootRoute(r) = [route[r] EXCEPT !.enabled = on]
      BY <1>6 DEF BootRoute
    <2>3. CASE BootRoute(r) = route[r]
      BY <2>1, <2>3
    <2>4. ASSUME route[r] # None, NEW on \in BOOLEAN,
                 BootRoute(r) = [route[r] EXCEPT !.enabled = on]
          PROVE  /\ BootRoute(r) \in RouteRow
                 /\ BootRoute(r).service = route[r].service
                 /\ BootRoute(r).unit = route[r].unit
      BY <2>1, <2>4 DEF RouteRow
    <2> QED BY <2>2, <2>3, <2>4
  <1>7. TablesTyped'
    <2>1. \A s : DefaultService(s) \in BOOLEAN
      BY DEF DefaultService
    <2>2. rule' \in [Services -> RuleRow] /\ \A s \in Services : OfItsKind(s, rule'[s])
      BY <1>2, <1>4
    <2>3. route' \in [Routes -> RouteRow \cup {None}]
          /\ \A r \in Routes \cap DOMAIN DEFAULT_SERVICE_ROUTES : route'[r] \in RouteRow
      BY <1>2, <1>5, <1>6
    <2> QED BY <1>2, <2>1, <2>2, <2>3 DEF IInv, TablesTyped
  <1>8. HistoryTyped'
    BY <1>2 DEF IInv, HistoryTyped
  <1>9. RulesFollow'
    BY <1>2, <1>3, <1>4 DEF IInv, RulesFollow
  <1>10. FaresFollow'
    <2>1. \A r : FareAt(r, Current)' = FareAt(r, m)
      BY <1>1, <1>2, HistoryStays
    <2>2. \A r \in Routes : route[r] # None =>
            /\ route[r].service \in {"carpool_ride", "send_parcel"}
            /\ r \in CarpoolLines => route[r].service = "carpool_ride"
            /\ route[r].service = "carpool_ride" => route[r].unit = FareAt(r, m)
      BY <1>1 DEF IInv, FaresFollow
    <2>3. \A r \in Routes : BootRoute(r) # None =>
            /\ BootRoute(r).service \in {"carpool_ride", "send_parcel"}
            /\ r \in CarpoolLines => BootRoute(r).service = "carpool_ride"
            /\ BootRoute(r).service = "carpool_ride"
                 => BootRoute(r).unit = FareAt(r, m)
      BY <1>5, <1>6, <2>2
    <2> QED BY <1>2, <2>1, <2>3 DEF FaresFollow
  <1>11. RulesUnedited'
    BY <1>1, <1>2, <1>3, <1>4 DEF IInv, RulesUnedited
  <1>12. OrdersTyped' /\ UsedOnce' /\ QuotesPriced' /\ DirectPriced'
    BY <1>1, <1>2, <1>3, OrdersKept
  <1>13. RequestsHold'
    <2>1. \A w \in Workers : req'[w] = Idle
      BY <1>2
    <2>2. Asked(Idle) /\ Holds(Idle)'
      BY DEF Asked, Holds, Is, Idle
    <2>3. DOMAIN req' = Workers
      BY <1>2
    <2>4. ASSUME NEW w \in Workers PROVE Asked(req'[w]) /\ Holds(req[w])'
      BY <2>1, <2>2 DEF Asked, Holds, Is, Idle
    <2> QED BY <2>3, <2>4 DEF RequestsHold
  <1> QED BY <1>3, <1>7, <1>8, <1>9, <1>10, <1>11, <1>12, <1>13 DEF IInv

(* Publishing, one category at a time.                                      *)
LEMMA Publishing ==
    ASSUME IInv, NEW w \in Workers, PublishTx(w), UNCHANGED orderVars
    PROVE  \E c \in Category : \E p \in Payloads[c] :
             /\ validatePayload(c, p) /\ c = req[w].cat
             /\ ApplyPayload(c, p, currentVersion(c) + 1)
             /\ revisions' = [revisions EXCEPT ![c] = Append(revisions[c], p)]
             /\ HistoryTyped'
             /\ req' = [req EXCEPT ![w] = Idle]
             /\ UNCHANGED <<edits, quote, placed>>
  <1>1. PICK c, p : c = req[w].cat /\ p = req[w].payload
    OBVIOUS
  <1>2. c \in Category /\ p \in Payloads[c] /\ validatePayload(c, p)
    BY <1>1 DEF PublishTx, At, IInv, RequestsHold, Asked, Is, Checked
  <1>3. /\ ApplyPayload(c, p, currentVersion(c) + 1)
        /\ revisions' = [revisions EXCEPT ![c] = Append(revisions[c], p)]
        /\ draft' = [draft EXCEPT ![c] = None]
        /\ req' = [req EXCEPT ![w] = Idle]
        /\ UNCHANGED <<edits, quote, placed>>
    BY <1>1 DEF PublishTx, NextVersionFree, Finish, Goto, orderVars
  <1>4. HistoryTyped'
    <2>1. DOMAIN revisions' = Category /\ DOMAIN draft' = Category
      BY <1>3 DEF IInv, HistoryTyped
    <2>2. ASSUME NEW k \in Category
          PROVE  /\ revisions'[k] \in Seq(Payloads[k])
                 /\ \A i \in DOMAIN revisions'[k] :
                      validatePayload(k, revisions'[k][i])
                 /\ draft'[k] # None =>
                      /\ draft'[k] \in [base : Nat, payload : Payloads[k]]
                      /\ validatePayload(k, draft'[k].payload)
      <3>1. PICK h : h = revisions[k]
        OBVIOUS
      <3>2. h \in Seq(Payloads[k]) /\ \A i \in DOMAIN h : validatePayload(k, h[i])
        BY <3>1 DEF IInv, HistoryTyped
      <3>3. CASE k = c
        <4>1. revisions'[k] = Append(h, p)
          BY <1>3, <3>1, <3>3 DEF IInv, HistoryTyped
        <4>2. /\ Append(h, p) \in Seq(Payloads[k])
              /\ \A i \in DOMAIN Append(h, p) :
                   Append(h, p)[i] = p \/ (i \in DOMAIN h /\ Append(h, p)[i] = h[i])
          BY <1>2, <3>2, <3>3
        <4>3. draft'[k] = None
          BY <1>3, <3>3 DEF IInv, HistoryTyped
        <4> QED BY <1>2, <3>2, <3>3, <4>1, <4>2, <4>3
      <3>4. CASE k # c
        BY <1>3, <3>4 DEF IInv, HistoryTyped
      <3> QED BY <3>3, <3>4
    <2> QED BY <2>1, <2>2 DEF HistoryTyped
  <1> QED BY <1>1, <1>2, <1>3, <1>4

LEMMA PublishesSystem ==
    ASSUME IInv, NEW w \in Workers, NEW p \in Payloads["SYSTEM"],
           publishSystem(p),
           revisions' = [revisions EXCEPT !["SYSTEM"] = Append(revisions["SYSTEM"], p)],
           HistoryTyped', req' = [req EXCEPT ![w] = Idle],
           UNCHANGED <<edits, quote, placed>>
    PROVE  IInv'
  <1>1. PICK m : m = Current
    OBVIOUS
  <1>2. /\ UNCHANGED <<rule, route>>
        /\ revisions'["PRICING"] = revisions["PRICING"]
    BY DEF publishSystem, IInv, HistoryTyped, Category
  <1>3. HistoryKept(m) /\ LastIsItsOwn'
    BY <1>1, <1>2, WithoutARevision
  <1>4. RulesFollow' /\ FaresFollow' /\ RulesUnedited'
    BY <1>2, RowsKept
  <1>5. OrdersTyped' /\ UsedOnce' /\ QuotesPriced' /\ DirectPriced'
    BY <1>1, <1>2, <1>3, OrdersKept
  <1>6. catalog' \in [Services -> BOOLEAN]
    <2>1. \A s \in DOMAIN p.services : p.services[s] \in BOOLEAN
      BY PayloadAssumption
    <2>2. catalog' = [s \in Services |-> IF s \in DOMAIN p.services
                                         THEN p.services[s] ELSE catalog[s]]
      BY DEF publishSystem
    <2> QED BY <2>1, <2>2 DEF IInv, TablesTyped
  <1>7. TablesTyped'
    BY <1>2, <1>6 DEF IInv, TablesTyped
  <1>8. RequestsHold'
    <2>1. Asked(Idle) /\ Holds(Idle)'
      BY DEF Asked, Holds, Is, Idle
    <2> QED BY <1>1, <1>2, <1>3, <2>1, RequestsKept DEF IInv
  <1> QED BY <1>3, <1>4, <1>5, <1>7, <1>8 DEF IInv

LEMMA PublishesAreas ==
    ASSUME IInv, NEW w \in Workers, NEW p \in Payloads["SERVICE_AREA"],
           NEW version \in Nat, publishAreas(p, version),
           revisions' = [revisions EXCEPT !["SERVICE_AREA"] =
                           Append(revisions["SERVICE_AREA"], p)],
           HistoryTyped', req' = [req EXCEPT ![w] = Idle],
           UNCHANGED <<edits, quote, placed>>
    PROVE  IInv'
  <1>1. PICK m : m = Current
    OBVIOUS
  <1> DEFINE served == {r \in DOMAIN p.cities :
                          "send_parcel" \in p.cities[r].services}
             cost(r) == IF r \in RoutesFor("send_parcel") /\ route[r].unit # 0
                        THEN route[r].unit ELSE PARCEL_DEFAULT_PRICE_FEN
             city(r) == [service |-> "send_parcel", perPerson |-> FALSE,
                         unit |-> cost(r), enabled |-> p.cities[r].enabled,
                         version |-> version]
             old(r)  == IF route[r] # None /\ route[r].service = "send_parcel"
                        THEN [route[r] EXCEPT !.enabled = FALSE,
                                              !.version = version]
                        ELSE route[r]
  <1>2. /\ UNCHANGED <<rule, catalog>>
        /\ revisions'["PRICING"] = revisions["PRICING"]
        /\ route' = [r \in Routes |-> IF r \in served THEN city(r) ELSE old(r)]
    BY DEF publishAreas, IInv, HistoryTyped, Category
  <1>3. /\ HistoryKept(m) /\ LastIsItsOwn' /\ Current' = m
        /\ \A s : Last(s)' = Last(s)
    BY <1>1, <1>2, WithoutARevision
  <1>4. ASSUME NEW r \in Routes, r \in served
        PROVE  /\ city(r) \in RouteRow /\ city(r).service = "send_parcel"
               /\ r \notin CarpoolLines
    <2>1. cost(r) \in Nat
      BY DEF RoutesFor, IInv, TablesTyped, RouteRow, PARCEL_DEFAULT_PRICE_FEN
    <2>2. p.cities[r].enabled \in BOOLEAN
      BY <1>4, PayloadAssumption
    <2>3. r \notin CarpoolLines
      BY <1>4, KindsAssumption DEF KindsKept
    <2> HIDE DEF cost
    <2> QED BY <2>1, <2>2, <2>3 DEF RouteRow, SERVICE_IDS
  <1>5. ASSUME NEW r \in Routes
        PROVE  /\ old(r) \in RouteRow \cup {None}
               /\ route[r] \in RouteRow => old(r) \in RouteRow
               /\ old(r) # None => /\ route[r] # None
                                   /\ old(r).service = route[r].service
                                   /\ old(r).unit = route[r].unit
    <2>1. route[r] \in RouteRow \cup {None}
      BY DEF IInv, TablesTyped
    <2> QED BY <2>1 DEF RouteRow
  <1> HIDE DEF served, city, old
  <1>6. TablesTyped'
    <2>1. /\ route' \in [Routes -> RouteRow \cup {None}]
          /\ \A r \in Routes \cap DOMAIN DEFAULT_SERVICE_ROUTES : route'[r] \in RouteRow
      BY <1>2, <1>4, <1>5 DEF IInv, TablesTyped
    <2> QED BY <1>2, <2>1 DEF IInv, TablesTyped
  <1>7. FaresFollow'
    <2>1. \A r : FareAt(r, Current)' = FareAt(r, m)
      BY <1>1, <1>2, HistoryStays
    <2>2. \A r \in Routes : route[r] # None =>
            /\ route[r].service \in {"carpool_ride", "send_parcel"}
            /\ r \in CarpoolLines => route[r].service = "carpool_ride"
            /\ route[r].service = "carpool_ride" => route[r].unit = FareAt(r, m)
      BY <1>1 DEF IInv, FaresFollow
    <2>3. \A r \in Routes : route'[r] # None =>
            /\ route'[r].service \in {"carpool_ride", "send_parcel"}
            /\ r \in CarpoolLines => route'[r].service = "carpool_ride"
            /\ route'[r].service = "carpool_ride" => route'[r].unit = FareAt(r, m)
      BY <1>2, <1>4, <1>5, <2>2
    <2> QED BY <2>1, <2>3 DEF FaresFollow
  <1>8. RulesFollow'
    BY <1>2, <1>3 DEF IInv, RulesFollow
  <1>9. RulesUnedited'
    BY <1>1, <1>2, <1>3 DEF IInv, RulesUnedited
  <1>10. OrdersTyped' /\ UsedOnce' /\ QuotesPriced' /\ DirectPriced'
    BY <1>1, <1>2, <1>3, OrdersKept
  <1>11. RequestsHold'
    <2>1. Asked(Idle) /\ Holds(Idle)'
      BY DEF Asked, Holds, Is, Idle
    <2> QED BY <1>1, <1>2, <1>3, <2>1, RequestsKept DEF IInv
  <1> QED BY <1>3, <1>6, <1>7, <1>8, <1>9, <1>10, <1>11 DEF IInv

LEMMA PublishesPrices ==
    ASSUME IInv, NEW w \in Workers, NEW p \in Payloads["PRICING"],
           validatePayload("PRICING", p), NEW m, m = Current,
           publishPricing(p, m + 1),
           revisions' = [revisions EXCEPT !["PRICING"] =
                           Append(revisions["PRICING"], p)],
           HistoryTyped', req' = [req EXCEPT ![w] = Idle],
           UNCHANGED <<edits, quote, placed>>
    PROVE  IInv'
  <1> DEFINE published(s) == PublishedRule(s, p.rules[s], ParcelLines(p), m + 1)
             priced(r) == [p.routes[r] EXCEPT
                             !.unit = IF p.routes[r].service = "send_parcel"
                                      THEN PARCEL_DEFAULT_PRICE_FEN
                                      ELSE p.routes[r].unit,
                             !.version = m + 1]
             covered == DOMAIN p.rules
                          \cup {p.routes[r].service : r \in DOMAIN p.routes}
             old(r) == IF route[r] # None /\ route[r].service \in covered
                       THEN [route[r] EXCEPT !.enabled = FALSE, !.version = m + 1]
                       ELSE route[r]
  <1>1. /\ rule' = [s \in Services |-> IF s \in DOMAIN p.rules THEN published(s)
                                       ELSE rule[s]]
        /\ route' = [r \in Routes |-> IF r \in DOMAIN p.routes THEN priced(r)
                                      ELSE old(r)]
        /\ UNCHANGED catalog
    BY DEF publishPricing, ParcelLines
  <1>2. revisions'["PRICING"] = Append(revisions["PRICING"], p)
        /\ revisions["PRICING"] \in Seq(Payloads["PRICING"])
    BY DEF IInv, HistoryTyped, Category
  <1>3. /\ m \in Nat \ {0} /\ Current' = m + 1
        /\ \A s, v : v \in 1..m => RuleAt(s, v)' = RuleAt(s, v)
        /\ \A r, v : v \in 1..m => FareAt(r, v)' = FareAt(r, v)
        /\ \A s : RuleAt(s, m + 1)' = IF s \in DOMAIN p.rules THEN published(s)
                                      ELSE RuleAt(s, m)
        /\ \A r : FareAt(r, m + 1)' = IF r \in DOMAIN p.routes
                                      THEN p.routes[r].unit ELSE FareAt(r, m)
    BY <1>2, HistoryGrows
  <1>4. HistoryKept(m)
    BY <1>3 DEF HistoryKept
  <1>5. /\ \A s : Last(s)' = IF s \in DOMAIN p.rules THEN published(s) ELSE Last(s)
        /\ \A r : FareAt(r, Current)' = IF r \in DOMAIN p.routes
                                        THEN p.routes[r].unit ELSE FareAt(r, m)
    <2>1. \A s : Last(s)' = RuleAt(s, m + 1)'
      BY <1>3 DEF Last
    <2>2. \A r : FareAt(r, Current)' = FareAt(r, m + 1)'
      BY <1>3
    <2> QED BY <1>3, <2>1, <2>2 DEF Last
  <1>6. ASSUME NEW s \in Services, s \in DOMAIN p.rules
        PROVE  /\ published(s) \in RuleRow /\ OfItsKind(s, published(s))
               /\ published(s).version = m + 1
    <2>1. /\ TypedRule(p.rules[s]) /\ ParcelLines(p) \subseteq Routes
          /\ s \in SERVICE_IDS
      BY <1>6, PayloadAssumption, ConfigAssumption DEF ParcelLines
    <2>2. /\ p.rules[s].base >= 0 /\ p.rules[s].perKm >= 0
          /\ p.rules[s].surcharge >= 0 /\ p.rules[s].weather >= 0
          /\ p.rules[s].included >= 0
      BY <1>6 DEF validatePayload
    <2>3. OfItsKind(s, p.rules[s])
      BY <1>6, KindsAssumption DEF KindsKept, OfItsKind
    <2>4. /\ published(s) \in RuleRow /\ published(s).version = m + 1
          /\ published(s).mode = p.rules[s].mode
      BY <1>3, <2>1, <2>2, PublishedRuleTyped
    <2> QED BY <2>3, <2>4 DEF OfItsKind
  <1>7. ASSUME NEW r \in Routes, r \in DOMAIN p.routes
        PROVE  /\ priced(r) \in RouteRow
               /\ priced(r).service = p.routes[r].service
               /\ priced(r).service \in {"carpool_ride", "send_parcel"}
               /\ r \in CarpoolLines => priced(r).service = "carpool_ride"
               /\ priced(r).service = "carpool_ride"
                    => priced(r).unit = p.routes[r].unit
    <2>1. PICK row : row = p.routes[r]
      OBVIOUS
    <2>2. row \in TypedRoute /\ row.unit >= 0
      BY <1>7, <2>1, PayloadAssumption DEF validatePayload
    <2>3. row.service \in {"carpool_ride", "send_parcel"}
          /\ (r \in CarpoolLines => row.service = "carpool_ride")
      BY <1>7, <2>1, KindsAssumption DEF KindsKept
    <2> DEFINE unit == IF row.service = "send_parcel" THEN PARCEL_DEFAULT_PRICE_FEN
                       ELSE row.unit
    <2>4. unit \in Nat
      BY <2>2 DEF TypedRoute, PARCEL_DEFAULT_PRICE_FEN
    <2>5. priced(r) = [service |-> row.service, unit |-> unit,
                       perPerson |-> row.perPerson, enabled |-> row.enabled,
                       version |-> m + 1]
      <3>1. priced(r) = [row EXCEPT !.unit = unit, !.version = m + 1]
        BY <2>1
      <3> HIDE DEF unit, priced
      <3> QED BY <2>2, <3>1 DEF TypedRoute
    <2>6. unit = IF row.service = "send_parcel" THEN PARCEL_DEFAULT_PRICE_FEN
                 ELSE row.unit
      OBVIOUS
    <2> HIDE DEF unit, priced
    <2> QED BY <1>3, <2>1, <2>2, <2>3, <2>4, <2>5, <2>6 DEF RouteRow, TypedRoute
  <1>8. ASSUME NEW r \in Routes
        PROVE  /\ old(r) \in RouteRow \cup {None}
               /\ route[r] \in RouteRow => old(r) \in RouteRow
               /\ old(r) # None => /\ route[r] # None
                                   /\ old(r).service = route[r].service
                                   /\ old(r).unit = route[r].unit
    <2>1. route[r] \in RouteRow \cup {None} /\ m + 1 \in Nat
      BY <1>3 DEF IInv, TablesTyped
    <2> HIDE DEF covered
    <2> QED BY <2>1 DEF RouteRow
  <1> HIDE DEF published, priced, covered, old
  <1>9. TablesTyped'
    <2>1. rule' \in [Services -> RuleRow] /\ \A s \in Services : OfItsKind(s, rule'[s])
      BY <1>1, <1>6 DEF IInv, TablesTyped
    <2>2. /\ route' \in [Routes -> RouteRow \cup {None}]
          /\ \A r \in Routes \cap DOMAIN DEFAULT_SERVICE_ROUTES : route'[r] \in RouteRow
      BY <1>1, <1>7, <1>8 DEF IInv, TablesTyped
    <2> QED BY <1>1, <2>1, <2>2 DEF IInv, TablesTyped
  <1>10. LastIsItsOwn'
    <2> SUFFICES ASSUME NEW s \in Services
                 PROVE  /\ Last(s)'.version \in 1..Current'
                        /\ RuleAt(s, Last(s).version)' = Last(s)'
      BY DEF LastIsItsOwn
    <2>1. CASE s \in DOMAIN p.rules
      <3>1. Last(s)' = published(s) /\ Last(s)'.version = m + 1
        BY <1>5, <1>6, <2>1
      <3>2. RuleAt(s, m + 1)' = published(s)
        BY <1>3, <2>1
      <3> QED BY <1>3, <3>1, <3>2
    <2>2. CASE s \notin DOMAIN p.rules
      <3>1. PICK last, v : last = Last(s) /\ v = last.version
        OBVIOUS
      <3>2. v \in 1..m /\ RuleAt(s, v) = last
        BY <3>1 DEF IInv, LastIsItsOwn
      <3>3. RuleAt(s, v)' = last
        BY <1>3, <3>2
      <3>4. Last(s)' = last
        BY <1>5, <2>2, <3>1
      <3>5. v \in 1..Current'
        BY <1>3, <3>2
      <3> QED BY <3>1, <3>3, <3>4, <3>5
    <2> QED BY <2>1, <2>2
  <1>11. RulesFollow'
    <2> SUFFICES ASSUME NEW s \in Services \ {"moving_handling"}
                 PROVE  /\ rule'[s].version >= Last(s)'.version
                        /\ rule'[s].version = Last(s)'.version
                             => rule'[s] = Last(s)'
      BY DEF RulesFollow
    <2>1. CASE s \in DOMAIN p.rules
      BY <1>1, <1>3, <1>5, <1>6, <2>1
    <2>2. CASE s \notin DOMAIN p.rules
      BY <1>1, <1>5, <2>2 DEF IInv, RulesFollow
    <2> QED BY <2>1, <2>2
  <1>12. FaresFollow'
    <2>1. \A r \in Routes : route[r] # None =>
            /\ route[r].service \in {"carpool_ride", "send_parcel"}
            /\ r \in CarpoolLines => route[r].service = "carpool_ride"
            /\ route[r].service = "carpool_ride" => route[r].unit = FareAt(r, m)
      BY DEF IInv, FaresFollow
    <2>2. \A r \in Routes : route'[r] # None =>
            /\ route'[r].service \in {"carpool_ride", "send_parcel"}
            /\ r \in CarpoolLines => route'[r].service = "carpool_ride"
            /\ route'[r].service = "carpool_ride"
                 => route'[r].unit = FareAt(r, Current)'
      BY <1>1, <1>5, <1>7, <1>8, <2>1
    <2> QED BY <2>2 DEF FaresFollow
  <1>13. RulesUnedited'
    <2> SUFFICES ASSUME edits = 0, NEW s \in Services
                 PROVE  /\ rule'[s].version \in 1..Current'
                        /\ s # "moving_handling" => rule'[s] = Last(s)'
      BY DEF RulesUnedited
    <2>1. CASE s \in DOMAIN p.rules
      BY <1>1, <1>3, <1>5, <1>6, <2>1
    <2>2. CASE s \notin DOMAIN p.rules
      <3>1. rule[s].version \in 1..m /\ (s # "moving_handling" => rule[s] = Last(s))
        BY DEF IInv, RulesUnedited
      <3>2. rule[s].version \in 1..Current'
        BY <1>3, <3>1
      <3> QED BY <1>1, <1>5, <2>2, <3>1, <3>2
    <2> QED BY <2>1, <2>2
  <1>14. OrdersTyped' /\ UsedOnce' /\ QuotesPriced' /\ DirectPriced'
    BY <1>4, OrdersKept
  <1>15. RequestsHold'
    <2>1. Asked(Idle) /\ Holds(Idle)'
      BY DEF Asked, Holds, Is, Idle
    <2> QED BY <1>4, <2>1, RequestsKept DEF IInv
  <1> QED BY <1>9, <1>10, <1>11, <1>12, <1>13, <1>14, <1>15 DEF IInv

LEMMA Publishes ==
    ASSUME IInv, NEW w \in Workers, PublishTx(w), UNCHANGED orderVars
    PROVE  IInv'
  <1>1. PICK c \in Category : \E p \in Payloads[c] :
             /\ validatePayload(c, p) /\ c = req[w].cat
             /\ ApplyPayload(c, p, currentVersion(c) + 1)
             /\ revisions' = [revisions EXCEPT ![c] = Append(revisions[c], p)]
             /\ HistoryTyped'
             /\ req' = [req EXCEPT ![w] = Idle]
             /\ UNCHANGED <<edits, quote, placed>>
    BY Publishing
  <1>2. PICK p \in Payloads[c] :
             /\ validatePayload(c, p)
             /\ ApplyPayload(c, p, currentVersion(c) + 1)
             /\ revisions' = [revisions EXCEPT ![c] = Append(revisions[c], p)]
             /\ HistoryTyped'
             /\ req' = [req EXCEPT ![w] = Idle]
             /\ UNCHANGED <<edits, quote, placed>>
    BY <1>1
  <1>3. CASE c = "SYSTEM"
    <2>1. publishSystem(p)
      BY <1>2, <1>3 DEF ApplyPayload
    <2> QED BY <1>2, <1>3, <2>1, PublishesSystem
  <1>4. CASE c = "SERVICE_AREA"
    <2>1. PICK version : version = currentVersion(c) + 1
      OBVIOUS
    <2>2. publishAreas(p, version)
      BY <1>2, <1>4, <2>1 DEF ApplyPayload
    <2>3. version \in Nat
      <3>1. Len(revisions[c]) \in Nat
        BY DEF IInv, HistoryTyped
      <3> QED BY <2>1, <3>1 DEF currentVersion, Version
    <2> QED BY <1>2, <1>4, <2>2, <2>3, PublishesAreas
  <1>5. CASE c = "PRICING"
    <2>1. PICK m : m = Current
      OBVIOUS
    <2>2. publishPricing(p, m + 1)
      BY <1>2, <1>5, <2>1 DEF ApplyPayload, Current
    <2> QED BY <1>2, <1>5, <2>1, <2>2, PublishesPrices
  <1> QED BY <1>3, <1>4, <1>5 DEF Category

----------------------------------------------------------------------------
(* Steps that write a quote or an order.                                    *)

LEMMA ConfigKept ==
    ASSUME IInv, UNCHANGED configVars, NEW m, m = Current
    PROVE  /\ TablesTyped' /\ HistoryTyped' /\ LastIsItsOwn'
           /\ RulesFollow' /\ FaresFollow' /\ RulesUnedited'
           /\ HistoryKept(m) /\ Current' = Current
           /\ \A d, v, fee : PriceIsPublished(d, v, fee)'
                               <=> PriceIsPublished(d, v, fee)
           /\ \A d, v : DirectPrices(d, v)' = DirectPrices(d, v)
  <1>1. UNCHANGED <<rule, route, catalog, revisions, draft, edits>>
    BY DEF configVars, configTables
  <1>2. HistoryKept(m) /\ LastIsItsOwn'
    BY <1>1, WithoutARevision
  <1>3. RulesFollow' /\ FaresFollow' /\ RulesUnedited'
    BY <1>1, RowsKept
  <1>4. TablesTyped' /\ HistoryTyped'
    BY <1>1 DEF IInv, TablesTyped, HistoryTyped
  <1>5. /\ Current' = Current /\ \A s, v : RuleAt(s, v)' = RuleAt(s, v)
        /\ \A t, v : FareAt(t, v)' = FareAt(t, v)
    BY <1>1, HistoryStays
  <1>6. \A d, v : PublishedPrices(d, v)' = PublishedPrices(d, v)
    BY <1>5 DEF PublishedPrices, Current
  <1>7. \A d, v, fee : PriceIsPublished(d, v, fee)' <=> PriceIsPublished(d, v, fee)
    BY <1>5, <1>6 DEF PriceIsPublished
  <1>8. \A d, v : DirectPrices(d, v)' = DirectPrices(d, v)
    BY <1>5, <1>6 DEF DirectPrices, KilometreMore
  <1> QED BY <1>2, <1>3, <1>4, <1>5, <1>7, <1>8

LEMMA AQuoteIsSaved ==
    ASSUME IInv, UNCHANGED configVars, UNCHANGED placed,
           NEW q \in Quotes, quote[q] = None, NEW row \in QuoteRow, ~row.used,
           edits = 0 /\ row.task = row.dto.task
             => PriceIsPublished(row.dto, row.version, row.total),
           quote' = [quote EXCEPT ![q] = row],
           NEW w \in Workers, req' = [req EXCEPT ![w] = Idle]
    PROVE  IInv'
  <1>1. PICK m : m = Current
    OBVIOUS
  <1>2. /\ TablesTyped' /\ HistoryTyped' /\ LastIsItsOwn'
        /\ RulesFollow' /\ FaresFollow' /\ RulesUnedited'
        /\ HistoryKept(m) /\ Current' = Current
        /\ \A d, v, fee : PriceIsPublished(d, v, fee)'
                            <=> PriceIsPublished(d, v, fee)
        /\ \A d, v : DirectPrices(d, v)' = DirectPrices(d, v)
    BY <1>1, ConfigKept
  <1>3. edits' = edits
    BY DEF configVars
  <1>4. /\ quote \in [Quotes -> QuoteRow \cup {None}]
        /\ \A p \in Quotes : quote'[p] = IF p = q THEN row ELSE quote[p]
    BY DEF IInv, OrdersTyped
  <1>5. OrdersTyped'
    BY <1>4 DEF IInv, OrdersTyped
  <1>6. UsedOnce'
    <2>1. \A p : OrdersOf(p)' = OrdersOf(p)
      BY DEF OrdersOf
    <2> QED BY <1>4, <2>1 DEF IInv, UsedOnce
  <1>7. QuotesPriced'
    <2> SUFFICES ASSUME edits = 0, NEW p \in Quotes, quote'[p] # None,
                        quote'[p].task = quote'[p].dto.task
                 PROVE  PriceIsPublished(quote[p].dto, quote[p].version,
                                         quote[p].total)'
      BY <1>3 DEF QuotesPriced
    <2>1. PICK new : new = quote'[p]
      OBVIOUS
    <2>2. PriceIsPublished(new.dto, new.version, new.total)
      BY <1>4, <2>1 DEF IInv, QuotesPriced
    <2>3. PriceIsPublished(new.dto, new.version, new.total)'
      BY <1>2, <2>2
    <2> QED BY <2>1, <2>3
  <1>8. DirectPriced'
    BY <1>2, <1>3 DEF IInv, DirectPriced
  <1>9. RequestsHold'
    <2>1. Asked(Idle) /\ Holds(Idle)'
      BY DEF Asked, Holds, Is, Idle
    <2>2. \A p \in Quotes : quote[p] # None => quote'[p] # None
      BY <1>4
    <2> QED BY <1>1, <1>2, <1>3, <2>1, <2>2, RequestsKept DEF IInv
  <1> QED BY <1>2, <1>5, <1>6, <1>7, <1>8, <1>9 DEF IInv

LEMMA QuotesSaved ==
    ASSUME IInv, NEW w \in Workers, NEW q \in Quotes,
           QuoteSave(w, q) \/ QuoteCarpoolSave(w, q) \/ QuoteHandlingSave(w, q)
    PROVE  IInv'
  <1>0. /\ UNCHANGED configVars /\ UNCHANGED placed /\ quote[q] = None
        /\ req' = [req EXCEPT ![w] = Idle]
    BY DEF QuoteSave, QuoteCarpoolSave, QuoteHandlingSave, Finish, Goto
  <1>1. PICK r, d : r = req[w] /\ d = r.dto
    OBVIOUS
  <1>2. Asked(r) /\ Holds(r)
    BY <1>1 DEF IInv, RequestsHold
  <1>3. ASSUME NEW t \in Wanted
        PROVE  /\ t.task \in SERVICE_IDS /\ t.routeId \in Routes \cup {None}
               /\ t.carpool => t.task = "send_parcel"
    BY WantedAssumption, ConfigAssumption DEF PricingQuoteDto
  <1>4. CASE QuoteSave(w, q)
    <2> DEFINE row == NewQuote(d, r.price, r.rule.version)
    <2>1. /\ Is(r, "quote", "save") /\ quote' = [quote EXCEPT ![q] = row]
      BY <1>1, <1>4 DEF QuoteSave, At, Is, RecordedVersion
    <2>2. /\ d \in Wanted /\ r.price.unit \in Nat /\ r.price.total \in Nat
          /\ r.rule.version \in Nat
      BY <1>1, <1>2, <2>1 DEF Asked, Price, RuleRow
    <2>3. row \in QuoteRow /\ ~row.used
      BY <1>3, <2>2 DEF NewQuote, QuoteRow
    <2>4. row.dto = d /\ row.version = r.rule.version /\ row.total = r.price.total
      BY DEF NewQuote
    <2>5. edits = 0 => PriceIsPublished(d, r.rule.version, r.price.total)
      BY <1>1, <1>2, <2>1 DEF Holds
    <2> HIDE DEF row
    <2> QED BY <1>0, <2>1, <2>3, <2>4, <2>5, AQuoteIsSaved
  <1>5. CASE QuoteCarpoolSave(w, q)
    <2> DEFINE row == [NewQuote(d, r.price, 1) EXCEPT !.task = "carpool_ride"]
    <2>1. /\ Is(r, "quoteCarpool", "save") /\ quote' = [quote EXCEPT ![q] = row]
      BY <1>1, <1>5 DEF QuoteCarpoolSave, At, Is
    <2>2. /\ d \in Wanted /\ d.carpool /\ r.price.unit \in Nat
          /\ r.price.total \in Nat
      BY <1>1, <1>2, <2>1 DEF Asked, Price
    <2>3. row \in QuoteRow /\ ~row.used
      BY <1>3, <2>2 DEF NewQuote, QuoteRow, SERVICE_IDS
    <2>4. row.dto = d /\ row.task = "carpool_ride" /\ d.task = "send_parcel"
      BY <1>3, <2>2 DEF NewQuote
    <2> HIDE DEF row
    <2> QED BY <1>0, <2>1, <2>3, <2>4, AQuoteIsSaved
  <1>6. CASE QuoteHandlingSave(w, q)
    <2> DEFINE row == NewQuote(d, LabourPrice, r.rule.version)
    <2>1. /\ Is(r, "quoteHandling", "save") /\ quote' = [quote EXCEPT ![q] = row]
      BY <1>1, <1>6 DEF QuoteHandlingSave, At, Is, RecordedVersion
    <2>2. d \in Wanted /\ r.rule.version \in Nat
      BY <1>1, <1>2, <2>1 DEF Asked, RuleRow
    <2>3. row \in QuoteRow /\ ~row.used
      BY <1>3, <2>2 DEF NewQuote, QuoteRow, LabourPrice
    <2>4. row.dto = d /\ row.version = r.rule.version /\ row.total = 0
      BY DEF NewQuote, LabourPrice
    <2>5. edits = 0 => PriceIsPublished(d, r.rule.version, 0)
      BY <1>1, <1>2, <2>1 DEF Holds
    <2> HIDE DEF row
    <2> QED BY <1>0, <2>1, <2>3, <2>4, <2>5, AQuoteIsSaved
  <1> QED BY <1>4, <1>5, <1>6

LEMMA Expires ==
    ASSUME IInv, NEW q \in Quotes, QuoteExpires(q)
    PROVE  IInv'
  <1>1. PICK m : m = Current
    OBVIOUS
  <1>2. UNCHANGED configVars /\ UNCHANGED <<placed, req, edits>>
    BY DEF QuoteExpires, configVars
  <1>3. /\ TablesTyped' /\ HistoryTyped' /\ LastIsItsOwn'
        /\ RulesFollow' /\ FaresFollow' /\ RulesUnedited'
        /\ HistoryKept(m) /\ Current' = Current
        /\ \A d, v, fee : PriceIsPublished(d, v, fee)'
                            <=> PriceIsPublished(d, v, fee)
        /\ \A d, v : DirectPrices(d, v)' = DirectPrices(d, v)
    BY <1>1, <1>2, ConfigKept
  <1>4. PICK old \in QuoteRow : old = quote[q]
    BY DEF QuoteExpires, IInv, OrdersTyped
  <1> DEFINE row == [old EXCEPT !.expired = TRUE]
  <1>5. /\ row \in QuoteRow /\ row.dto = old.dto /\ row.task = old.task
        /\ row.version = old.version /\ row.total = old.total
        /\ row.used = old.used
    BY DEF QuoteRow
  <1>6. quote' = [quote EXCEPT ![q] = row] /\ quote[q] # None
    BY <1>4 DEF QuoteExpires
  <1> HIDE DEF row
  <1>7. /\ quote \in [Quotes -> QuoteRow \cup {None}] /\ row # None
        /\ \A p \in Quotes : quote'[p] = IF p = q THEN row ELSE quote[p]
    BY <1>5, <1>6, WantedAssumption DEF IInv, OrdersTyped
  <1>8. OrdersTyped'
    BY <1>2, <1>5, <1>6 DEF IInv, OrdersTyped
  <1>9. UsedOnce'
    <2>1. \A p : OrdersOf(p)' = OrdersOf(p)
      BY <1>2 DEF OrdersOf
    <2> QED BY <1>4, <1>5, <1>6, <1>7, <2>1 DEF IInv, UsedOnce
  <1>10. QuotesPriced'
    <2> SUFFICES ASSUME edits = 0, NEW p \in Quotes, quote'[p] # None,
                        quote'[p].task = quote'[p].dto.task
                 PROVE  PriceIsPublished(quote[p].dto, quote[p].version,
                                         quote[p].total)'
      BY <1>2 DEF QuotesPriced
    <2>1. PICK new : new = quote'[p]
      OBVIOUS
    <2>2. PriceIsPublished(new.dto, new.version, new.total)
      BY <1>4, <1>5, <1>6, <1>7, <2>1 DEF IInv, QuotesPriced
    <2>3. PriceIsPublished(new.dto, new.version, new.total)'
      BY <1>3, <2>2
    <2> QED BY <2>1, <2>3
  <1>11. DirectPriced'
    BY <1>2, <1>3 DEF IInv, DirectPriced
  <1>12. RequestsHold'
    <2>1. \A p \in Quotes : quote[p] # None => quote'[p] # None
      BY <1>7
    <2> QED BY <1>1, <1>2, <1>3, <2>1, RequestsKept DEF IInv
  <1> QED BY <1>3, <1>8, <1>9, <1>10, <1>11, <1>12 DEF IInv

LEMMA OrderAppended ==
    ASSUME OrdersTyped, NEW row \in OrderRow, placed' = Append(placed, row)
    PROVE  /\ placed' \in Seq(OrderRow)
           /\ \A i \in DOMAIN placed' :
                \/ i = Len(placed) + 1 /\ placed'[i] = row
                \/ i \in DOMAIN placed /\ placed'[i] = placed[i]
           /\ \A q : OrdersOf(q)' = IF row.quote = q
                                    THEN OrdersOf(q) \cup {Len(placed) + 1}
                                    ELSE OrdersOf(q)
  <1> DEFINE n == Len(placed) + 1
  <1>1. /\ placed' \in Seq(OrderRow) /\ Len(placed) \in Nat
        /\ DOMAIN placed = 1..Len(placed) /\ DOMAIN placed' = 1..n
        /\ placed'[n] = row /\ \A i \in DOMAIN placed : placed'[i] = placed[i]
    BY DEF OrdersTyped
  <1>2. DOMAIN placed' = DOMAIN placed \cup {n} /\ n \notin DOMAIN placed
    BY <1>1
  <1> HIDE DEF n
  <1>3. \A q : OrdersOf(q)' = IF row.quote = q THEN OrdersOf(q) \cup {n}
                              ELSE OrdersOf(q)
    BY <1>1, <1>2 DEF OrdersOf
  <1> QED BY <1>1, <1>2, <1>3 DEF n

LEMMA CreatesFromQuote ==
    ASSUME IInv, NEW w \in Workers, CreateFromQuoteTx(w)
    PROVE  IInv'
  <1>1. PICK m, q : m = Current /\ q = req[w].quote
    OBVIOUS
  <1>2. /\ UNCHANGED configVars /\ UNCHANGED edits
        /\ req' = [req EXCEPT ![w] = Idle]
    BY DEF CreateFromQuoteTx, Finish, Goto, configVars
  <1>3. /\ TablesTyped' /\ HistoryTyped' /\ LastIsItsOwn'
        /\ RulesFollow' /\ FaresFollow' /\ RulesUnedited'
        /\ HistoryKept(m) /\ Current' = Current
        /\ \A d, v, fee : PriceIsPublished(d, v, fee)'
                            <=> PriceIsPublished(d, v, fee)
        /\ \A d, v : DirectPrices(d, v)' = DirectPrices(d, v)
    BY <1>1, <1>2, ConfigKept
  <1>4. q \in Quotes /\ quote[q] # None
    BY <1>1 DEF CreateFromQuoteTx, At, IInv, RequestsHold, Asked, Holds, Is
  <1>5. PICK old \in QuoteRow : old = quote[q]
    BY <1>4 DEF IInv, OrdersTyped
  <1> DEFINE row == [old EXCEPT !.used = TRUE]
             order == [quote |-> q, task |-> old.task,
                       manual |-> old.task = "moving_handling",
                       fee |-> IF old.task = "moving_handling" THEN 0
                               ELSE old.total,
                       dto |-> old.dto]
  <1>6. /\ row \in QuoteRow /\ row.dto = old.dto /\ row.task = old.task
        /\ row.version = old.version /\ row.total = old.total /\ row.used
    BY DEF QuoteRow
  <1>7. /\ quote' = [quote EXCEPT ![q] = row] /\ placed' = Append(placed, order)
        /\ ~old.used
    BY <1>1, <1>5 DEF CreateFromQuoteTx, Consumable
  <1>8. order \in OrderRow /\ order.quote = q
    BY <1>4 DEF OrderRow, QuoteRow
  <1> HIDE DEF row, order
  <1>9. /\ quote \in [Quotes -> QuoteRow \cup {None}] /\ row # None
        /\ \A p \in Quotes : quote'[p] = IF p = q THEN row ELSE quote[p]
    BY <1>6, <1>7, WantedAssumption DEF IInv, OrdersTyped
  <1> DEFINE n == Len(placed) + 1
  <1>10. /\ placed' \in Seq(OrderRow)
         /\ \A i \in DOMAIN placed' :
              \/ i = n /\ placed'[i] = order
              \/ i \in DOMAIN placed /\ placed'[i] = placed[i]
         /\ \A p : OrdersOf(p)' = IF q = p THEN OrdersOf(p) \cup {n}
                                  ELSE OrdersOf(p)
    BY <1>7, <1>8, OrderAppended DEF IInv
  <1> HIDE DEF n
  <1>11. OrdersTyped'
    BY <1>6, <1>7, <1>9, <1>10 DEF IInv, OrdersTyped
  <1>12. UsedOnce'
    <2> SUFFICES ASSUME NEW p \in Quotes
                 PROVE  IF quote'[p] # None /\ quote'[p].used
                        THEN \E i \in OrdersOf(p)' : OrdersOf(p)' = {i}
                        ELSE OrdersOf(p)' = {}
      BY DEF UsedOnce
    <2>1. CASE p = q
      <3>1. OrdersOf(p) = {}
        BY <1>4, <1>5, <1>7, <2>1 DEF IInv, UsedOnce
      <3>2. OrdersOf(p)' = {n}
        BY <1>10, <2>1, <3>1
      <3> QED BY <1>6, <1>9, <2>1, <3>2
    <2>2. CASE p # q
      <3>1. OrdersOf(p)' = OrdersOf(p) /\ quote'[p] = quote[p]
        BY <1>9, <1>10, <2>2
      <3> QED BY <3>1 DEF IInv, UsedOnce
    <2> QED BY <2>1, <2>2
  <1>13. QuotesPriced'
    <2> SUFFICES ASSUME edits = 0, NEW p \in Quotes, quote'[p] # None,
                        quote'[p].task = quote'[p].dto.task
                 PROVE  PriceIsPublished(quote[p].dto, quote[p].version,
                                         quote[p].total)'
      BY <1>2 DEF QuotesPriced
    <2>1. PICK new : new = quote'[p]
      OBVIOUS
    <2>2. PriceIsPublished(new.dto, new.version, new.total)
      BY <1>4, <1>5, <1>6, <1>9, <2>1 DEF IInv, QuotesPriced
    <2>3. PriceIsPublished(new.dto, new.version, new.total)'
      BY <1>3, <2>2
    <2> QED BY <2>1, <2>3
  <1>14. DirectPriced'
    <2> SUFFICES ASSUME edits = 0, NEW i \in DOMAIN placed',
                        placed'[i].quote = None,
                        placed'[i].task # "pedicab_delivery"
                 PROVE  /\ placed'[i].task = placed'[i].dto.task
                        /\ \E v \in 1..Current' :
                             placed'[i].fee \in DirectPrices(placed[i].dto, v)'
      BY <1>2 DEF DirectPriced
    <2>1. i \in DOMAIN placed /\ placed'[i] = placed[i]
      BY <1>4, <1>8, <1>10, WantedAssumption
    <2> QED BY <1>3, <2>1 DEF IInv, DirectPriced
  <1>15. RequestsHold'
    <2>1. Asked(Idle) /\ Holds(Idle)'
      BY DEF Asked, Holds, Is, Idle
    <2>2. \A p \in Quotes : quote[p] # None => quote'[p] # None
      BY <1>9
    <2> QED BY <1>1, <1>2, <1>3, <2>1, <2>2, RequestsKept DEF IInv
  <1> QED BY <1>3, <1>11, <1>12, <1>13, <1>14, <1>15 DEF IInv

(* create() computes the price quote() would have, from the rule or, when   *)
(* it is off, from the built-in prices, whose four kilometres are exact in  *)
(* doubles; from the rule, its doubles may count one kilometre more.        *)
Builtin(task) ==
    [base |-> VEHICLE_PRICING(vehicleType(task)).base,
     perKm |-> VEHICLE_PRICING(vehicleType(task)).perKm,
     included |-> 4000, weather |-> 500]

LEMMA BuiltinTyped ==
    ASSUME NEW task
    PROVE  /\ Builtin(task).included = 4000 /\ Builtin(task).base \in Nat
           /\ Builtin(task).perKm \in Nat /\ Builtin(task).weather \in Nat
           /\ Builtin(task).included \in Nat
  <1>1. PICK type : type = vehicleType(task)
    OBVIOUS
  <1>2. type \in {"EBIKE", "ETRIKE", "VAN", "MANUAL"}
    BY <1>1 DEF vehicleType
  <1>3. VEHICLE_PRICING(type).base \in Nat /\ VEHICLE_PRICING(type).perKm \in Nat
    BY <1>2 DEF VEHICLE_PRICING
  <1> QED BY <1>1, <1>3 DEF Builtin

LEMMA FeeIsATotal ==
    ASSUME HistoryTyped, NEW d \in Wanted, d.task \notin Quoted,
           d.task # "pedicab_delivery", NEW v, NEW r, r = RuleAt(d.task, v),
           NEW bad \in BOOLEAN, bad => d.task \in WEATHER_SERVICE_IDS,
           NEW meters \in Nat
    PROVE  /\ estimate(d.task, serverPricingInput(d.task, r, r.enabled), meters,
                       bad, d.product)
                = QuoteTotal(d.task, IF r.enabled THEN r ELSE Builtin(d.task),
                             meters, bad, d.product)
                    + (IF r.enabled /\ <<meters, r.included>> \in FloatAbove
                       THEN r.perKm ELSE 0)
           /\ ~r.enabled =>
                estimate(d.task, serverPricingInput(d.task, r, r.enabled), meters,
                         bad, d.product)
                  = QuoteTotal(d.task, Builtin(d.task), meters, bad, d.product)
           /\ ~d.carpool /\ ~IsParcel(d, r)
           /\ d.task # "moving_handling" /\ d.task # "carpool_ride"
  <1> DEFINE plain   == Builtin(d.task)
             input   == serverPricingInput(d.task, r, r.enabled)
             exposed == d.task \in WEATHER_SERVICE_IDS
             goods   == IF d.task = "buy_for_me" THEN d.product ELSE 0
  <1>1. /\ d.task \in DISTANCE_SERVICE_IDS /\ d.task \in SERVICE_IDS
        /\ d.product \in Nat /\ d.task # "send_parcel"
        /\ d.task # "moving_handling" /\ d.task # "carpool_ride" /\ ~d.carpool
    BY WantedAssumption, ConfigAssumption DEF PricingQuoteDto, Quoted, SERVICE_IDS
  <1>2. /\ r \in RuleRow /\ r.mode # "parcel_category" /\ r.mode # "manual_quote"
        /\ r.enabled \in BOOLEAN
    BY <1>1, RuleAtTyped DEF OfItsKind, RuleRow, LabourModes
  <1>3. exposed => vehicleType(d.task) = "EBIKE"
    BY DEF WEATHER_SERVICE_IDS, vehicleType
  <1>4. /\ input.mode = IF exposed THEN "distance_weather"
                        ELSE IF r.enabled THEN r.mode ELSE "distance"
        /\ input.base = IF r.enabled THEN r.base ELSE plain.base
        /\ input.perKm = IF r.enabled THEN r.perKm ELSE plain.perKm
        /\ input.included = IF r.enabled THEN r.included ELSE plain.included
        /\ exposed => input.weather = IF r.enabled THEN r.weather ELSE plain.weather
    BY DEF serverPricingInput, Builtin
  <1>5. input.mode # "parcel_category" /\ input.mode # "manual_quote"
        /\ (exposed => input.mode = "distance_weather")
    BY <1>2, <1>4
  <1>6. AtLeast(0, d.product) = d.product
    BY <1>1 DEF AtLeast
  <1>7. /\ plain.included = 4000
        /\ plain.base \in Nat /\ plain.perKm \in Nat /\ plain.weather \in Nat
    BY BuiltinTyped
  <1>8. /\ r.base \in Nat /\ r.perKm \in Nat /\ r.included \in Nat
        /\ r.weather \in Nat /\ goods \in Nat
    BY <1>1, <1>2 DEF RuleRow
  <1> HIDE DEF input, plain, goods
  <1>9. estimate(d.task, input, meters, bad, d.product)
          = input.base + FloatExcessKm(meters, input.included) * input.perKm
              + (IF bad THEN input.weather ELSE 0) + goods
    BY <1>3, <1>5 DEF estimate, goods
  <1>10. ASSUME NEW row, row = IF r.enabled THEN r ELSE plain
         PROVE  estimate(d.task, input, meters, bad, d.product)
                  = QuoteTotal(d.task, row, meters, bad, d.product)
                      + (IF r.enabled /\ <<meters, r.included>> \in FloatAbove
                         THEN r.perKm ELSE 0)
    <2>1. /\ input.base = row.base /\ input.perKm = row.perKm
          /\ input.included = row.included
          /\ exposed => input.weather = row.weather
      BY <1>4, <1>10
    <2>2. /\ row.base \in Nat /\ row.perKm \in Nat /\ row.included \in Nat
          /\ row.weather \in Nat
      BY <1>7, <1>8, <1>10
    <2>3. ~r.enabled => <<meters, row.included>> \notin FloatAbove
      BY <1>7, <1>10, FloatAssumption
    <2> DEFINE more == IF r.enabled /\ <<meters, r.included>> \in FloatAbove
                       THEN 1 ELSE 0
               km == ExcessKm(meters, row.included)
    <2>4. FloatExcessKm(meters, row.included) = km + more
      BY <1>10, <2>3 DEF FloatExcessKm
    <2>5. km \in Nat /\ more \in {0, 1}
      BY <2>2, ExcessKmNat
    <2>6. km * row.perKm \in Nat
      BY <2>2, <2>5, ProductNat
    <2> HIDE DEF km
    <2>7. (km + more) * row.perKm = km * row.perKm + more * row.perKm
      BY <2>2, <2>5
    <2>8. QuoteTotal(d.task, row, meters, bad, d.product)
            = row.base + km * row.perKm + (IF bad THEN row.weather ELSE 0) + goods
      BY <1>6 DEF QuoteTotal, goods, km
    <2>9. more * row.perKm
            = IF r.enabled /\ <<meters, r.included>> \in FloatAbove
              THEN r.perKm ELSE 0
      BY <1>8, <1>10, <2>2
    <2> HIDE DEF more
    <2> QED BY <1>8, <1>9, <2>1, <2>2, <2>4, <2>5, <2>6, <2>7, <2>8, <2>9
  <1>11. ~IsParcel(d, r)
    BY <1>1, <1>2 DEF IsParcel
  <1>12. ASSUME ~r.enabled
         PROVE  estimate(d.task, input, meters, bad, d.product)
                  = QuoteTotal(d.task, plain, meters, bad, d.product)
    <2>1. QuoteTotal(d.task, plain, meters, bad, d.product) \in Nat
      BY <1>1, <1>7, QuoteTotalNat
    <2>2. estimate(d.task, input, meters, bad, d.product)
            = QuoteTotal(d.task, plain, meters, bad, d.product) + 0
      BY <1>10, <1>12
    <2> QED BY <2>1, <2>2
  <1> QED BY <1>1, <1>10, <1>11, <1>12 DEF input, plain

LEMMA FeeIsAPrice ==
    ASSUME HistoryTyped, NEW d \in Wanted, d.task \notin Quoted,
           d.task # "pedicab_delivery", NEW v, NEW r, r = RuleAt(d.task, v),
           NEW bad \in BOOLEAN, bad => d.task \in WEATHER_SERVICE_IDS,
           Distance[d.pickup, d.dropoff] \in Nat
    PROVE  estimate(d.task, serverPricingInput(d.task, r, r.enabled),
                    Distance[d.pickup, d.dropoff], bad, d.product)
             \in DirectPrices(d, v)
  <1>1. PICK meters : meters = Distance[d.pickup, d.dropoff]
    OBVIOUS
  <1>2. PICK fee : fee = estimate(d.task, serverPricingInput(d.task, r, r.enabled),
                                  meters, bad, d.product)
    OBVIOUS
  <1>3. /\ fee = QuoteTotal(d.task, IF r.enabled THEN r ELSE Builtin(d.task),
                            meters, bad, d.product)
                  + (IF r.enabled /\ <<meters, r.included>> \in FloatAbove
                     THEN r.perKm ELSE 0)
        /\ ~d.carpool /\ ~IsParcel(d, r)
        /\ d.task # "moving_handling" /\ d.task # "carpool_ride"
    BY <1>1, <1>2, FeeIsATotal
  <1>4. CASE r.enabled
    <2>1. PublishedPrices(d, v)
            = {QuoteTotal(d.task, r, meters, b, d.product) : b \in BOOLEAN}
      BY <1>1, <1>3 DEF PublishedPrices
    <2>2. PICK price \in PublishedPrices(d, v) : fee = price + KilometreMore(d, r)
      <3>1. fee = QuoteTotal(d.task, r, meters, bad, d.product)
                    + KilometreMore(d, r)
        BY <1>1, <1>3, <1>4 DEF KilometreMore
      <3> QED BY <2>1, <3>1
    <2> QED BY <1>1, <1>2, <1>4, <2>2 DEF DirectPrices
  <1>5. CASE ~r.enabled
    <2>1. BuiltinPrices(d)
            = {QuoteTotal(d.task, Builtin(d.task), meters, b, d.product) :
                 b \in BOOLEAN}
      <3>1. BuiltinPrices(d)
              = {QuoteTotal(d.task, Builtin(d.task), Distance[d.pickup, d.dropoff],
                            b, d.product) : b \in BOOLEAN}
        BY Zenon DEF BuiltinPrices, Builtin
      <3> QED BY <1>1, <3>1, Zenon
    <2>2. fee = QuoteTotal(d.task, Builtin(d.task), meters, bad, d.product)
      BY <1>1, <1>2, <1>5, FeeIsATotal
    <2>3. fee \in BuiltinPrices(d)
      BY <2>1, <2>2
    <2> QED BY <1>1, <1>2, <1>5, <2>3 DEF DirectPrices
  <1> QED BY <1>4, <1>5

LEMMA CreatesDirectly ==
    ASSUME IInv, NEW w \in Workers, CreateWrite(w)
    PROVE  IInv'
  <1>1. PICK m, r, d : m = Current /\ r = req[w] /\ d = r.dto
    OBVIOUS
  <1>2. /\ UNCHANGED configVars /\ UNCHANGED <<edits, quote>>
        /\ req' = [req EXCEPT ![w] = Idle]
    BY DEF CreateWrite, Finish, Goto, configVars
  <1>3. /\ TablesTyped' /\ HistoryTyped' /\ LastIsItsOwn'
        /\ RulesFollow' /\ FaresFollow' /\ RulesUnedited'
        /\ HistoryKept(m) /\ Current' = Current
        /\ \A e, v, fee : PriceIsPublished(e, v, fee)'
                            <=> PriceIsPublished(e, v, fee)
        /\ \A e, v : DirectPrices(e, v)' = DirectPrices(e, v)
    BY <1>1, <1>2, ConfigKept
  <1>4. Asked(r) /\ Holds(r) /\ Is(r, "create", "write")
    BY <1>1 DEF CreateWrite, At, IInv, RequestsHold, Is
  <1>5. /\ d \in Wanted /\ r.input \in Input /\ d.task \notin Quoted
        /\ d.pickup \in Places /\ d.dropoff \in Places
    BY <1>1, <1>4 DEF Asked, WithInput
  <1>6. d.task \in SERVICE_IDS /\ d.product \in Nat
        /\ Distance[d.pickup, d.dropoff] \in Nat
    BY <1>5, WantedAssumption, ConfigAssumption DEF PricingQuoteDto
  <1>7. PICK bad \in BOOLEAN :
          /\ bad => d.task \in WEATHER_SERVICE_IDS
          /\ placed' = Append(placed,
               [quote |-> None, task |-> d.task,
                manual |-> r.input.mode = "manual_quote",
                fee |-> estimate(d.task, r.input, Distance[d.pickup, d.dropoff],
                                 bad, d.product),
                dto |-> d])
    BY <1>1 DEF CreateWrite
  <1> DEFINE fee == estimate(d.task, r.input, Distance[d.pickup, d.dropoff],
                             bad, d.product)
             order == [quote |-> None, task |-> d.task,
                       manual |-> r.input.mode = "manual_quote",
                       fee |-> fee, dto |-> d]
  <1>8. fee \in Nat
    BY <1>5, <1>6, EstimateNat
  <1>9. edits = 0 /\ d.task # "pedicab_delivery"
          => \E v \in 1..Current : fee \in DirectPrices(d, v)
    <2> SUFFICES ASSUME edits = 0, d.task # "pedicab_delivery"
                 PROVE  \E v \in 1..Current : fee \in DirectPrices(d, v)
      OBVIOUS
    <2>1. PICK v \in 1..Current :
            r.input = serverPricingInput(d.task, RuleAt(d.task, v),
                                         RuleAt(d.task, v).enabled)
      BY <1>1, <1>4 DEF Holds
    <2>2. PICK row : row = RuleAt(d.task, v)
      OBVIOUS
    <2>3. estimate(d.task, serverPricingInput(d.task, row, row.enabled),
                   Distance[d.pickup, d.dropoff], bad, d.product)
            \in DirectPrices(d, v)
      BY <1>5, <1>6, <1>7, <2>2, FeeIsAPrice DEF IInv
    <2> QED BY <2>1, <2>2, <2>3
  <1> HIDE DEF fee
  <1>10. /\ order \in OrderRow /\ order.quote = None /\ order.fee = fee
         /\ order.dto = d /\ order.task = d.task
    BY <1>5, <1>6, <1>8 DEF OrderRow
  <1>11. placed' = Append(placed, order)
    BY <1>7 DEF fee
  <1> HIDE DEF order
  <1> DEFINE n == Len(placed) + 1
  <1>12. /\ placed' \in Seq(OrderRow)
         /\ \A i \in DOMAIN placed' :
              \/ i = n /\ placed'[i] = order
              \/ i \in DOMAIN placed /\ placed'[i] = placed[i]
         /\ \A q \in Quotes : OrdersOf(q)' = OrdersOf(q)
    BY <1>10, <1>11, OrderAppended, WantedAssumption DEF IInv
  <1> HIDE DEF n
  <1>13. OrdersTyped'
    BY <1>2, <1>12 DEF IInv, OrdersTyped
  <1>14. UsedOnce'
    BY <1>2, <1>12 DEF IInv, UsedOnce
  <1>15. QuotesPriced'
    <2> SUFFICES ASSUME edits = 0, NEW p \in Quotes, quote[p] # None,
                        quote[p].task = quote[p].dto.task
                 PROVE  PriceIsPublished(quote[p].dto, quote[p].version,
                                         quote[p].total)'
      BY <1>2 DEF QuotesPriced
    <2>1. PICK old : old = quote[p]
      OBVIOUS
    <2>2. PriceIsPublished(old.dto, old.version, old.total)'
      BY <1>3, <2>1 DEF IInv, QuotesPriced
    <2> QED BY <1>2, <2>1, <2>2
  <1>16. DirectPriced'
    <2> SUFFICES ASSUME edits = 0, NEW i \in DOMAIN placed',
                        placed'[i].quote = None,
                        placed'[i].task # "pedicab_delivery"
                 PROVE  /\ placed'[i].task = placed'[i].dto.task
                        /\ \E v \in 1..Current' :
                             placed'[i].fee \in DirectPrices(placed[i].dto, v)'
      BY <1>2 DEF DirectPriced
    <2>1. CASE placed'[i] = order
      <3>1. PICK v \in 1..Current : fee \in DirectPrices(d, v)
        BY <1>9, <1>10, <2>1
      <3>2. DirectPrices(placed[i].dto, v)' = DirectPrices(d, v)
        BY <1>3, <1>10, <2>1
      <3> QED BY <1>3, <1>10, <2>1, <3>1, <3>2
    <2>2. CASE i \in DOMAIN placed /\ placed'[i] = placed[i]
      BY <1>3, <2>2 DEF IInv, DirectPriced
    <2> QED BY <1>12, <2>1, <2>2
  <1>17. RequestsHold'
    <2>1. Asked(Idle) /\ Holds(Idle)'
      BY DEF Asked, Holds, Is, Idle
    <2>2. \A p \in Quotes : quote[p] # None => quote'[p] # None
      BY <1>2
    <2> QED BY <1>1, <1>2, <1>3, <2>1, <2>2, RequestsKept DEF IInv
  <1> QED BY <1>3, <1>13, <1>14, <1>15, <1>16, <1>17 DEF IInv

----------------------------------------------------------------------------
(* The invariant holds at the start and through every step.                 *)

LEMMA QuotesInit == Init => IInv
  <1> SUFFICES ASSUME Init PROVE IInv
    OBVIOUS
  <1>1. /\ rule = [s \in Services |-> DEFAULT_PRICING_RULES[s]]
        /\ route = [r \in Routes |-> IF r \in DOMAIN DEFAULT_SERVICE_ROUTES
                                     THEN DefaultRoute(r) ELSE None]
        /\ catalog = [s \in Services |-> DefaultService(s)]
        /\ revisions = [c \in Category |-> <<>>]
        /\ draft = [c \in Category |-> None]
        /\ edits = 0 /\ placed = <<>>
        /\ quote = [q \in Quotes |-> None]
        /\ req = [w \in Workers |-> Idle]
    BY DEF Init, InitConfig
  <1>2. revisions["PRICING"] = <<>> /\ Current = 1
    BY <1>1 DEF Category, Current, currentVersion, Version
  <1>3. /\ \A s, v : RuleAt(s, v) = DEFAULT_PRICING_RULES[s]
        /\ \A r, v : FareAt(r, v) = DEFAULT_SERVICE_ROUTES[r]
    <2>1. \A s, v : RulesUpTo(<<>>, s, v) = {}
      BY DEF RulesUpTo
    <2>2. \A r, v : FaresUpTo(<<>>, r, v) = {}
      BY DEF FaresUpTo
    <2> QED BY <1>2, <2>1, <2>2, RuleAtIsIn, FareAtIsIn DEF RuleIn, FareIn
  <1>4. ASSUME NEW s \in Services
        PROVE  /\ rule[s] = DEFAULT_PRICING_RULES[s] /\ rule[s] \in RuleRow
               /\ OfItsKind(s, rule[s]) /\ rule[s].version = 1
    BY <1>1, ConfigAssumption, DefaultRuleTyped DEF OfItsKind
  <1>5. TablesTyped
    <2>1. \A s : DefaultService(s) \in BOOLEAN
      BY DEF DefaultService
    <2>2. rule \in [Services -> RuleRow] /\ \A s \in Services : OfItsKind(s, rule[s])
      BY <1>1, <1>4
    <2>3. /\ route \in [Routes -> RouteRow \cup {None}]
          /\ \A r \in Routes \cap DOMAIN DEFAULT_SERVICE_ROUTES : route[r] \in RouteRow
      BY <1>1, DefaultRouteTyped
    <2> QED BY <1>1, <2>1, <2>2, <2>3 DEF TablesTyped
  <1>6. HistoryTyped
    BY <1>1 DEF HistoryTyped
  <1>7. OrdersTyped
    BY <1>1 DEF OrdersTyped
  <1>8. RequestsHold
    BY <1>1, IdleHolds DEF RequestsHold
  <1>9. UsedOnce
    BY <1>1 DEF UsedOnce, OrdersOf
  <1>10. LastIsItsOwn /\ RulesFollow /\ RulesUnedited
    <2>1. \A s \in Services : Last(s) = rule[s]
      BY <1>3, <1>4 DEF Last
    <2>2. 1 \in 1..Current /\ 1 >= 1
      BY <1>2
    <2> QED BY <1>3, <1>4, <2>1, <2>2 DEF LastIsItsOwn, RulesFollow, RulesUnedited
  <1>11. FaresFollow
    <2> SUFFICES ASSUME NEW r \in Routes, route[r] # None
                 PROVE  /\ route[r].service \in {"carpool_ride", "send_parcel"}
                        /\ r \in CarpoolLines => route[r].service = "carpool_ride"
                        /\ route[r].service = "carpool_ride"
                             => route[r].unit = FareAt(r, Current)
      BY DEF FaresFollow
    <2>1. r \in DOMAIN DEFAULT_SERVICE_ROUTES /\ route[r] = DefaultRoute(r)
      BY <1>1
    <2> QED BY <1>3, <2>1, DefaultRouteTyped
  <1>12. QuotesPriced /\ DirectPriced
    BY <1>1 DEF QuotesPriced, DirectPriced
  <1> QED BY <1>5, <1>6, <1>7, <1>8, <1>9, <1>10, <1>11, <1>12 DEF IInv

LEMMA QuotesStep == IInv /\ [Next]_vars => IInv'
  <1> SUFFICES ASSUME IInv, [Next]_vars PROVE IInv'
    OBVIOUS
  <1>1. CASE ConfigNext /\ UNCHANGED orderVars
    <2>1. ASSUME NEW w \in Workers, NEW c \in Category, PublishRead(w, c)
          PROVE  IInv'
      BY <1>1, <2>1, OperatorReads
    <2>2. ASSUME NEW w \in Workers, NEW c \in Category, NEW p \in Payloads[c],
                 NEW base \in 1..currentVersion(c), SaveDraftRead(w, c, base, p)
          PROVE  IInv'
      BY <1>1, <2>2, OperatorReads
    <2>3. ASSUME NEW w \in Workers,
                 SaveDraftWrite(w) \/ PublishCheck(w) \/ PublishTx(w)
          PROVE  IInv'
      BY <1>1, <2>3, SaveDraftWrites, PublishChecks, Publishes
    <2>4. ASSUME NEW s \in Services, NEW enabled \in BOOLEAN,
                 UpdateService(s, enabled)
          PROVE  IInv'
      BY <1>1, <2>4, UpdatesService
    <2>5. ASSUME NEW s \in Services, NEW e \in Edits, UpdatePricing(s, e)
          PROVE  IInv'
      BY <1>1, <2>5, UpdatesPricing
    <2>6. CASE Restart
      BY <1>1, <2>6, Boots
    <2>7. CASE ClockTurns
      BY <1>1, <2>7, ClockTurning
    <2> QED BY <1>1, <2>1, <2>2, <2>3, <2>4, <2>5, <2>6, <2>7 DEF ConfigNext
  <1>2. ASSUME NEW w \in Workers, OrderingStep(w) PROVE IInv'
    <2>1. ASSUME NEW d \in Wanted,
                 \/ QuoteOpen(w, d) \/ QuoteCarpoolRead(w, d)
                 \/ QuoteHandlingRead(w, d) \/ CreateReadRule(w, d)
          PROVE  IInv'
      BY <2>1, QuoteReads, OlderQuotesRead, CreateReads
    <2>2. CASE QuoteReadRule(w) \/ QuoteCheckArea(w)
      BY <2>2, QuoteReads
    <2>3. CASE QuoteReadRoute(w)
      BY <2>3, QuotePrices
    <2>4. ASSUME NEW q \in Quotes,
                 \/ QuoteSave(w, q) \/ QuoteCarpoolSave(w, q)
                 \/ QuoteHandlingSave(w, q)
          PROVE  IInv'
      BY <2>4, QuotesSaved
    <2>5. ASSUME NEW q \in Quotes, CreateFromQuoteRead(w, q) PROVE IInv'
      BY <2>5, CreateReads
    <2>6. CASE CreateFromQuoteTx(w)
      BY <2>6, CreatesFromQuote
    <2>7. CASE CreateReadDistance(w)
      BY <2>7, CreateReads
    <2>8. CASE CreateWrite(w)
      BY <2>8, CreatesDirectly
    <2> QED BY <1>2, <2>1, <2>2, <2>3, <2>4, <2>5, <2>6, <2>7, <2>8
            DEF OrderingStep
  <1>3. ASSUME NEW w \in Workers, DropRequest(w), UNCHANGED orderVars PROVE IInv'
    BY <1>3, Dropped
  <1>4. ASSUME NEW q \in Quotes, QuoteExpires(q) PROVE IInv'
    BY <1>4, Expires
  <1>5. CASE UNCHANGED vars
    <2>1. UNCHANGED configVars /\ UNCHANGED <<quote, placed, req, edits>>
      BY <1>5 DEF vars, orderVars, configVars
    <2>2. PICK m : m = Current
      OBVIOUS
    <2>3. /\ TablesTyped' /\ HistoryTyped' /\ LastIsItsOwn'
          /\ RulesFollow' /\ FaresFollow' /\ RulesUnedited' /\ HistoryKept(m)
      BY <2>1, <2>2, ConfigKept
    <2>4. OrdersTyped' /\ UsedOnce' /\ QuotesPriced' /\ DirectPriced'
      BY <2>1, <2>2, <2>3, OrdersKept
    <2>5. RequestsHold'
      BY <2>1, <2>2, <2>3, RequestsKept DEF IInv
    <2> QED BY <2>3, <2>4, <2>5 DEF IInv
  <1> QED BY <1>1, <1>2, <1>3, <1>4, <1>5 DEF Next

(* The prices and quotes of ordering keep IInv in every reachable state,    *)
(* whatever publishers, customers, restarts and dropped requests interleave.*)
THEOREM QuotesInvariance == Spec => []IInv
  BY QuotesInit, QuotesStep, PTL DEF Spec

(* Every row of the rules, the lines, the drafts, the revisions, the quotes *)
(* and the orders holds values of its columns, for any payload the pages    *)
(* can type and validation passes.                                          *)
THEOREM QuotesTyped == Spec => []TypeOK
  <1>1. IInv => TypeOK
    <2> SUFFICES ASSUME IInv PROVE TypeOK
      OBVIOUS
    <2>1. \A s \in Services : rule[s].version \in Nat /\ rule[s].base \in Nat
      BY DEF IInv, TablesTyped, RuleRow
    <2>2. \A r \in Routes : route[r] # None => route[r].unit \in Nat
      BY DEF IInv, TablesTyped, RouteRow
    <2>3. \A c \in Category : draft[c] \in Draft \cup {None}
                              /\ revisions[c] \in Seq(Payloads[c])
      <3> SUFFICES ASSUME NEW c \in Category
                   PROVE  draft[c] \in Draft \cup {None}
                          /\ revisions[c] \in Seq(Payloads[c])
        OBVIOUS
      <3>1. revisions[c] \in Seq(Payloads[c])
        BY DEF IInv, HistoryTyped
      <3>2. draft[c] # None => draft[c] \in [base : Nat, payload : Payloads[c]]
        BY DEF IInv, HistoryTyped
      <3>3. Payloads[c] \subseteq UNION {Payloads[k] : k \in Category}
        OBVIOUS
      <3> QED BY <3>1, <3>2, <3>3 DEF Draft
    <2>4. \A q \in Quotes : quote[q] # None => /\ quote[q].dto \in Wanted
                                               /\ quote[q].total \in Nat
      BY DEF IInv, OrdersTyped, QuoteRow
    <2>5. \A i \in DOMAIN placed : placed[i].fee \in Nat
      <3> SUFFICES ASSUME NEW i \in DOMAIN placed PROVE placed[i].fee \in Nat
        OBVIOUS
      <3>1. placed \in Seq(OrderRow)
        BY DEF IInv, OrdersTyped
      <3>2. placed[i] \in OrderRow
        BY <3>1
      <3> QED BY <3>2 DEF OrderRow
    <2> QED BY <2>1, <2>2, <2>3, <2>4, <2>5 DEF TypeOK, IInv, TablesTyped
  <1> QED BY <1>1, QuotesInvariance, PTL

(* A used quote has paid for exactly one order and an unused one for none,  *)
(* for any number of requests that carry it at the same time                *)
(* (OrdersService.create's conditional update of the quote).                *)
THEOREM QuotePaysOnce == Spec => []QuoteUsedOnce
  <1>1. IInv => QuoteUsedOnce
    <2> SUFFICES ASSUME IInv, NEW q \in Quotes, quote[q] # None
                 PROVE  Cardinality({i \in DOMAIN placed : placed[i].quote = q})
                          = (IF quote[q].used THEN 1 ELSE 0)
      BY DEF QuoteUsedOnce
    <2>1. {i \in DOMAIN placed : placed[i].quote = q} = OrdersOf(q)
      BY DEF OrdersOf
    <2>2. CASE quote[q].used
      <3>1. PICK i \in OrdersOf(q) : OrdersOf(q) = {i}
        BY <2>2 DEF IInv, UsedOnce
      <3>2. Cardinality({i}) = 1
        BY FS_Singleton
      <3> QED BY <2>1, <2>2, <3>1, <3>2
    <2>3. CASE ~quote[q].used
      <3>1. OrdersOf(q) = {} /\ Cardinality({}) = 0
        BY <2>3, FS_EmptySet DEF IInv, UsedOnce
      <3> QED BY <2>1, <2>3, <3>1
    <2> QED BY <2>2, <2>3
  <1> QED BY <1>1, QuotesInvariance, PTL

(* The rule in force is the last revision's, or a direct edit made after    *)
(* it, whichever publishers, edits and restarts raced (publish and          *)
(* updatePricing).                                                          *)
THEOREM RulesAreLastRevision == Spec => []LiveRulesAreLastRevision
  <1>1. IInv => LiveRulesAreLastRevision
    BY DEF IInv, RulesFollow, Last, Current, LiveRulesAreLastRevision
  <1> QED BY <1>1, QuotesInvariance, PTL

(* A quote's price is one published at the version it records, although     *)
(* quote() reads rule and route at different times.                         *)
THEOREM QuotedAtPublishedPrice == Spec => []QuotedPriceWasPublished
  <1>1. IInv => QuotedPriceWasPublished
    BY DEF IInv, QuotesPriced, PriceIsPublished, QuotedPriceWasPublished
  <1> QED BY <1>1, QuotesInvariance, PTL

(* An order placed without a quote costs what quote() would have asked at   *)
(* some published version, plus the fee of one kilometre exactly where the  *)
(* kilometres of create() come out above the whole number in doubles, or    *)
(* the built-in price of a rule switched off: create() and quote() compute  *)
(* the price twice over, and differ in nothing else.                        *)
THEOREM DirectFeeAgrees == Spec => []DirectFeeIsAQuote
  <1>1. IInv => DirectFeeIsAQuote
    <2> SUFFICES ASSUME IInv, edits = 0, NEW i \in DOMAIN placed,
                        placed[i].quote = None,
                        placed[i].task # "pedicab_delivery"
                 PROVE  \E v \in 1..currentVersion("PRICING") :
                          IF RuleAt(placed[i].task, v).enabled
                          THEN \E price \in PublishedPrices(placed[i].dto, v) :
                                 placed[i].fee
                                   = price + KilometreMore(placed[i].dto,
                                               RuleAt(placed[i].task, v))
                          ELSE placed[i].fee \in BuiltinPrices(placed[i].dto)
      BY DEF DirectFeeIsAQuote
    <2>1. placed[i].task = placed[i].dto.task
          /\ \E v \in 1..Current : placed[i].fee \in DirectPrices(placed[i].dto, v)
      BY DEF IInv, DirectPriced
    <2> QED BY <2>1 DEF DirectPrices, Current
  <1> QED BY <1>1, QuotesInvariance, PTL

(* No order is placed on a quote whose validity has run out, even when it   *)
(* ran out after create() first read the quote.                             *)
THEOREM ExpiredBuysNothing == Spec => ExpiredQuoteBuysNothing
  <1>1. IInv /\ [Next]_vars =>
          [\A q \in Quotes : quote[q] # None /\ quote[q].expired
                               => quote'[q].used = quote[q].used]_vars
    <2> SUFFICES ASSUME IInv, Next, NEW q \in Quotes, quote[q] # None,
                        quote[q].expired
                 PROVE  quote'[q].used = quote[q].used
      OBVIOUS
    <2>1. quote \in [Quotes -> QuoteRow \cup {None}]
      BY DEF IInv, OrdersTyped
    <2>2. ASSUME quote' = quote PROVE quote'[q].used = quote[q].used
      BY <2>2
    <2>3. CASE ConfigNext /\ UNCHANGED orderVars
      BY <2>2, <2>3 DEF orderVars
    <2>4. ASSUME NEW w \in Workers, OrderingStep(w)
          PROVE  quote'[q].used = quote[q].used
      <3>1. ASSUME NEW p \in Quotes, quote[p] = None,
                   NEW row, quote' = [quote EXCEPT ![p] = row]
            PROVE  quote'[q].used = quote[q].used
        BY <2>1, <3>1
      <3>2. ASSUME NEW p \in Quotes,
                   \/ QuoteSave(w, p) \/ QuoteCarpoolSave(w, p)
                   \/ QuoteHandlingSave(w, p)
            PROVE  quote'[q].used = quote[q].used
        BY <3>1, <3>2 DEF QuoteSave, QuoteCarpoolSave, QuoteHandlingSave
      <3>3. CASE CreateFromQuoteTx(w)
        <4>1. PICK p : p = req[w].quote
          OBVIOUS
        <4>2. /\ ~quote[p].expired
              /\ quote' = [quote EXCEPT ![p] = [@ EXCEPT !.used = TRUE]]
          BY <3>3, <4>1 DEF CreateFromQuoteTx, Consumable
        <4> QED BY <2>1, <4>2
      <3>4. CASE UNCHANGED quote
        BY <3>4
      <3> QED BY <2>4, <3>2, <3>3, <3>4
              DEF OrderingStep, QuoteOpen, QuoteCarpoolRead, QuoteHandlingRead,
                  CreateReadRule, QuoteReadRule, QuoteCheckArea, QuoteReadRoute,
                  CreateFromQuoteRead, CreateReadDistance, CreateWrite, orderVars
    <2>5. ASSUME NEW w \in Workers, DropRequest(w), UNCHANGED orderVars
          PROVE  quote'[q].used = quote[q].used
      BY <2>5 DEF orderVars
    <2>6. ASSUME NEW p \in Quotes, QuoteExpires(p)
          PROVE  quote'[q].used = quote[q].used
      <3>1. quote[p] \in QuoteRow
        BY <2>1, <2>6 DEF QuoteExpires
      <3>2. PICK old \in QuoteRow : old = quote[p]
        BY <3>1
      <3>3. quote' = [quote EXCEPT ![p] = [old EXCEPT !.expired = TRUE]]
        BY <2>6, <3>2 DEF QuoteExpires
      <3>4. [old EXCEPT !.expired = TRUE].used = old.used
        BY DEF QuoteRow
      <3> QED BY <2>1, <3>2, <3>3, <3>4
    <2> QED BY <2>3, <2>4, <2>5, <2>6 DEF Next
  <1> QED BY <1>1, QuotesInvariance, PTL DEF Spec, ExpiredQuoteBuysNothing

(* A revision replaces the very version its draft was edited from, however  *)
(* many operators save and publish at the same time.                        *)
THEOREM RevisionKeepsToItsBase == Spec => RevisionReplacesItsBase
  <1>1. IInv /\ [Next]_vars =>
          [\A c \in Category : revisions'[c] # revisions[c] =>
             \E w \in Workers :
               /\ At(w, "publish", "tx") /\ req'[w] = Idle
               /\ req[w].cat = c /\ req[w].base = currentVersion(c)]_vars
    <2> SUFFICES ASSUME IInv, Next, NEW c \in Category,
                        revisions'[c] # revisions[c]
                 PROVE  \E w \in Workers :
                          /\ At(w, "publish", "tx") /\ req'[w] = Idle
                          /\ req[w].cat = c /\ req[w].base = currentVersion(c)
      OBVIOUS
    <2>1. \E w \in Workers : PublishTx(w)
      <3>1. CASE ConfigNext
        BY <3>1 DEF ConfigNext, PublishRead, SaveDraftRead, SaveDraftWrite,
                    PublishCheck, UpdateService, UpdatePricing, Restart, ClockTurns,
                    configVars, configTables
      <3>2. ASSUME NEW w \in Workers, OrderingStep(w) PROVE FALSE
        <4>1. UNCHANGED configVars
          BY <3>2 DEF OrderingStep, QuoteOpen, QuoteCarpoolRead, QuoteHandlingRead,
                  CreateReadRule, QuoteReadRule, QuoteCheckArea, QuoteReadRoute,
                  CreateFromQuoteRead, CreateReadDistance, CreateWrite, QuoteSave,
                  QuoteCarpoolSave, QuoteHandlingSave, CreateFromQuoteTx
        <4> QED BY <4>1 DEF configVars, configTables
      <3>3. ASSUME NEW w \in Workers, DropRequest(w) PROVE FALSE
        BY <3>3 DEF DropRequest, configVars, configTables
      <3>4. ASSUME NEW q \in Quotes, QuoteExpires(q) PROVE FALSE
        BY <3>4 DEF QuoteExpires, configVars, configTables
      <3> QED BY <3>1, <3>2, <3>3, <3>4 DEF Next
    <2>2. PICK w \in Workers : PublishTx(w)
      BY <2>1
    <2>3. PICK k, base : k = req[w].cat /\ base = req[w].base
      OBVIOUS
    <2>4. /\ At(w, "publish", "tx") /\ req' = [req EXCEPT ![w] = Idle]
          /\ req[w].next = currentVersion(k) + 1
          /\ revisions' = [revisions EXCEPT ![k] = Append(@, req[w].payload)]
      BY <2>2, <2>3 DEF PublishTx, NextVersionFree, Finish, Goto
    <2>5. k \in Category /\ base \in Nat /\ req[w].next = base + 1
          /\ DOMAIN req = Workers
      BY <2>3, <2>4 DEF At, IInv, RequestsHold, Asked, Is
    <2>6. currentVersion(k) \in Nat
      <3>1. Len(revisions[k]) \in Nat
        BY <2>5 DEF IInv, HistoryTyped
      <3> QED BY <3>1 DEF currentVersion, Version
    <2>7. base = currentVersion(k)
      BY <2>4, <2>5, <2>6
    <2>8. k = c
      BY <2>4 DEF IInv, HistoryTyped
    <2>9. req'[w] = Idle
      BY <2>4, <2>5
    <2> QED BY <2>3, <2>4, <2>7, <2>8, <2>9
  <1> QED BY <1>1, QuotesInvariance, PTL DEF Spec, RevisionReplacesItsBase
=============================================================================
