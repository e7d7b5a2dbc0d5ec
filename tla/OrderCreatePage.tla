--------------------------- MODULE OrderCreatePage ---------------------------
(***************************************************************************)
(* From choosing a service to the placed order: the home page (index.js),  *)
(* the order page (order-create.js) and the address page (address.js)      *)
(* against the server of PriceQuotes, whose handlers run in one step here  *)
(* (PriceQuotes itself is about their interleavings).                      *)
(*                                                                         *)
(* The pages ask for the configuration, the route and the weather; answers *)
(* come in any order, after another page has opened, or not at all.  A     *)
(* submission is a chain of promises: quote, perhaps a dialog, order,      *)
(* payment.                                                                *)
(***************************************************************************)
EXTENDS OrderForm

CONSTANTS
    Skies,          \* what the weather provider may report
    Drafts,         \* where the customer is found, EmptyForm or further
    MaxCalls,       \* bound on the questions waiting when one more is asked
    MapKey          \* whether the server has a key for the maps provider

(* The row of a quote for a draft.                                          *)
SubmittedQuote ==
    [dto : PricingQuoteDto, task : SERVICE_IDS, routeId : Routes \cup {None},
     unit : Nat, total : Nat, version : Nat, used : BOOLEAN, expired : BOOLEAN]

(* roundDistance answers a tenth of a kilometre or more, and the server     *)
(* prices what it answers for the way a car drives.                         *)
ASSUME PageAssumption ==
    /\ {DefaultPickup, DefaultDropoff, FudingStop} \subseteq Places
    /\ None \notin Places /\ None \notin SubmittedQuote
    /\ {"moving_handling", "send_parcel", "cargo_haul"} \subseteq Services
    /\ \A f \in Drafts : DraftTyped(f)
    /\ \A p \in Places, q \in Places :
         /\ estimateDistance(p, q) \subseteq Nat
         /\ distance("driving", p, q) \subseteq {Distance[p, q]}

VARIABLES
    form,           \* app.globalData.draftOrder
    known,          \* app.globalData.appConfig, None before the first answer
    page,           \* where the customer is, and the order page's data
    calls,          \* questions asked and not answered yet
    tries           \* submissions, oldest first

createVars == <<form, known, page, calls, tries>>
pageVars   == <<vars, createVars>>

EmptyForm ==
    [task |-> "cargo_haul", carpool |-> FALSE, line |-> None, lines |-> <<>>,
     district |-> FALSE, direction |-> "OUTBOUND", passengers |-> 1,
     pickup |-> DefaultPickup, dropoff |-> None, weight |-> 1, pet |-> FALSE,
     budget |-> 0, km |-> 0, stray |-> FALSE, bad |-> FALSE, quoteId |-> None,
     mode |-> "distance", base |-> 3300, perKm |-> 300, included |-> 4000,
     weather |-> 0, parcel |-> <<>>, remote |-> FALSE]

(* Neither of the three pages is on the screen.  opener is the page that is *)
(* under the address page; timer is set once an order page was closed       *)
(* without ending its timer.                                                *)
Elsewhere == [at |-> "away", opener |-> "home", picking |-> None, shown |-> 0,
              ready |-> FALSE, submitting |-> FALSE, timer |-> FALSE]

PageInit ==
    /\ Init
    /\ form \in Drafts
    /\ known = None
    /\ page = Elsewhere
    /\ calls = {}
    /\ tries = <<>>

Customer(at)   == page.at = at /\ Spend
Filling(at)    == /\ page.at = at
                  /\ IF isRouteTask(form.task) THEN UNCHANGED budget ELSE Spend
MayAsk         == Cardinality(calls) < MaxCalls
ServerStays    == UNCHANGED <<configVars, orderVars, req>>
businessOpen   == known # None => known.openNow

----------------------------------------------------------------------------
(* Questions and answers.  A question of the order page carries the number  *)
(* of the onShow it belongs to, and whether its page is still open; the     *)
(* configuration answers with what was in force when it was asked.          *)

AskConfig(from, turn) ==
    [kind |-> "config", open |-> TRUE, from |-> from, turn |-> turn,
     config |-> getAppConfig]
AskRoute(f, turn) ==
    [kind |-> "route", open |-> TRUE, turn |-> turn, last |-> TRUE,
     ends |-> <<f.pickup, f.dropoff>>]
AskWeather(turn) ==
    [kind |-> "weather", open |-> TRUE, turn |-> turn, last |-> TRUE]

forecast(sky) ==
    IF MapKey THEN normalizeTencentWeather(sky.now, sky.hours, sky.alarms)
    ELSE fetchOpenMeteoForecast(sky.coming)

Weathers(f) ==
    {resolve(f.dropoff \in WithPoint, forecast(sky), up) :
       sky \in Skies, up \in BOOLEAN}

(* refreshRouteEstimate and refreshWeatherRisk: a draft without both ends   *)
(* asks nothing and leaves earlier answers valid; a service without weather *)
(* prices is set to good weather at once.                                   *)
AsksRoute(f)   == f.pickup # None /\ f.dropoff # None
AsksWeather(f) == inferPricingMode(f) = "distance_weather"
DryUnlessAsked(f) == IF AsksWeather(f) THEN f ELSE [f EXCEPT !.bad = FALSE]

Questions(f, turn, kinds) ==
    (IF "route" \in kinds /\ AsksRoute(f) THEN {AskRoute(f, turn)} ELSE {})
    \cup
    (IF "weather" \in kinds /\ AsksWeather(f) THEN {AskWeather(turn)} ELSE {})

(* Slip: an answer counts whatever was asked since.                         *)
NeverOvertaken(c, asked) == c

(* routeSeq and weatherSeq: a question overtakes the earlier ones of its    *)
(* kind and page, whose answers will change nothing.                        *)
Overtaken(c, asked) ==
    IF \E q \in asked : q.kind = c.kind /\ q.open /\ c.open
    THEN [c EXCEPT !.last = FALSE] ELSE c

Asking(earlier, asked) == calls' = {Overtaken(c, asked) : c \in earlier} \cup asked

(* refreshLocalEstimate, with the normalisation of prepareFormState.        *)
prepareFormState(f) ==
    [f EXCEPT
       !.line = IF ~isRouteTask(f.task) /\ f.lines # <<>>
                     /\ (f.line = None \/ f.line.id \notin DOMAIN f.lines)
                THEN f.lines[CHOOSE r \in DOMAIN f.lines : TRUE] ELSE @,
       !.weight = IF f.task = "send_parcel" THEN IF @ > 10 THEN 30 ELSE 10
                  ELSE @]

Refresh(f, pg) ==
    /\ form' = prepareFormState(f)
    /\ page' = [pg EXCEPT !.shown = estimateFee(prepareFormState(f)).total]

(* The customer edits the draft on the order page.                          *)
Edit(f) ==
    /\ page.at = "create"
    /\ Refresh(f, page)
    /\ UNCHANGED <<known, calls, tries>> /\ ServerStays

----------------------------------------------------------------------------
(* The home page.                                                           *)

ensureDefaultOrderAddresses(f) ==
    [f EXCEPT !.pickup  = IF @ = None THEN DefaultPickup ELSE @,
              !.dropoff = IF @ = None THEN DefaultDropoff ELSE @]

WithoutRoute(f) ==
    [f EXCEPT !.pickup = None, !.dropoff = None, !.km = 0, !.quoteId = None]

(* A change of service: to and from the line services the addresses go.     *)
TaskChanged(f, t) ==
    LET fresh == [f EXCEPT !.budget = IF t = "buy_for_me" THEN @ ELSE 0,
                           !.pet = FALSE, !.carpool = FALSE]
    IN IF isRouteTask(t)
       THEN [WithoutRoute(fresh) EXCEPT !.district = FALSE,
                                        !.direction = "OUTBOUND"]
       ELSE IF isRouteTask(f.task)
       THEN ensureDefaultOrderAddresses(WithoutRoute(fresh))
       ELSE fresh

ensureDraftTask(f, t, config) ==
    LET built   == buildDraftService(f, t)
        chosen  == IF f.task = t THEN [built EXCEPT !.line = f.line]
                   ELSE [TaskChanged(f, t) EXCEPT
                           !.task = built.task, !.mode = built.mode,
                           !.line = None, !.lines = <<>>, !.parcel = <<>>,
                           !.bad = FALSE, !.base = built.base,
                           !.perKm = built.perKm, !.remote = FALSE,
                           !.included = built.included,
                           !.weather = built.weather]
        placed2 == IF ~isRouteTask(t) \/ chosen.line # None
                   THEN ensureDefaultOrderAddresses(chosen) ELSE chosen
        labour  == IF t = "moving_handling"
                   THEN [placed2 EXCEPT !.dropoff = None] ELSE placed2
    IN applyRemoteConfigToDraft(applyVehicleToDraft(labour), config)

ChooseTask(t) ==
    /\ Customer("home")
    /\ businessOpen
    /\ isTaskEnabled(t)
    /\ form' = ensureDraftTask(form, t, known)
    /\ UNCHANGED <<known, page, calls, tries>> /\ ServerStays

(* onShow of the home page: a service that is no longer offered gives way   *)
(* to the default, and the configuration is asked for.  The answer keeps    *)
(* the service by then chosen, unless it is switched off for good.          *)
ShownTasks(t, c) ==
    IF t \in EnabledTasks /\ (visibleTasks(c) = {} \/ t \in visibleTasks(c))
    THEN {t} ELSE defaultTaskIds(c)

AppliedTasks(t, c) == IF isTaskEnabled(t) THEN {t} ELSE defaultTaskIds(c)

HomeShow ==
    /\ \/ Customer("home")
       \/ page.at = "away" /\ UNCHANGED budget
       \/ page.at = "address" /\ page.opener = "home" /\ UNCHANGED budget
    /\ MayAsk
    /\ \E t \in ShownTasks(form.task, known) :
         form' = ensureDraftTask(form, t, known)
    /\ page' = [page EXCEPT !.at = "home", !.picking = None]
    /\ calls' = calls \cup {AskConfig("home", 0)}
    /\ UNCHANGED <<known, tries>> /\ ServerStays

(* The home page's timer.                                                   *)
HomeAsks ==
    /\ Customer("home")
    /\ MayAsk
    /\ calls' = calls \cup {AskConfig("home", 0)}
    /\ UNCHANGED <<form, known, page, tries>> /\ ServerStays

(* The home page opens the address page too; where the service is named the *)
(* sender's address can always be chosen.                                   *)
chooseAddress(end) ==
    /\ Customer("home")
    /\ end = "dropoff" => ~isRouteTask(form.task)
                           /\ form.task # "moving_handling"
    /\ page' = [page EXCEPT !.at = "address", !.picking = end]
    /\ UNCHANGED <<form, known, calls, tries>> /\ ServerStays

(* onShow of the order page.                                                *)
normalizeHandlingDraft(f) ==
    IF f.task = "moving_handling" \/ inferPricingMode(f) \in LabourModes
    THEN applyVehicleToDraft(
           [buildDraftService(f, "moving_handling") EXCEPT
              !.budget = 0, !.dropoff = None])
    ELSE f

onShow ==
    LET f == applyRemoteConfigToDraft(normalizeHandlingDraft(form), known)
        turn == CHOOSE n \in 1..Cardinality(calls) + 1 :
                  \A c \in calls : c.turn # n
    IN /\ isTaskEnabled(f.task)
       /\ Refresh(f, [page EXCEPT !.at = "create", !.opener = "create",
                                  !.picking = None, !.ready = FALSE])
       /\ MayAsk
       /\ calls' = calls \cup {AskConfig("show", turn)}
       /\ UNCHANGED <<known, tries>> /\ ServerStays

goOrder ==
    /\ page.at = "home" /\ UNCHANGED budget
    /\ businessOpen
    /\ ~isRouteTask(form.task) =>
         /\ form.pickup # None
         /\ form.task # "moving_handling" => form.dropoff # None
    /\ onShow

(* Closing the order page, which only onHide would do in order: its timer   *)
(* goes on.  What it asked still answers, into the draft but not onto a     *)
(* screen; an answer already overtaken has no effect.                       *)
Orphan(c) ==
    IF c.kind = "config" /\ c.from = "home" THEN c
    ELSE [c EXCEPT !.open = FALSE, !.turn = 0]

Leave ==
    /\ page' = [Elsewhere EXCEPT !.timer = TRUE]
    /\ calls' = {Orphan(c) : c \in {x \in calls : x.kind = "config" \/ x.last}}

goBack ==
    /\ Customer("create")
    /\ Leave
    /\ tries' = [i \in DOMAIN tries |-> [tries[i] EXCEPT !.open = FALSE]]
    /\ UNCHANGED <<form, known>> /\ ServerStays

----------------------------------------------------------------------------
(* Answers.                                                                 *)

Answered(c, asked) == Asking(calls \ {c}, asked)

(* An onShow is over, and submitting allowed, when nothing it asked is left *)
(* unanswered.                                                              *)
Settles(c, asked) ==
    /\ c.turn # 0
    /\ \A x \in (calls \ {c}) \cup asked : x.turn # c.turn

ConfigAnswered(c, ok) ==
    /\ c \in calls /\ c.kind = "config"
    /\ known' = IF ok THEN c.config ELSE known
    /\ LET synced == prepareFormState(applyRemoteConfigToDraft(form, known'))
           f      == IF c.from = "show" THEN DryUnlessAsked(synced) ELSE synced
           asked  == IF c.from = "show"
                     THEN Questions(f, c.turn, {"route", "weather"}) ELSE {}
       IN IF c.from = "home"
          THEN /\ \E t \in AppliedTasks(form.task, known') :
                    form' = ensureDraftTask(form, t, known')
               /\ Answered(c, {})
               /\ UNCHANGED page
          ELSE IF c.open
          THEN /\ Answered(c, asked)
               /\ Refresh(f, [page EXCEPT !.ready = @ \/ Settles(c, asked)])
          ELSE /\ form' = f
               /\ Answered(c, {Orphan(q) : q \in asked})
               /\ UNCHANGED page
    /\ UNCHANGED <<tries, budget>> /\ ServerStays

(* An answer that has been overtaken changes nothing but still settles.     *)
Landed(c, f) ==
    /\ Answered(c, {})
    /\ form' = IF c.last THEN f ELSE form
    /\ page' = [page EXCEPT
                  !.ready = @ \/ Settles(c, {}),
                  !.shown = IF c.last /\ c.open
                            THEN estimateFee(f).total ELSE @]
    /\ UNCHANGED <<known, tries, budget>> /\ ServerStays

RouteAnswered(c) ==
    /\ c \in calls /\ c.kind = "route"
    /\ \E metres \in estimateDistance(c.ends[1], c.ends[2]) :
         Landed(c, [form EXCEPT !.km = metres, !.stray = ~c.open])

WeatherAnswered(c) ==
    /\ c \in calls /\ c.kind = "weather"
    /\ \E bad \in Weathers(form) \cup {FALSE} :
         Landed(c, [form EXCEPT !.bad = bad])

(* Every thirty seconds the order page asks for the configuration again.    *)
pricingSync ==
    /\ Customer("create")
    /\ MayAsk
    /\ calls' = calls \cup {AskConfig("tick", 0)}
    /\ UNCHANGED <<form, known, page, tries>> /\ ServerStays

(* So does the timer of an order page that was closed, wherever the         *)
(* customer is by now.                                                      *)
ClosedPageSyncs ==
    /\ page.timer /\ Spend
    /\ MayAsk
    /\ calls' = calls \cup {Orphan(AskConfig("tick", 0))}
    /\ UNCHANGED <<form, known, page, tries>> /\ ServerStays

----------------------------------------------------------------------------
(* The customer fills in the form.                                          *)

selectServiceMode(carpool) ==
    /\ form.task = "send_parcel"
    /\ form.carpool # carpool
    /\ Filling("create")
    /\ Edit([WithoutRoute(form) EXCEPT
               !.carpool = carpool, !.line = None, !.district = FALSE,
               !.direction = "OUTBOUND", !.passengers = 1, !.pet = FALSE,
               !.mode = IF carpool THEN "fixed_line_ride" ELSE "parcel_category"])

TaskLines ==
    IF isCarpoolMode(form)
    THEN [r \in DOMAIN carpoolLines |-> Line(r, carpoolLines[r], TRUE)]
    ELSE IF form.remote \/ form.lines # <<>> THEN form.lines
    ELSE [r \in BuiltinLines(form.task) |-> Line(r, 0, FALSE)]

(* applyRoute of carpool.js: one end is the fixed stop, the other the       *)
(* city's address, kept if it still fits.                                   *)
isSelectedCityAddress(p, r) == p # None /\ p # FudingStop /\ p \in PlacesOf[r]

getCitySideAddress(f) == IF f.direction = "RETURN" THEN f.pickup ELSE f.dropoff

applyRoute(f, r, address) ==
    LET city == IF isSelectedCityAddress(address, r) THEN address ELSE None
        out  == f.direction = "OUTBOUND"
    IN [f EXCEPT !.line    = Line(r, carpoolLines[r], FALSE),
                 !.pickup  = IF out THEN FudingStop ELSE city,
                 !.dropoff = IF out THEN city ELSE FudingStop,
                 !.quoteId = None, !.km = 0]

(* The route is asked for again, unless an end is missing: then an answer   *)
(* already under way stays current.                                         *)
selectLine(r) ==
    /\ r \in DOMAIN TaskLines \cap Routes
    /\ LET chosen == [WithoutRoute(form) EXCEPT !.line = TaskLines[r],
                                                !.district = FALSE]
           f == applyVehicleToDraft(IF isCarpoolMode(form)
                                    THEN applyRoute(chosen, r, None) ELSE chosen)
           asked == Questions(f, 0, {"route"})
       IN /\ Customer("create")
          /\ Refresh(f, page)
          /\ asked # {} => MayAsk
          /\ Asking(calls, asked)
    /\ UNCHANGED <<known, tries>> /\ ServerStays

(* Only parcels have pets among their goods and shared rides have no goods; *)
(* choosing labour rings somebody up.                                       *)
selectItem(pet) ==
    LET f == DryUnlessAsked([form EXCEPT !.pet = pet])
        asked == Questions(f, 0, {"weather"})
    IN /\ Customer("create")
       /\ inferPricingMode(form) \notin LabourModes
       /\ ~isCarpoolMode(form)
       /\ pet => form.task = "send_parcel"
       /\ Refresh(f, page)
       /\ asked # {} => MayAsk
       /\ Asking(calls, asked)
       /\ UNCHANGED <<known, tries>> /\ ServerStays

selectWeight(kg) == Customer("create") /\ Edit([form EXCEPT !.weight = kg])

selectDistrict ==
    /\ Filling("create")
    /\ form.line # None
    /\ LET f == [form EXCEPT !.district = TRUE] IN
       Edit(IF isCarpoolMode(form) THEN applyRoute(f, f.line.id, None) ELSE f)

selectDirection(dir) ==
    /\ Customer("create")
    /\ LET f == [form EXCEPT !.direction = dir] IN
       Edit(IF form.line # None /\ isCarpoolMode(form)
            THEN applyRoute(f, f.line.id, getCitySideAddress(form)) ELSE f)

changePassenger(n) == /\ Customer("create") /\ isCarpoolMode(form)
                      /\ Edit([form EXCEPT !.passengers = n])
inputBudget(fen)   == /\ Customer("create") /\ form.task = "buy_for_me"
                      /\ Edit([form EXCEPT !.budget = fen])

(* The address page writes into the draft and returns 350 ms later.         *)
chooseRouteAddress(end) ==
    /\ Customer("create")
    /\ isRouteTask(form.task) => form.line # None
    /\ form.task = "send_parcel" /\ ~isCarpoolMode(form) => form.district
    /\ page' = [page EXCEPT !.at = "address", !.picking = end]
    /\ UNCHANGED <<form, known, calls, tries>> /\ ServerStays

applySelectedAddress(f, p, end) ==
    applyRoute([f EXCEPT !.direction = IF end = "pickup" THEN "RETURN"
                                       ELSE "OUTBOUND"], f.line.id, p)

(* Opened by the home page, it knows nothing of lines.                      *)
OfALine == page.opener = "create" /\ isRouteTask(form.task)

selectAddress(p) ==
    /\ Filling("address")
    /\ page.picking # None
    /\ OfALine => form.line # None /\ isSelectedCityAddress(p, form.line.id)
    /\ form' = IF OfALine /\ isCarpoolMode(form)
               THEN applySelectedAddress(form, p, page.picking)
               ELSE IF page.picking = "pickup"
               THEN [form EXCEPT !.pickup = p, !.km = 0]
               ELSE [form EXCEPT !.dropoff = p, !.km = 0]
    /\ page' = [page EXCEPT !.picking = None]
    /\ UNCHANGED <<known, calls, tries>> /\ ServerStays

navigateBack ==
    /\ page.at = "address" /\ page.opener = "create"
    /\ onShow /\ UNCHANGED budget

----------------------------------------------------------------------------
(* submitOrder.                                                             *)

QuoteDto(f) ==
    [task |-> f.task, carpool |-> isCarpoolMode(f),
     routeId |-> IF f.line = None THEN None ELSE f.line.id,
     direction |-> f.direction, passengers |-> f.passengers,
     pickup |-> f.pickup, dropoff |-> f.dropoff, weight |-> f.weight,
     pet |-> f.pet,
     product |-> IF f.task = "buy_for_me" THEN f.budget ELSE 0]

carpoolValidateDraft(f) ==
    /\ f.line.id \in {"wenzhou", "fuzhou"} \/ f.district
    /\ isSelectedCityAddress(getCitySideAddress(f), f.line.id)

MaySubmit(f) ==
    /\ isTaskEnabled(f.task)
    /\ isRouteTask(f.task) => f.line # None
    /\ isCarpoolMode(f) => carpoolValidateDraft(f)
    /\ f.task = "send_parcel" /\ ~isCarpoolMode(f) =>
         /\ f.district
         /\ isSelectedCityAddress(f.pickup, f.line.id)
         /\ isSelectedCityAddress(f.dropoff, f.line.id)
    /\ f.pickup # None
    /\ f.task # "moving_handling" => f.dropoff # None

submitOrder ==
    /\ Customer("create")
    /\ MaySubmit(form)
    /\ page.ready
    /\ ~page.submitting
    /\ ~estimateFee(form).pending
    /\ page' = [page EXCEPT !.submitting = TRUE]
    /\ tries' = Append(tries,
         [phase |-> "quoting", dto |-> QuoteDto(form),
          agreed |-> estimateFee(form).total, quote |-> None, goods |-> None,
          open |-> TRUE])
    /\ UNCHANGED <<form, known, calls>> /\ ServerStays

(* Whichever way a submission ends, isSubmitting is reset.                  *)
Step(i, try) == tries' = [tries EXCEPT ![i] = try]
Ends(i, phase) ==
    /\ Step(i, [tries[i] EXCEPT !.phase = phase])
    /\ page' = IF tries[i].open THEN [page EXCEPT !.submitting = FALSE]
               ELSE page

(* The whole of the server's quote.                                         *)
ServerQuote(d) ==
    IF /\ settings.accepting /\ isWithinHours(settings)
       /\ rule[d.task].enabled
       /\ d.task = "send_parcel" /\ ~d.carpool => validateParcelRouteAddress(d)
       /\ checkServiceArea(d.task, CheckedPickup(d), CheckedDropoff(d))
       /\ RouteAccepted(d, rule[d.task], FoundRoute(d))
    THEN QuotedPrice(d, rule[d.task], FoundRoute(d)) ELSE {}

(* buildBackendPayload reads the draft as it is when the order is sent, and *)
(* fails when an address has been cleared meanwhile.                        *)
Goods(f) == [pickup |-> f.pickup, dropoff |-> f.dropoff, weight |-> f.weight]

SendOrder(i, q, agreed) ==
    IF form.pickup = None THEN Ends(i, "failed") /\ UNCHANGED form
    ELSE /\ form' = [form EXCEPT !.quoteId = q]
         /\ Step(i, [tries[i] EXCEPT !.phase = "ordering", !.quote = q,
                       !.agreed = agreed, !.goods = Goods(form)])
         /\ UNCHANGED page

(* Slip: the dialog is left out when the price went down.                   *)
OnlyIncreases(total, shown) == total <= shown

(* A difference of a tenth of a fen is none.                                *)
SamePrice(total, shown) == total = shown

QuoteAnswered(i, q) ==
    /\ tries[i].phase = "quoting"
    /\ quote[q] = None
    /\ \E price \in ServerQuote(tries[i].dto) :
         /\ quote' = [quote EXCEPT ![q] = NewQuote(tries[i].dto, price,
                                             rule[tries[i].dto.task].version)]
         /\ IF SamePrice(price.total, tries[i].agreed)
            THEN SendOrder(i, q, tries[i].agreed)
            ELSE /\ Step(i, [tries[i] EXCEPT !.phase = "asking", !.quote = q])
                 /\ UNCHANGED <<form, page>>
    /\ UNCHANGED <<configVars, placed, req, budget, known, calls>>

QuoteRefused(i) ==
    /\ tries[i].phase = "quoting"
    /\ Ends(i, "failed")
    /\ UNCHANGED <<form, known, calls, budget>> /\ ServerStays

(* The dialog of confirmServerQuote.                                        *)
PriceConfirmed(i) ==
    /\ tries[i].phase = "asking"
    /\ SendOrder(i, tries[i].quote, quote[tries[i].quote].total)
    /\ UNCHANGED <<known, calls, budget>> /\ ServerStays

PriceDeclined(i) ==
    /\ tries[i].phase = "asking"
    /\ Ends(i, "cancelled")
    /\ UNCHANGED <<form, known, calls, budget>> /\ ServerStays

(* createFromQuote: route, passengers and price are the quote's; the door   *)
(* details and the weight are the draft's.  The answer may be lost.         *)
OrderFromQuote(i, q) ==
    LET labour == quote[q].task = "moving_handling" IN
    [quote |-> q, task |-> quote[q].task, manual |-> labour,
     fee |-> IF labour THEN 0 ELSE quote[q].total, dto |-> quote[q].dto,
     goods |-> tries[i].goods, by |-> i]

OrderAnswered(i, heard) ==
    /\ tries[i].phase = "ordering"
    /\ LET q == tries[i].quote IN
       /\ Usable(q)
       /\ quote' = [quote EXCEPT ![q] = [@ EXCEPT !.used = TRUE]]
       /\ placed' = Append(placed, OrderFromQuote(i, q))
       /\ IF ~heard THEN Ends(i, "failed")
          ELSE IF quote[q].task = "moving_handling" THEN Ends(i, "leaving")
          ELSE /\ Step(i, [tries[i] EXCEPT !.phase = "paying"])
               /\ UNCHANGED page
    /\ UNCHANGED <<configVars, req, budget, form, known, calls>>

OrderRefused(i) ==
    /\ tries[i].phase = "ordering"
    /\ Ends(i, "failed")
    /\ UNCHANGED <<form, known, calls, budget>> /\ ServerStays

(* Paid or not, the page leaves 450 ms later; until then it can submit.     *)
PaymentOver(i) ==
    /\ tries[i].phase = "paying"
    /\ Ends(i, "leaving")
    /\ UNCHANGED <<form, known, calls, budget>> /\ ServerStays

redirectTo(i) ==
    /\ tries[i].phase = "leaving"
    /\ tries' = [j \in DOMAIN tries |->
          [tries[j] EXCEPT !.open = FALSE,
                           !.phase = IF j = i THEN "left" ELSE @]]
    /\ Leave
    /\ UNCHANGED <<form, known, budget>> /\ ServerStays

----------------------------------------------------------------------------
(* The operators publish, in one step here.                                 *)
PublishNow(c, p) ==
    /\ Spend
    /\ validatePayload(c, p)
    /\ ApplyPayload(c, p, currentVersion(c) + 1)
    /\ revisions' = [revisions EXCEPT ![c] = Append(@, p)]
    /\ UNCHANGED <<draft, hour, edits, boots, orderVars, req, createVars>>

Submissions(i) ==
    \/ \E q \in Quotes : QuoteAnswered(i, q)
    \/ QuoteRefused(i)
    \/ PriceConfirmed(i)
    \/ PriceDeclined(i)
    \/ \E heard \in BOOLEAN : OrderAnswered(i, heard)
    \/ OrderRefused(i)
    \/ PaymentOver(i)
    \/ redirectTo(i)

FillIn ==
    \/ \E b \in BOOLEAN : selectServiceMode(b) \/ selectItem(b)
    \/ \E r \in Routes : selectLine(r)
    \/ \E d \in Wanted : \/ selectWeight(d.weight)
                         \/ changePassenger(d.passengers)
                         \/ selectDirection(d.direction)
                         \/ inputBudget(d.product)
    \/ selectDistrict
    \/ \E end \in {"pickup", "dropoff"} : chooseRouteAddress(end)
    \/ \E p \in Places : selectAddress(p)
    \/ navigateBack
    \/ submitOrder

PageNext ==
    \/ \E t \in Services \ {"carpool_ride"} : ChooseTask(t)
    \/ HomeShow \/ HomeAsks
    \/ \E end \in {"pickup", "dropoff"} : chooseAddress(end)
    \/ goOrder \/ goBack \/ pricingSync \/ ClosedPageSyncs
    \/ FillIn
    \/ \E c \in calls : \/ \E ok \in BOOLEAN : ConfigAnswered(c, ok)
                        \/ RouteAnswered(c)
                        \/ WeatherAnswered(c)
    \/ \E i \in DOMAIN tries : Submissions(i)
    \/ \E c \in Category : \E p \in Payloads[c] : PublishNow(c, p)

PageSpec == PageInit /\ [][PageNext]_pageVars
----------------------------------------------------------------------------
(* The draft and the screens hold values of their kind.                     *)
PageTypeOK ==
    /\ DraftTyped(form)
    /\ page.at \in {"away", "home", "create", "address"} /\ page.shown \in Nat
    /\ \A c \in calls : c.kind \in {"config", "route", "weather"}
    /\ \A i \in DOMAIN tries : tries[i].agreed \in Nat

(* No order costs what the customer neither submitted at nor confirmed in   *)
(* the dialog, wherever the price, the rules or the draft moved between the *)
(* submission and the order (order-create.js:511-527, 1017-1021).  Labour   *)
(* is quoted later.                                                         *)
ChargedAsAgreed ==
    \A i \in DOMAIN placed :
      ~placed[i].manual => placed[i].fee = tries[placed[i].by].agreed

(* Once the page holds the configuration in force and a distance, it shows  *)
(* the price the server has for that distance in the same weather, rounded  *)
(* to tenths of a yuan, and one kilometre more exactly where its doubles    *)
(* count one that quote() does not (order-create.js:184-301 against         *)
(* config-center.service.ts:273-309).  The distance itself may be another   *)
(* one than the server measures.  Prices of zero, which the page            *)
(* replaces by its own, and shared rides, which it prices by its built-in   *)
(* fares, are left out.                                                     *)
Synced ==
    /\ known # None /\ known = getAppConfig
    /\ form.task \in DOMAIN known.rules
    /\ [form EXCEPT !.remote = TRUE] = applyRemoteConfigToDraft(form, known)
    /\ form.pickup # None /\ form.dropoff # None
    /\ form.base > 0 /\ form.included > 0

PricedByDistance ==
    /\ form.task \in DISTANCE_SERVICE_IDS
    /\ form.line = None
    /\ form.km > 0

PricedByMatrix ==
    /\ form.task = "send_parcel" /\ ~form.carpool
    /\ form.line # None
    /\ form.line.id \in EnabledRoutesFor("send_parcel")
    /\ RouteAccepted(QuoteDto(form), rule[form.task], route[form.line.id])

ServerTotals ==
    IF PricedByDistance
    THEN LET r == rule[form.task] IN
         {QuoteTotal(form.task, r, form.km, form.bad, form.budget)
            + (IF <<form.km, r.included>> \in FloatAbove THEN r.perKm ELSE 0)}
    ELSE IF PricedByMatrix
    THEN {price.total : price \in QuotedPrice(QuoteDto(form), rule[form.task],
                                             route[form.line.id])}
    ELSE {}

EstimateIsServerPrice ==
    page.at = "create" /\ Synced =>
      \A total \in ServerTotals :
        /\ estimateFee(form).total <= total + 5
        /\ total <= estimateFee(form).total + 5

(* When nothing is unanswered any more, the distance priced is that of the  *)
(* addresses chosen, in whichever order the answers came back               *)
(* (order-create.js:725-750, routeSeq).  A distance written by a page       *)
(* already left has no such guard and is left out.                          *)
RouteIsOfTheseEnds ==
    (/\ page.at = "create" /\ calls = {}
     /\ form.task \in DISTANCE_SERVICE_IDS
     /\ form.pickup # None /\ form.dropoff # None
     /\ form.km > 0 /\ ~form.stray)
      => form.km \in estimateDistance(form.pickup, form.dropoff)
=============================================================================
