----------------------- MODULE OrderCreatePageProofs -----------------------
(***************************************************************************)
(* The order page of the mini program, for any configuration published     *)
(* while it is open, any answers in any order and any number of            *)
(* submissions: the customer pays what was agreed, and the price on the    *)
(* page is the server's, of the way between the addresses chosen.          *)
(***************************************************************************)
EXTENDS OrderCreatePage, PriceQuotesProofs

----------------------------------------------------------------------------
(* Sequences whose elements have no type of their own.                      *)
Elements(s) == {s[i] : i \in DOMAIN s}
IsSeq(s)    == s \in Seq(Elements(s))

----------------------------------------------------------------------------
(* The inductive invariant.                                                 *)

(* The server's rows, which only a publication changes here.                *)
LineKinds == {"carpool_ride", "send_parcel"}

LinesTyped ==
    \A r \in Routes : route[r] # None => route[r].service \in LineKinds

ServerTyped ==
    /\ TablesTyped
    /\ LinesTyped
    /\ DOMAIN revisions = Category
    /\ \A c \in Category : revisions[c] \in Seq(Payloads[c])

(* A configuration as getAppConfig gives it, now or earlier.                *)
Given(c) ==
    /\ DOMAIN c.routes \subseteq Routes
    /\ \A r \in DOMAIN c.routes : c.routes[r].service \in LineKinds

CallTyped(c) ==
    /\ c.open \in BOOLEAN
    /\ \/ /\ c.kind = "config"
          /\ DOMAIN c = {"kind", "open", "from", "turn", "config"}
          /\ c.from \in {"home", "show", "tick"}
          /\ Given(c.config)
       \/ /\ c.kind = "route"
          /\ DOMAIN c = {"kind", "open", "turn", "last", "ends"}
          /\ c.ends \in Places \X Places
       \/ /\ c.kind = "weather"
          /\ DOMAIN c = {"kind", "open", "turn", "last"}

PageFields ==
    {"at", "opener", "picking", "shown", "ready", "submitting", "timer"}

(* The home page is under the address page only where it opened it.         *)
OpenerFits(pg) ==
    /\ pg.at = "create" => pg.opener = "create"
    /\ pg.at \in {"away", "home"} => pg.opener = "home"

PageTyped ==
    /\ DraftTyped(form)
    /\ DOMAIN page = PageFields
    /\ page.at \in {"away", "home", "create", "address"} /\ OpenerFits(page)
    /\ known # None => Given(known)
    /\ \A c \in calls : CallTyped(c)

(* Past the home page a distance service has both its ends, and the order   *)
(* page is for a service that is not switched off for good.                 *)
EndsGiven ==
    /\ page.opener = "create" /\ form.task \in DISTANCE_SERVICE_IDS =>
         form.pickup # None /\ form.dropoff # None
    /\ page.at = "create" => isTaskEnabled(form.task)

(* Unless the configuration is still awaited, whose answer asks for the     *)
(* route again, every route that may still be written is the one between    *)
(* the addresses chosen, and there is one unless the distance fits already. *)
ConfigWaits(waiting) ==
    \E c \in waiting : c.kind = "config" /\ c.from = "show" /\ c.open
MayWrite(c) == c.kind = "route" /\ c.open /\ c.last
RouteFits(f) ==
    f.km > 0 /\ ~f.stray => f.km \in estimateDistance(f.pickup, f.dropoff)
RouteFollows(waiting, f) ==
    \/ ConfigWaits(waiting)
    \/ /\ \A c \in waiting : MayWrite(c) => c.ends = <<f.pickup, f.dropoff>>
       /\ (\E c \in waiting : MayWrite(c)) \/ RouteFits(f)

RouteCurrent ==
    page.at = "create" /\ form.task \in DISTANCE_SERVICE_IDS =>
      RouteFollows(calls, form)

(* A submission about to order has agreed to its quote's price; one that    *)
(* ordered keeps the price it agreed to.                                    *)
RowsOfQuotes ==
    /\ DOMAIN quote = Quotes
    /\ \A q \in Quotes : quote[q] # None => quote[q] \in SubmittedQuote

TryHolds(t) ==
    /\ DOMAIN t = {"phase", "dto", "agreed", "quote", "goods", "open"}
    /\ t.dto \in PricingQuoteDto
    /\ t.phase \in {"asking", "ordering"}
         => t.quote \in Quotes /\ quote[t.quote] # None
    /\ t.phase = "ordering" => quote[t.quote].total = t.agreed

TriesHold ==
    /\ IsSeq(tries)
    /\ \A i \in DOMAIN tries : TryHolds(tries[i])

BeforeOrder == {"quoting", "asking", "ordering"}

Agreed(order) ==
    /\ order.by \in DOMAIN tries
    /\ tries[order.by].phase \notin BeforeOrder
    /\ ~order.manual => order.fee = tries[order.by].agreed

OrdersAgreed ==
    /\ IsSeq(placed)
    /\ \A j \in DOMAIN placed : Agreed(placed[j])

Screens == PageTyped /\ EndsGiven /\ RouteCurrent
Money   == RowsOfQuotes /\ TriesHold /\ OrdersAgreed

PageIInv ==
    /\ ServerTyped
    /\ Screens
    /\ Money

----------------------------------------------------------------------------
(* Sequences.                                                               *)
LEMMA SequenceGrows ==
    ASSUME NEW s, IsSeq(s), NEW e
    PROVE  /\ IsSeq(Append(s, e))
           /\ Len(s) \in Nat /\ DOMAIN s = 1..Len(s)
           /\ DOMAIN Append(s, e) = DOMAIN s \cup {Len(s) + 1}
           /\ \A i \in DOMAIN s : Append(s, e)[i] = s[i]
           /\ Append(s, e)[Len(s) + 1] = e
  <1> DEFINE S == Elements(s) \cup {e}
             t == Append(s, e)
  <1>1. s \in Seq(Elements(s)) /\ Elements(s) \subseteq S /\ e \in S
    BY DEF IsSeq
  <1>2. s \in Seq(S) /\ Len(s) \in Nat /\ DOMAIN s = 1..Len(s)
    BY <1>1
  <1> HIDE DEF S
  <1>3. /\ t \in Seq(S) /\ Len(t) = Len(s) + 1 /\ t[Len(s) + 1] = e
        /\ \A i \in 1..Len(s) : t[i] = s[i]
    BY <1>1, <1>2
  <1>4. DOMAIN t = DOMAIN s \cup {Len(s) + 1}
    BY <1>2, <1>3
  <1>5. IsSeq(t)
    <2>1. PICK n : n = Len(s) + 1
      OBVIOUS
    <2> HIDE DEF t
    <2>2. n \in Nat /\ t \in [1..n -> Elements(t)]
      BY <1>2, <1>3, <2>1 DEF Elements
    <2>3. t \in Seq(Elements(t))
      BY <2>2
    <2> QED BY <2>3 DEF IsSeq
  <1> QED BY <1>2, <1>3, <1>4, <1>5

LEMMA SequenceMapped ==
    ASSUME NEW s, IsSeq(s), NEW t, t = [i \in DOMAIN s |-> t[i]]
    PROVE  IsSeq(t) /\ DOMAIN t = DOMAIN s
  <1>1. Len(s) \in Nat /\ DOMAIN s = 1..Len(s)
    BY DEF IsSeq
  <1>2. DOMAIN t = 1..Len(s)
    BY <1>1
  <1>3. t \in [1..Len(s) -> Elements(t)]
    BY <1>1, <1>2 DEF Elements
  <1> QED BY <1>1, <1>2, <1>3 DEF IsSeq

----------------------------------------------------------------------------
(* A publication leaves the server's rows well typed.                       *)
LEMMA PricesTyped ==
    ASSUME TablesTyped, LinesTyped, NEW p \in Payloads["PRICING"],
           validatePayload("PRICING", p), NEW v \in Nat,
           publishPricing(p, v), UNCHANGED edits
    PROVE  TablesTyped' /\ LinesTyped'
  <1> DEFINE published(s) == PublishedRule(s, p.rules[s], ParcelLines(p), v)
             priced(r) == [p.routes[r] EXCEPT
                             !.unit = IF p.routes[r].service = "send_parcel"
                                      THEN PARCEL_DEFAULT_PRICE_FEN
                                      ELSE p.routes[r].unit,
                             !.version = v]
             covered == DOMAIN p.rules
                          \cup {p.routes[r].service : r \in DOMAIN p.routes}
             old(r) == IF route[r] # None /\ route[r].service \in covered
                       THEN [route[r] EXCEPT !.enabled = FALSE, !.version = v]
                       ELSE route[r]
  <1>1. /\ rule' = [s \in Services |-> IF s \in DOMAIN p.rules THEN published(s)
                                       ELSE rule[s]]
        /\ route' = [r \in Routes |-> IF r \in DOMAIN p.routes THEN priced(r)
                                      ELSE old(r)]
        /\ UNCHANGED catalog
    BY DEF publishPricing, ParcelLines
  <1>2. ASSUME NEW s \in Services, s \in DOMAIN p.rules
        PROVE  published(s) \in RuleRow /\ OfItsKind(s, published(s))
    <2>1. /\ TypedRule(p.rules[s]) /\ ParcelLines(p) \subseteq Routes
          /\ s \in SERVICE_IDS
      BY <1>2, PayloadAssumption, ConfigAssumption DEF ParcelLines
    <2>2. /\ p.rules[s].base >= 0 /\ p.rules[s].perKm >= 0
          /\ p.rules[s].surcharge >= 0 /\ p.rules[s].weather >= 0
          /\ p.rules[s].included >= 0
      BY <1>2 DEF validatePayload
    <2>3. OfItsKind(s, p.rules[s])
      BY <1>2, KindsAssumption DEF KindsKept, OfItsKind
    <2>4. published(s) \in RuleRow /\ published(s).mode = p.rules[s].mode
      BY <2>1, <2>2, PublishedRuleTyped
    <2> QED BY <2>3, <2>4 DEF OfItsKind
  <1>3. ASSUME NEW r \in Routes, r \in DOMAIN p.routes
        PROVE  priced(r) \in RouteRow /\ priced(r).service \in LineKinds
    <2>1. PICK row : row = p.routes[r]
      OBVIOUS
    <2>2. row \in TypedRoute /\ row.unit >= 0
      BY <1>3, <2>1, PayloadAssumption DEF validatePayload
    <2>3. row.service \in LineKinds
      BY <1>3, <2>1, KindsAssumption DEF KindsKept, LineKinds
    <2> DEFINE unit == IF row.service = "send_parcel" THEN PARCEL_DEFAULT_PRICE_FEN
                       ELSE row.unit
    <2>4. unit \in Nat
      BY <2>2 DEF TypedRoute, PARCEL_DEFAULT_PRICE_FEN
    <2>5. priced(r) = [service |-> row.service, unit |-> unit,
                       perPerson |-> row.perPerson, enabled |-> row.enabled,
                       version |-> v]
      <3>1. priced(r) = [row EXCEPT !.unit = unit, !.version = v]
        BY <2>1
      <3> HIDE DEF unit, priced
      <3> QED BY <2>2, <3>1 DEF TypedRoute
    <2> HIDE DEF unit, priced
    <2> QED BY <2>2, <2>3, <2>4, <2>5 DEF RouteRow, TypedRoute
  <1>4. ASSUME NEW r \in Routes
        PROVE  /\ old(r) \in RouteRow \cup {None}
               /\ route[r] \in RouteRow => old(r) \in RouteRow
               /\ old(r) # None => route[r] # None /\ old(r).service = route[r].service
    <2>1. route[r] \in RouteRow \cup {None}
      BY DEF TablesTyped
    <2> HIDE DEF covered
    <2> QED BY <2>1 DEF RouteRow
  <1> HIDE DEF published, priced, covered, old
  <1>5. rule' \in [Services -> RuleRow] /\ \A s \in Services : OfItsKind(s, rule'[s])
    BY <1>1, <1>2 DEF TablesTyped
  <1>6. /\ route' \in [Routes -> RouteRow \cup {None}]
        /\ \A r \in Routes \cap DOMAIN DEFAULT_SERVICE_ROUTES : route'[r] \in RouteRow
    BY <1>1, <1>3, <1>4 DEF TablesTyped
  <1>7. LinesTyped'
    BY <1>1, <1>3, <1>4 DEF LinesTyped
  <1> QED BY <1>1, <1>5, <1>6, <1>7 DEF TablesTyped

LEMMA AreasTyped ==
    ASSUME TablesTyped, LinesTyped, NEW p \in Payloads["SERVICE_AREA"],
           NEW v \in Nat, publishAreas(p, v), UNCHANGED edits
    PROVE  TablesTyped' /\ LinesTyped'
  <1> DEFINE served == {r \in DOMAIN p.cities :
                          "send_parcel" \in p.cities[r].services}
             cost(r) == IF r \in RoutesFor("send_parcel") /\ route[r].unit # 0
                        THEN route[r].unit ELSE PARCEL_DEFAULT_PRICE_FEN
             city(r) == [service |-> "send_parcel", perPerson |-> FALSE,
                         unit |-> cost(r), enabled |-> p.cities[r].enabled,
                         version |-> v]
             old(r)  == IF route[r] # None /\ route[r].service = "send_parcel"
                        THEN [route[r] EXCEPT !.enabled = FALSE, !.version = v]
                        ELSE route[r]
  <1>1. /\ UNCHANGED <<rule, catalog>>
        /\ route' = [r \in Routes |-> IF r \in served THEN city(r) ELSE old(r)]
    BY DEF publishAreas
  <1>2. ASSUME NEW r \in Routes, r \in served
        PROVE  city(r) \in RouteRow /\ city(r).service \in LineKinds
    <2>1. cost(r) \in Nat
      BY DEF RoutesFor, TablesTyped, RouteRow, PARCEL_DEFAULT_PRICE_FEN
    <2>2. p.cities[r].enabled \in BOOLEAN
      BY <1>2, PayloadAssumption
    <2> HIDE DEF cost
    <2> QED BY <2>1, <2>2 DEF RouteRow, SERVICE_IDS, LineKinds
  <1>3. ASSUME NEW r \in Routes
        PROVE  /\ old(r) \in RouteRow \cup {None}
               /\ route[r] \in RouteRow => old(r) \in RouteRow
               /\ old(r) # None => route[r] # None /\ old(r).service = route[r].service
    <2>1. route[r] \in RouteRow \cup {None}
      BY DEF TablesTyped
    <2> QED BY <2>1 DEF RouteRow
  <1> HIDE DEF served, city, old
  <1>4. /\ route' \in [Routes -> RouteRow \cup {None}]
        /\ \A r \in Routes \cap DOMAIN DEFAULT_SERVICE_ROUTES : route'[r] \in RouteRow
    BY <1>1, <1>2, <1>3 DEF TablesTyped
  <1>5. LinesTyped'
    BY <1>1, <1>2, <1>3 DEF LinesTyped
  <1> QED BY <1>1, <1>4, <1>5 DEF TablesTyped

LEMMA SystemTyped ==
    ASSUME TablesTyped, LinesTyped, NEW p \in Payloads["SYSTEM"],
           publishSystem(p), UNCHANGED edits
    PROVE  TablesTyped' /\ LinesTyped'
  <1>1. UNCHANGED <<rule, route>> /\ LinesTyped'
    BY DEF publishSystem, LinesTyped
  <1>2. catalog' \in [Services -> BOOLEAN]
    <2>1. \A s \in DOMAIN p.services : p.services[s] \in BOOLEAN
      BY PayloadAssumption
    <2>2. catalog' = [s \in Services |-> IF s \in DOMAIN p.services
                                         THEN p.services[s] ELSE catalog[s]]
      BY DEF publishSystem
    <2> QED BY <2>1, <2>2 DEF TablesTyped
  <1> QED BY <1>1, <1>2 DEF TablesTyped

LEMMA PublishKeepsServer ==
    ASSUME ServerTyped, NEW c \in Category, NEW p \in Payloads[c], PublishNow(c, p)
    PROVE  ServerTyped'
  <1>1. revisions[c] \in Seq(Payloads[c])
    BY DEF ServerTyped
  <1>2. PICK v : v = currentVersion(c) + 1
    OBVIOUS
  <1>3. v \in Nat
    BY <1>1, <1>2 DEF currentVersion, Version
  <1>4. /\ validatePayload(c, p) /\ ApplyPayload(c, p, v) /\ UNCHANGED edits
        /\ revisions' = [revisions EXCEPT ![c] = Append(revisions[c], p)]
    BY <1>2 DEF PublishNow
  <1>5. TablesTyped' /\ LinesTyped'
    <2>1. CASE c = "PRICING"
      BY <1>3, <1>4, <2>1, PricesTyped DEF ApplyPayload, ServerTyped
    <2>2. CASE c = "SERVICE_AREA"
      BY <1>3, <1>4, <2>2, AreasTyped DEF ApplyPayload, ServerTyped
    <2>3. CASE c = "SYSTEM"
      BY <1>3, <1>4, <2>3, SystemTyped DEF ApplyPayload, ServerTyped
    <2> QED BY <2>1, <2>2, <2>3 DEF Category
  <1>6. \A k \in Category : revisions'[k] \in Seq(Payloads[k])
    <2>1. Append(revisions[c], p) \in Seq(Payloads[c])
      BY DEF ServerTyped
    <2>2. ASSUME NEW k \in Category
          PROVE  revisions'[k] = IF k = c THEN Append(revisions[c], p)
                                 ELSE revisions[k]
      BY <1>4 DEF ServerTyped
    <2> QED BY <2>1, <2>2 DEF ServerTyped
  <1>7. DOMAIN revisions' = Category
    BY <1>4 DEF ServerTyped
  <1> QED BY <1>5, <1>6, <1>7 DEF ServerTyped

(* So does the first start.                                                 *)
LEMMA FirstStart == InitConfig => ServerTyped
  <1> SUFFICES ASSUME InitConfig PROVE ServerTyped
    OBVIOUS
  <1>1. \A s \in Services : rule[s] \in RuleRow /\ OfItsKind(s, rule[s])
    BY ConfigAssumption, DefaultRuleTyped DEF InitConfig, OfItsKind
  <1>2. \A r \in Routes \cap DOMAIN DEFAULT_SERVICE_ROUTES :
          route[r] \in RouteRow /\ route[r].service \in LineKinds
    BY DefaultRouteTyped DEF InitConfig, LineKinds
  <1>3. \A r \in Routes \ DOMAIN DEFAULT_SERVICE_ROUTES : route[r] = None
    BY DEF InitConfig
  <1>4. LinesTyped
    BY <1>2, <1>3 DEF LinesTyped
  <1>5. /\ rule \in [Services -> RuleRow]
        /\ route \in [Routes -> RouteRow \cup {None}]
        /\ catalog \in [Services -> BOOLEAN] /\ edits \in Nat
    BY <1>1, <1>2, <1>3 DEF InitConfig, DefaultService
  <1>6. DOMAIN revisions = Category /\ \A c \in Category : revisions[c] \in Seq(Payloads[c])
    BY DEF InitConfig
  <1> QED BY <1>1, <1>2, <1>4, <1>5, <1>6 DEF ServerTyped, TablesTyped

----------------------------------------------------------------------------
(* What is done to a draft leaves it well typed.  Most of it leaves its way *)
(* alone: the service, the two ends and the distance between them.          *)
SameWay(f, g) ==
    /\ g.task = f.task
    /\ g.pickup = f.pickup /\ g.dropoff = f.dropoff
    /\ g.km = f.km /\ g.stray = f.stray

Drafted == Services \ {"carpool_ride"}

LEMMA VehicleApplied ==
    ASSUME NEW f, DraftTyped(f)
    PROVE  /\ DraftTyped(applyVehicleToDraft(f))
           /\ SameWay(f, applyVehicleToDraft(f))
  <1> DEFINE v == VEHICLES(f.task)
             g == [f EXCEPT !.remote   = FALSE,
                            !.included = IF f.included = 0 THEN 4000 ELSE f.included,
                            !.base     = IF f.base > 0 THEN f.base ELSE v.base,
                            !.perKm    = IF f.base > 0 THEN f.perKm ELSE v.perKm]
  <1>1. applyVehicleToDraft(f) = g
    BY DEF applyVehicleToDraft
  <1> HIDE DEF v
  <1>2. /\ DOMAIN g = DOMAIN f
        /\ \A x \in DOMAIN f \ {"remote", "included", "base", "perKm"} : g[x] = f[x]
    OBVIOUS
  <1> HIDE DEF g
  <1> QED BY <1>1, <1>2 DEF DraftTyped, SameWay

LEMMA ServiceBuilt ==
    ASSUME NEW f, DraftTyped(f), NEW t \in Drafted
    PROVE  LET g == buildDraftService(f, t) IN
           /\ DraftTyped(g) /\ g.task = t /\ g.line = None /\ g.lines = <<>>
           /\ SameWay([f EXCEPT !.task = t], g)
  <1> DEFINE p == ALL_TASKS[t]
             g == [f EXCEPT !.task = t, !.mode = TaskMode(t), !.line = None,
                            !.lines = <<>>, !.parcel = <<>>, !.bad = FALSE,
                            !.base = p.base, !.perKm = p.perKm,
                            !.included = p.included, !.weather = p.weather,
                            !.remote = FALSE]
  <1>1. buildDraftService(f, t) = g
    BY DEF buildDraftService
  <1> HIDE DEF p
  <1>2. /\ DOMAIN g = DOMAIN f
        /\ \A x \in DOMAIN f \ {"task", "mode", "line", "lines", "parcel", "bad",
                                "base", "perKm", "included", "weather", "remote"} :
             g[x] = f[x]
        /\ g.task = t /\ g.line = None /\ g.lines = <<>>
    BY DEF DraftTyped
  <1> HIDE DEF g
  <1>3. DraftTyped(g)
    BY <1>2 DEF DraftTyped, Drafted
  <1> QED BY <1>1, <1>2, <1>3 DEF DraftTyped, SameWay

(* The lines a configuration lists are known routes, and only parcels have  *)
(* any.                                                                     *)
LEMMA LinesListed ==
    ASSUME NEW c, Given(c), NEW t \in Drafted
    PROVE  LET lines == ListedLines(c, t) IN
           /\ lines # <<>> => DOMAIN lines # {} /\ t = "send_parcel"
           /\ \A r \in DOMAIN lines : lines[r].id \in Routes
  <1> DEFINE S == RemoteLines(c, t)
             e(r) == Line(r, c.routes[r].unit, c.routes[r].perPerson)
  <1>1. ListedLines(c, t) = [r \in S |-> e(r)]
    BY DEF ListedLines
  <1>2. \A r \in S : r \in Routes /\ c.routes[r].service = t /\ t \in LineKinds
    BY DEF RemoteLines, Given
  <1>3. \A r : e(r).id = r
    BY DEF Line
  <1> HIDE DEF S, e
  <1>4. [r \in S |-> e(r)] # <<>> => S # {}
    OBVIOUS
  <1> QED BY <1>1, <1>2, <1>3, <1>4 DEF Drafted, LineKinds

LEMMA RemoteApplied ==
    ASSUME NEW f, DraftTyped(f), NEW c, c # None => Given(c)
    PROVE  /\ DraftTyped(applyRemoteConfigToDraft(f, c))
           /\ SameWay(f, applyRemoteConfigToDraft(f, c))
  <1>1. CASE c = None \/ f.task \notin DOMAIN c.rules
    BY <1>1 DEF applyRemoteConfigToDraft, SameWay
  <1>2. CASE ~(c = None \/ f.task \notin DOMAIN c.rules)
    <2> DEFINE r == c.rules[f.task]
               labour == f.task = "moving_handling"
               g == [f EXCEPT
                       !.mode     = IF labour THEN "manual_quote" ELSE r.mode,
                       !.parcel   = IF f.task = "send_parcel" THEN r.parcel
                                    ELSE f.parcel,
                       !.base     = r.base,
                       !.perKm    = IF labour THEN 0 ELSE r.perKm,
                       !.included = IF labour THEN 0 ELSE r.included,
                       !.weather  = r.weather,
                       !.remote   = TRUE]
    <2>1. WithRule(f, c) = g
      BY DEF WithRule
    <2> HIDE DEF r, labour
    <2>2. /\ DOMAIN g = DOMAIN f
          /\ \A x \in DOMAIN f \ {"mode", "parcel", "base", "perKm", "included",
                                  "weather", "remote"} : g[x] = f[x]
      OBVIOUS
    <2> HIDE DEF g
    <2>3. DraftTyped(g) /\ SameWay(f, g)
      BY <2>2 DEF DraftTyped, SameWay
    <2> DEFINE lines == ListedLines(c, g.task)
               line == IF g.line # None /\ g.line.id \in DOMAIN lines
                       THEN lines[g.line.id]
                       ELSE IF isRouteTask(g.task) \/ lines = <<>> THEN None
                       ELSE lines[CHOOSE q \in DOMAIN lines : TRUE]
               h == [g EXCEPT !.lines = lines, !.line = line]
    <2>4. WithLines(g, c) = h
      BY DEF WithLines
    <2>5. /\ lines # <<>> => DOMAIN lines # {} /\ g.task = "send_parcel"
          /\ \A q \in DOMAIN lines : lines[q].id \in Routes
      BY <1>2, <2>3, LinesListed DEF DraftTyped, Drafted
    <2> HIDE DEF lines
    <2>6. line # None => line.id \in Routes
      BY <2>5
    <2> HIDE DEF line
    <2>7. /\ DOMAIN h = DOMAIN g /\ h.lines = lines /\ h.line = line
          /\ \A x \in DOMAIN g \ {"lines", "line"} : h[x] = g[x]
      BY <2>3 DEF DraftTyped
    <2> HIDE DEF h
    <2>8. DraftTyped(h) /\ SameWay(g, h)
      BY <2>3, <2>5, <2>6, <2>7 DEF DraftTyped, SameWay
    <2>9. SameWay(f, h)
      BY <2>3, <2>8 DEF SameWay
    <2> QED BY <1>2, <2>1, <2>3, <2>4, <2>8, <2>9 DEF applyRemoteConfigToDraft
  <1> QED BY <1>1, <1>2

LEMMA FormPrepared ==
    ASSUME NEW f, DraftTyped(f)
    PROVE  DraftTyped(prepareFormState(f)) /\ SameWay(f, prepareFormState(f))
  <1> DEFINE line == IF ~isRouteTask(f.task) /\ f.lines # <<>>
                          /\ (f.line = None \/ f.line.id \notin DOMAIN f.lines)
                     THEN f.lines[CHOOSE r \in DOMAIN f.lines : TRUE] ELSE f.line
             weight == IF f.task = "send_parcel"
                       THEN IF f.weight > 10 THEN 30 ELSE 10 ELSE f.weight
             g == [f EXCEPT !.line = line, !.weight = weight]
  <1>1. prepareFormState(f) = g
    BY DEF prepareFormState
  <1>2. (line # None => line.id \in Routes) /\ weight \in Nat
    BY DEF DraftTyped
  <1> HIDE DEF line, weight
  <1>3. /\ DOMAIN g = DOMAIN f /\ g.line = line /\ g.weight = weight
        /\ \A x \in DOMAIN f \ {"line", "weight"} : g[x] = f[x]
    BY DEF DraftTyped
  <1> HIDE DEF g
  <1> QED BY <1>1, <1>2, <1>3 DEF DraftTyped, SameWay

LEMMA WeatherKept ==
    ASSUME NEW f, DraftTyped(f)
    PROVE  DraftTyped(DryUnlessAsked(f)) /\ SameWay(f, DryUnlessAsked(f))
  <1> DEFINE g == [f EXCEPT !.bad = FALSE]
  <1>1. DOMAIN g = DOMAIN f /\ \A x \in DOMAIN f \ {"bad"} : g[x] = f[x]
    OBVIOUS
  <1> HIDE DEF g
  <1>2. DraftTyped(g) /\ SameWay(f, g)
    BY <1>1 DEF DraftTyped, SameWay
  <1> QED BY <1>2 DEF DryUnlessAsked, SameWay, g

LEMMA RouteDropped ==
    ASSUME NEW f, DraftTyped(f)
    PROVE  /\ DraftTyped(WithoutRoute(f)) /\ WithoutRoute(f).task = f.task
           /\ \A x \in DOMAIN f \ {"pickup", "dropoff", "km", "quoteId"} :
                WithoutRoute(f)[x] = f[x]
  <1>1. PICK g : g = WithoutRoute(f)
    OBVIOUS
  <1>2. /\ DOMAIN g = DOMAIN f /\ g.pickup = None /\ g.dropoff = None /\ g.km = 0
        /\ \A x \in DOMAIN f \ {"pickup", "dropoff", "km", "quoteId"} : g[x] = f[x]
    BY <1>1 DEF WithoutRoute, DraftTyped
  <1> QED BY <1>1, <1>2 DEF DraftTyped

LEMMA AddressesEnsured ==
    ASSUME NEW f, DraftTyped(f)
    PROVE  LET g == ensureDefaultOrderAddresses(f) IN
           /\ DraftTyped(g) /\ g.task = f.task
           /\ g.pickup # None /\ g.dropoff # None
           /\ f.pickup # None /\ f.dropoff # None => SameWay(f, g)
  <1> DEFINE pickup  == IF f.pickup = None THEN DefaultPickup ELSE f.pickup
             dropoff == IF f.dropoff = None THEN DefaultDropoff ELSE f.dropoff
             g == [f EXCEPT !.pickup = pickup, !.dropoff = dropoff]
  <1>1. ensureDefaultOrderAddresses(f) = g
    BY DEF ensureDefaultOrderAddresses
  <1>2. /\ pickup \in Places \cup {None} /\ dropoff \in Places \cup {None}
        /\ pickup # None /\ dropoff # None
        /\ f.pickup # None /\ f.dropoff # None => pickup = f.pickup /\ dropoff = f.dropoff
    BY PageAssumption DEF DraftTyped
  <1> HIDE DEF pickup, dropoff
  <1>3. /\ DOMAIN g = DOMAIN f /\ g.pickup = pickup /\ g.dropoff = dropoff
        /\ \A x \in DOMAIN f \ {"pickup", "dropoff"} : g[x] = f[x]
    BY DEF DraftTyped
  <1> HIDE DEF g
  <1> QED BY <1>1, <1>2, <1>3 DEF DraftTyped, SameWay

LEMMA TaskChanges ==
    ASSUME NEW f, DraftTyped(f), NEW t
    PROVE  DraftTyped(TaskChanged(f, t))
  <1> DEFINE fresh == [f EXCEPT !.budget = IF t = "buy_for_me" THEN f.budget ELSE 0,
                                !.pet = FALSE, !.carpool = FALSE]
             bare == WithoutRoute(fresh)
             route0 == [bare EXCEPT !.district = FALSE, !.direction = "OUTBOUND"]
  <1>1. TaskChanged(f, t) = IF isRouteTask(t) THEN route0
                            ELSE IF isRouteTask(f.task)
                            THEN ensureDefaultOrderAddresses(bare) ELSE fresh
    BY DEF TaskChanged
  <1>2. DraftTyped(fresh)
    <2>1. PICK g : g = fresh
      OBVIOUS
    <2>2. /\ DOMAIN g = DOMAIN f /\ g.budget \in Nat /\ g.pet = FALSE /\ g.carpool = FALSE
          /\ \A x \in DOMAIN f \ {"budget", "pet", "carpool"} : g[x] = f[x]
      BY <2>1 DEF DraftTyped
    <2> HIDE DEF fresh
    <2> QED BY <2>1, <2>2 DEF DraftTyped
  <1> HIDE DEF fresh
  <1>3. DraftTyped(bare)
    BY <1>2, RouteDropped
  <1> HIDE DEF bare
  <1>4. DraftTyped(ensureDefaultOrderAddresses(bare))
    BY <1>3, AddressesEnsured
  <1>5. DraftTyped(route0)
    <2>1. PICK g : g = route0
      OBVIOUS
    <2>2. /\ DOMAIN g = DOMAIN bare /\ g.direction = "OUTBOUND"
          /\ \A x \in DOMAIN bare \ {"district", "direction"} : g[x] = bare[x]
      BY <1>3, <2>1 DEF DraftTyped
    <2> HIDE DEF route0
    <2> QED BY <1>3, <2>1, <2>2 DEF DraftTyped
  <1> QED BY <1>1, <1>2, <1>4, <1>5

(* A choice of service, and the configuration's answer on the home page.    *)
(* The same service again keeps both ends, if it has them.                  *)
LEMMA TaskEnsured ==
    ASSUME NEW f, DraftTyped(f), NEW t \in Drafted, NEW c, c # None => Given(c)
    PROVE  LET g == ensureDraftTask(f, t, c) IN
           /\ DraftTyped(g) /\ g.task = t
           /\ (/\ f.task = t /\ t # "moving_handling"
               /\ f.pickup # None /\ f.dropoff # None) => SameWay(f, g)
           /\ t \in DISTANCE_SERVICE_IDS => g.pickup # None /\ g.dropoff # None
  <1> DEFINE built   == buildDraftService(f, t)
             fresh   == TaskChanged(f, t)
             same    == [built EXCEPT !.line = f.line]
             other   == [fresh EXCEPT
                           !.task = built.task, !.mode = built.mode,
                           !.line = None, !.lines = <<>>, !.parcel = <<>>,
                           !.bad = FALSE, !.base = built.base,
                           !.perKm = built.perKm, !.remote = FALSE,
                           !.included = built.included,
                           !.weather = built.weather]
             chosen  == IF f.task = t THEN same ELSE other
             placed2 == IF ~isRouteTask(t) \/ chosen.line # None
                        THEN ensureDefaultOrderAddresses(chosen) ELSE chosen
             labour  == IF t = "moving_handling"
                        THEN [placed2 EXCEPT !.dropoff = None] ELSE placed2
             both    == f.task = t /\ f.pickup # None /\ f.dropoff # None
  <1>1. ensureDraftTask(f, t, c)
          = applyRemoteConfigToDraft(applyVehicleToDraft(labour), c)
    BY DEF ensureDraftTask
  <1>2. /\ DraftTyped(built) /\ built.task = t /\ built.lines = <<>>
        /\ f.task = t => SameWay(f, built)
    <2>1. DraftTyped(built) /\ built.task = t /\ built.lines = <<>>
          /\ SameWay([f EXCEPT !.task = t], built)
      BY ServiceBuilt
    <2> HIDE DEF built
    <2> QED BY <2>1 DEF SameWay, DraftTyped
  <1>3. DraftTyped(fresh)
    BY TaskChanges
  <1> HIDE DEF built, fresh
  <1>4. /\ DraftTyped(same) /\ same.task = t
        /\ f.task = t => SameWay(f, same)
    <2>1. PICK g : g = same
      OBVIOUS
    <2>2. /\ DOMAIN g = DOMAIN built /\ g.line = f.line
          /\ \A x \in DOMAIN built \ {"line"} : g[x] = built[x]
      BY <1>2, <2>1 DEF DraftTyped
    <2> HIDE DEF same
    <2> QED BY <1>2, <2>1, <2>2 DEF DraftTyped, SameWay
  <1>5. DraftTyped(other) /\ other.task = t
    <2>1. PICK g : g = other
      OBVIOUS
    <2>2. /\ DOMAIN g = DOMAIN fresh /\ g.task = t /\ g.line = None /\ g.lines = <<>>
          /\ \A x \in DOMAIN fresh \ {"task", "mode", "line", "lines", "parcel", "bad",
                                      "base", "perKm", "remote", "included",
                                      "weather"} : g[x] = fresh[x]
      BY <1>2, <1>3, <2>1 DEF DraftTyped
    <2> HIDE DEF other
    <2>3. DraftTyped(g)
      BY <1>3, <2>2 DEF DraftTyped, Drafted
    <2> QED BY <2>1, <2>2, <2>3
  <1> HIDE DEF same, other
  <1>6. /\ DraftTyped(chosen) /\ chosen.task = t
        /\ f.task = t => SameWay(f, chosen)
    BY <1>4, <1>5
  <1> HIDE DEF chosen
  <1>7. /\ DraftTyped(placed2) /\ placed2.task = t /\ (both => SameWay(f, placed2))
        /\ ~isRouteTask(t) => placed2.pickup # None /\ placed2.dropoff # None
    <2>1. PICK g : g = ensureDefaultOrderAddresses(chosen)
      OBVIOUS
    <2>2. /\ DraftTyped(g) /\ g.task = chosen.task
          /\ g.pickup # None /\ g.dropoff # None
          /\ chosen.pickup # None /\ chosen.dropoff # None => SameWay(chosen, g)
      BY <1>6, <2>1, AddressesEnsured
    <2> QED BY <1>6, <2>1, <2>2 DEF SameWay
  <1> HIDE DEF placed2
  <1>8. /\ DraftTyped(labour) /\ labour.task = t
        /\ both /\ t # "moving_handling" => SameWay(f, labour)
        /\ t \in DISTANCE_SERVICE_IDS =>
             labour.pickup # None /\ labour.dropoff # None
    <2>1. PICK g : g = [placed2 EXCEPT !.dropoff = None]
      OBVIOUS
    <2>2. /\ DOMAIN g = DOMAIN placed2 /\ g.dropoff = None
          /\ \A x \in DOMAIN placed2 \ {"dropoff"} : g[x] = placed2[x]
      BY <1>7, <2>1 DEF DraftTyped
    <2>3. DraftTyped(g) /\ g.task = t
      BY <1>7, <2>2 DEF DraftTyped
    <2>4. t \in DISTANCE_SERVICE_IDS => ~isRouteTask(t) /\ t # "moving_handling"
      BY DEF DISTANCE_SERVICE_IDS, isRouteTask
    <2> QED BY <1>7, <2>1, <2>3, <2>4
  <1> HIDE DEF labour
  <1>9. PICK h : h = applyVehicleToDraft(labour)
    OBVIOUS
  <1>10. DraftTyped(h) /\ SameWay(labour, h)
    BY <1>8, <1>9, VehicleApplied
  <1>11. PICK g : g = applyRemoteConfigToDraft(h, c)
    OBVIOUS
  <1>12. DraftTyped(g) /\ SameWay(h, g)
    BY <1>10, <1>11, RemoteApplied
  <1> QED BY <1>1, <1>8, <1>9, <1>10, <1>11, <1>12 DEF SameWay

(* Labour is carried out at one place.                                      *)
LEMMA LabourNormalized ==
    ASSUME NEW f, DraftTyped(f)
    PROVE  LET g == normalizeHandlingDraft(f) IN
           /\ DraftTyped(g)
           /\ g = f \/ g.task = "moving_handling"
  <1> DEFINE built == buildDraftService(f, "moving_handling")
             bare == [built EXCEPT !.budget = 0, !.dropoff = None]
  <1>1. DraftTyped(built) /\ built.task = "moving_handling"
    BY ServiceBuilt, PageAssumption DEF Drafted
  <1> HIDE DEF built
  <1>2. DraftTyped(bare) /\ bare.task = "moving_handling"
    <2>1. PICK g : g = bare
      OBVIOUS
    <2>2. /\ DOMAIN g = DOMAIN built /\ g.budget = 0 /\ g.dropoff = None
          /\ \A x \in DOMAIN built \ {"budget", "dropoff"} : g[x] = built[x]
      BY <1>1, <2>1 DEF DraftTyped
    <2> HIDE DEF bare
    <2> QED BY <1>1, <2>1, <2>2 DEF DraftTyped
  <1> HIDE DEF bare
  <1>3. DraftTyped(applyVehicleToDraft(bare))
        /\ applyVehicleToDraft(bare).task = "moving_handling"
    BY <1>2, VehicleApplied DEF SameWay
  <1> QED BY <1>3 DEF normalizeHandlingDraft, bare, built

LEMMA RouteApplied ==
    ASSUME NEW f, DraftTyped(f), NEW r \in Routes, NEW address
    PROVE  DraftTyped(applyRoute(f, r, address)) /\ applyRoute(f, r, address).task = f.task
  <1> DEFINE city == IF isSelectedCityAddress(address, r) THEN address ELSE None
             out  == f.direction = "OUTBOUND"
             line == Line(r, carpoolLines[r], FALSE)
             pickup == IF out THEN FudingStop ELSE city
             dropoff == IF out THEN city ELSE FudingStop
             g == [f EXCEPT !.line = line, !.pickup = pickup, !.dropoff = dropoff,
                            !.quoteId = None, !.km = 0]
  <1>1. applyRoute(f, r, address) = g
    BY DEF applyRoute
  <1>2. city \in Places \cup {None}
    BY ConfigAssumption DEF isSelectedCityAddress
  <1> HIDE DEF city
  <1>3. pickup \in Places \cup {None} /\ dropoff \in Places \cup {None}
    BY <1>2, PageAssumption
  <1>4. line.id = r
    BY DEF Line
  <1> HIDE DEF pickup, dropoff, line
  <1>5. /\ DOMAIN g = DOMAIN f /\ g.line = line /\ g.km = 0
        /\ g.pickup = pickup /\ g.dropoff = dropoff
        /\ \A x \in DOMAIN f \ {"line", "pickup", "dropoff", "quoteId", "km"} :
             g[x] = f[x]
    BY DEF DraftTyped
  <1> HIDE DEF g
  <1> QED BY <1>1, <1>3, <1>4, <1>5 DEF DraftTyped

----------------------------------------------------------------------------
(* The screens.  A draft that keeps its way keeps what the answers promise. *)
LEMMA FollowsKept ==
    ASSUME NEW waiting, NEW f, NEW g, SameWay(f, g), RouteFollows(waiting, f)
    PROVE  RouteFollows(waiting, g)
  BY DEF SameWay, RouteFollows, RouteFits

LEMMA ScreensKept ==
    ASSUME Screens, UNCHANGED <<known, calls>>,
           DOMAIN page' = PageFields,
           page'.at = page.at, page'.opener = page.opener,
           DraftTyped(form'), form'.task = form.task,
           form'.task \notin DISTANCE_SERVICE_IDS \/ SameWay(form, form')
    PROVE  Screens'
  <1>1. PageTyped'
    BY DEF Screens, PageTyped, OpenerFits
  <1>2. EndsGiven'
    BY DEF Screens, EndsGiven, SameWay
  <1>3. RouteCurrent'
    <2>1. CASE form'.task \notin DISTANCE_SERVICE_IDS
      BY <2>1 DEF RouteCurrent
    <2>2. CASE SameWay(form, form')
      <3> SUFFICES ASSUME page.at = "create", form.task \in DISTANCE_SERVICE_IDS
                   PROVE  RouteFollows(calls, form')
        BY <2>2 DEF RouteCurrent, SameWay
      <3>1. RouteFollows(calls, form)
        BY DEF Screens, RouteCurrent
      <3> QED BY <2>2, <3>1, FollowsKept
    <2> QED BY <2>1, <2>2
  <1> QED BY <1>1, <1>2, <1>3 DEF Screens

LEMMA Refreshed ==
    ASSUME NEW f, DraftTyped(f), NEW pg, DOMAIN pg = PageFields, Refresh(f, pg)
    PROVE  /\ DraftTyped(form') /\ SameWay(f, form')
           /\ DOMAIN page' = PageFields
           /\ page'.at = pg.at /\ page'.opener = pg.opener
  <1>1. form' = prepareFormState(f)
    BY DEF Refresh
  <1>2. PICK shown : page' = [pg EXCEPT !.shown = shown]
    BY DEF Refresh
  <1> QED BY <1>1, <1>2, FormPrepared DEF PageFields

LEMMA Edited ==
    ASSUME Screens, NEW f, DraftTyped(f), f.task = form.task, Edit(f),
           f.task \notin DISTANCE_SERVICE_IDS \/ SameWay(form, f)
    PROVE  Screens'
  <1>1. /\ DraftTyped(form') /\ SameWay(f, form')
        /\ DOMAIN page' = PageFields
        /\ page'.at = page.at /\ page'.opener = page.opener
    BY Refreshed DEF Edit, Screens, PageTyped
  <1>2. UNCHANGED <<known, calls>>
    BY DEF Edit
  <1>3. /\ form'.task = form.task
        /\ form'.task \notin DISTANCE_SERVICE_IDS \/ SameWay(form, form')
    BY <1>1 DEF SameWay
  <1> QED BY <1>1, <1>2, <1>3, ScreensKept

(* Filling in the form.  Only parcels and shared rides have lines, so that  *)
(* a distance service's ends change on the address page alone.              *)
LEMMA ParcelIsNoDistance ==
    /\ "send_parcel" \notin DISTANCE_SERVICE_IDS
    /\ "moving_handling" \notin DISTANCE_SERVICE_IDS
    /\ \A f : isRouteTask(f.task) \/ isCarpoolMode(f)
         => f.task \notin DISTANCE_SERVICE_IDS
  BY DEF DISTANCE_SERVICE_IDS, isRouteTask, isCarpoolMode

LEMMA ServiceModeSelected ==
    ASSUME Screens, NEW carpool \in BOOLEAN, selectServiceMode(carpool)
    PROVE  Screens'
  <1> DEFINE bare == WithoutRoute(form)
             f == [bare EXCEPT
                     !.carpool = carpool, !.line = None, !.district = FALSE,
                     !.direction = "OUTBOUND", !.passengers = 1, !.pet = FALSE,
                     !.mode = IF carpool THEN "fixed_line_ride" ELSE "parcel_category"]
  <1>1. Edit(f) /\ form.task = "send_parcel"
    BY DEF selectServiceMode
  <1>2. DraftTyped(bare) /\ bare.task = form.task
    BY RouteDropped DEF Screens, PageTyped
  <1> HIDE DEF bare
  <1>3. DraftTyped(f) /\ f.task = form.task
    <2>1. PICK g : g = f
      OBVIOUS
    <2>2. /\ DOMAIN g = DOMAIN bare /\ g.carpool \in BOOLEAN /\ g.line = None
          /\ g.direction = "OUTBOUND" /\ g.passengers = 1 /\ g.pet \in BOOLEAN
          /\ \A x \in DOMAIN bare \ {"carpool", "line", "district", "direction",
                                     "passengers", "pet", "mode"} : g[x] = bare[x]
      BY <1>2, <2>1 DEF DraftTyped
    <2> HIDE DEF f
    <2> QED BY <1>2, <2>1, <2>2 DEF DraftTyped
  <1> HIDE DEF f
  <1> QED BY <1>1, <1>3, Edited, ParcelIsNoDistance

LEMMA FieldEdited ==
    ASSUME Screens, NEW g, DOMAIN g = DOMAIN form, NEW edited,
           edited \subseteq {"weight", "district", "direction", "passengers",
                             "budget", "pet", "quoteId"},
           \A x \in DOMAIN form \ edited : g[x] = form[x],
           "weight" \in edited => g.weight \in Nat,
           "direction" \in edited => g.direction \in {"OUTBOUND", "RETURN"},
           "passengers" \in edited => g.passengers \in 1..6,
           "budget" \in edited => g.budget \in Nat,
           "pet" \in edited => g.pet \in BOOLEAN
    PROVE  DraftTyped(g) /\ SameWay(form, g)
  <1>1. DraftTyped(form)
    BY DEF Screens, PageTyped
  <1>2. /\ g.weight \in Nat /\ g.budget \in Nat /\ g.passengers \in 1..6
        /\ g.direction \in {"OUTBOUND", "RETURN"} /\ g.pet \in BOOLEAN
    BY <1>1 DEF DraftTyped
  <1> QED BY <1>1, <1>2 DEF DraftTyped, SameWay

LEMMA WeightSelected ==
    ASSUME Screens, NEW kg \in Nat, selectWeight(kg) PROVE Screens'
  <1>1. PICK g : g = [form EXCEPT !.weight = kg]
    OBVIOUS
  <1>2. DraftTyped(g) /\ SameWay(form, g)
    <2>1. DOMAIN g = DOMAIN form /\ g.weight = kg
          /\ \A x \in DOMAIN form \ {"weight"} : g[x] = form[x]
      BY <1>1 DEF Screens, PageTyped, DraftTyped
    <2> QED BY <2>1, FieldEdited
  <1> QED BY <1>1, <1>2, Edited DEF selectWeight, SameWay

LEMMA PassengersChanged ==
    ASSUME Screens, NEW n \in 1..6, changePassenger(n) PROVE Screens'
  <1>1. PICK g : g = [form EXCEPT !.passengers = n]
    OBVIOUS
  <1>2. DraftTyped(g) /\ SameWay(form, g)
    <2>1. DOMAIN g = DOMAIN form /\ g.passengers = n
          /\ \A x \in DOMAIN form \ {"passengers"} : g[x] = form[x]
      BY <1>1 DEF Screens, PageTyped, DraftTyped
    <2> QED BY <2>1, FieldEdited
  <1> QED BY <1>1, <1>2, Edited DEF changePassenger, SameWay

LEMMA BudgetTyped ==
    ASSUME Screens, NEW fen \in Nat, inputBudget(fen) PROVE Screens'
  <1>1. PICK g : g = [form EXCEPT !.budget = fen]
    OBVIOUS
  <1>2. DraftTyped(g) /\ SameWay(form, g)
    <2>1. DOMAIN g = DOMAIN form /\ g.budget = fen
          /\ \A x \in DOMAIN form \ {"budget"} : g[x] = form[x]
      BY <1>1 DEF Screens, PageTyped, DraftTyped
    <2> QED BY <2>1, FieldEdited
  <1> QED BY <1>1, <1>2, Edited DEF inputBudget, SameWay

LEMMA DirectionSelected ==
    ASSUME Screens, NEW dir \in {"OUTBOUND", "RETURN"}, selectDirection(dir)
    PROVE  Screens'
  <1>1. PICK f : f = [form EXCEPT !.direction = dir]
    OBVIOUS
  <1>2. DraftTyped(f) /\ SameWay(form, f)
    <2>1. DOMAIN f = DOMAIN form /\ f.direction = dir
          /\ \A x \in DOMAIN form \ {"direction"} : f[x] = form[x]
      BY <1>1 DEF Screens, PageTyped, DraftTyped
    <2> QED BY <2>1, FieldEdited
  <1>3. CASE form.line # None /\ isCarpoolMode(form)
    <2>1. form.line.id \in Routes /\ f.line = form.line
      BY <1>1, <1>3 DEF Screens, PageTyped, DraftTyped
    <2>2. PICK g : g = applyRoute(f, form.line.id, getCitySideAddress(form))
      OBVIOUS
    <2>3. DraftTyped(g) /\ g.task = form.task
      BY <1>2, <2>1, <2>2, RouteApplied DEF SameWay
    <2>4. Edit(g)
      BY <1>1, <1>3, <2>1, <2>2 DEF selectDirection
    <2> QED BY <1>3, <2>3, <2>4, Edited, ParcelIsNoDistance
  <1>4. CASE ~(form.line # None /\ isCarpoolMode(form))
    <2>1. Edit(f)
      BY <1>1, <1>4 DEF selectDirection
    <2> QED BY <1>2, <2>1, Edited DEF SameWay
  <1> QED BY <1>3, <1>4

LEMMA DistrictSelected ==
    ASSUME Screens, selectDistrict PROVE Screens'
  <1>1. PICK f : f = [form EXCEPT !.district = TRUE]
    OBVIOUS
  <1>2. DraftTyped(f) /\ SameWay(form, f) /\ f.line = form.line
    <2>1. DOMAIN f = DOMAIN form
          /\ \A x \in DOMAIN form \ {"district"} : f[x] = form[x]
      BY <1>1
    <2> QED BY <2>1, FieldEdited DEF Screens, PageTyped, DraftTyped
  <1>3. CASE isCarpoolMode(form)
    <2>1. form.line.id \in Routes
      BY DEF selectDistrict, Screens, PageTyped, DraftTyped
    <2>2. PICK g : g = applyRoute(f, form.line.id, None)
      OBVIOUS
    <2>3. DraftTyped(g) /\ g.task = form.task
      BY <1>2, <2>1, <2>2, RouteApplied DEF SameWay
    <2>4. Edit(g)
      BY <1>1, <1>2, <1>3, <2>2 DEF selectDistrict
    <2> QED BY <1>3, <2>3, <2>4, Edited, ParcelIsNoDistance
  <1>4. CASE ~isCarpoolMode(form)
    <2>1. Edit(f)
      BY <1>1, <1>4 DEF selectDistrict
    <2> QED BY <1>2, <2>1, Edited DEF SameWay
  <1> QED BY <1>3, <1>4

----------------------------------------------------------------------------
(* Questions waiting.  A later question of the same kind and page overtakes *)
(* the earlier ones.                                                        *)
LEMMA ConfigGiven == ASSUME ServerTyped PROVE Given(getAppConfig)
  <1> DEFINE S == UNION {EnabledRoutesFor(s) : s \in Services}
             routes == [r \in S |-> route[r]]
  <1>1. getAppConfig.routes = routes
    BY DEF getAppConfig
  <1>2. \A r \in S : r \in Routes /\ route[r].service \in LineKinds
    BY DEF EnabledRoutesFor, RoutesFor, ServerTyped, LinesTyped
  <1> HIDE DEF S
  <1> QED BY <1>1, <1>2 DEF Given

LEMMA ConfigAsked ==
    ASSUME ServerTyped, NEW from \in {"home", "show", "tick"}, NEW turn
    PROVE  CallTyped(AskConfig(from, turn))
  <1>1. PICK config : config = getAppConfig
    OBVIOUS
  <1>2. AskConfig(from, turn) = [kind |-> "config", open |-> TRUE, from |-> from,
                                 turn |-> turn, config |-> config]
    BY <1>1 DEF AskConfig
  <1>3. Given(config)
    BY <1>1, ConfigGiven
  <1> QED BY <1>2, <1>3 DEF CallTyped

LEMMA QuestionsTyped ==
    ASSUME NEW f, DraftTyped(f), NEW turn, NEW kinds,
           NEW q \in Questions(f, turn, kinds)
    PROVE  /\ CallTyped(q) /\ q.kind \in {"route", "weather"} /\ q.open
           /\ q.kind = "route" => /\ q = AskRoute(f, turn) /\ MayWrite(q)
                                  /\ q.ends = <<f.pickup, f.dropoff>>
  <1>1. q = AskRoute(f, turn) \/ q = AskWeather(turn)
    BY DEF Questions
  <1>2. CASE q = AskRoute(f, turn)
    <2>1. PICK ends \in Places \X Places : ends = <<f.pickup, f.dropoff>>
      <3>1. f.pickup \in Places /\ f.dropoff \in Places
        <4>1. AsksRoute(f)
          BY <1>2 DEF Questions, AskRoute, AskWeather
        <4> QED BY <4>1 DEF AsksRoute, DraftTyped
      <3> QED BY <3>1
    <2>2. q = [kind |-> "route", open |-> TRUE, turn |-> turn, last |-> TRUE,
               ends |-> ends]
      BY <1>2, <2>1 DEF AskRoute
    <2>3. CallTyped(q) /\ q.kind = "route" /\ q.open /\ q.last /\ q.ends = ends
      BY <2>2 DEF CallTyped
    <2> QED BY <1>2, <2>1, <2>3 DEF MayWrite
  <1>3. CASE q = AskWeather(turn)
    BY <1>3 DEF AskWeather, CallTyped
  <1> QED BY <1>1, <1>2, <1>3

LEMMA Overtaking ==
    ASSUME NEW c, CallTyped(c), NEW asked, \A q \in asked : q.kind # "config"
    PROVE  LET d == Overtaken(c, asked) IN
           /\ CallTyped(d) /\ d.kind = c.kind /\ d.open = c.open
           /\ c.kind = "config" => d = c
           /\ MayWrite(d) => /\ MayWrite(c) /\ d.ends = c.ends
                             /\ \A q \in asked : ~(q.kind = "route" /\ q.open)
  <1>1. CASE \E q \in asked : q.kind = c.kind /\ q.open /\ c.open
    <2>1. PICK d : d = [c EXCEPT !.last = FALSE]
      OBVIOUS
    <2>2. Overtaken(c, asked) = d
      BY <1>1, <2>1 DEF Overtaken
    <2>3. c.kind # "config"
      BY <1>1
    <2>4. /\ DOMAIN d = DOMAIN c /\ d.last = FALSE /\ d.kind = c.kind
          /\ d.open = c.open /\ (c.kind = "route" => d.ends = c.ends)
      BY <2>1, <2>3 DEF CallTyped
    <2> QED BY <2>2, <2>3, <2>4 DEF CallTyped, MayWrite
  <1>2. CASE ~(\E q \in asked : q.kind = c.kind /\ q.open /\ c.open)
    BY <1>2 DEF Overtaken, MayWrite
  <1> QED BY <1>1, <1>2

(* What waits after a question was asked: the question, and what waited     *)
(* before, whose routes it overtakes if it asks for the route itself.       *)
LEMMA QuestionsAsked ==
    ASSUME NEW earlier, \A c \in earlier : CallTyped(c),
           NEW asked, \A q \in asked : CallTyped(q) /\ q.kind # "config",
           Asking(earlier, asked)
    PROVE  /\ \A c \in calls' : CallTyped(c)
           /\ ConfigWaits(earlier) => ConfigWaits(calls')
           /\ \A d \in calls' : MayWrite(d) =>
                \/ d \in asked
                \/ /\ \A q \in asked : ~(q.kind = "route" /\ q.open)
                   /\ \E c \in earlier : MayWrite(c) /\ d.ends = c.ends
           /\ (\A q \in asked : ~(q.kind = "route" /\ q.open)) =>
                \A c \in earlier : MayWrite(c) => \E d \in calls' : MayWrite(d)
  <1>1. calls' = {Overtaken(c, asked) : c \in earlier} \cup asked
    BY DEF Asking
  <1>2. \A c \in earlier :
          LET d == Overtaken(c, asked) IN
           /\ CallTyped(d) /\ d.kind = c.kind /\ d.open = c.open
           /\ c.kind = "config" => d = c
           /\ MayWrite(d) => /\ MayWrite(c) /\ d.ends = c.ends
                             /\ \A q \in asked : ~(q.kind = "route" /\ q.open)
    BY Overtaking
  <1>3. (\A q \in asked : ~(q.kind = "route" /\ q.open)) =>
          \A c \in earlier : MayWrite(c) => Overtaken(c, asked) = c
    BY DEF Overtaken, MayWrite
  <1>4. \A c \in calls' : CallTyped(c)
    BY <1>1, <1>2
  <1>5. ConfigWaits(earlier) => ConfigWaits(calls')
    BY <1>1, <1>2 DEF ConfigWaits
  <1>6. \A d \in calls' : MayWrite(d) =>
          \/ d \in asked
          \/ /\ \A q \in asked : ~(q.kind = "route" /\ q.open)
             /\ \E c \in earlier : MayWrite(c) /\ d.ends = c.ends
    BY <1>1, <1>2
  <1> QED BY <1>1, <1>3, <1>4, <1>5, <1>6

(* Leaving the page: its questions are left behind, and write no more to a  *)
(* screen.                                                                  *)
LEMMA LeavesTyped ==
    ASSUME Screens, Leave, UNCHANGED <<form, known>> PROVE Screens'
  <1>1. \A c \in calls : CallTyped(Orphan(c))
    <2> SUFFICES ASSUME NEW c \in calls PROVE CallTyped(Orphan(c))
      OBVIOUS
    <2>1. CallTyped(c)
      BY DEF Screens, PageTyped
    <2>2. PICK d : d = [c EXCEPT !.open = FALSE, !.turn = 0]
      OBVIOUS
    <2>3. /\ DOMAIN d = DOMAIN c /\ d.open = FALSE /\ d.kind = c.kind
          /\ c.kind = "config" => d.from = c.from /\ d.config = c.config
          /\ c.kind = "route" => d.ends = c.ends
      BY <2>1, <2>2 DEF CallTyped
    <2>4. CallTyped(d)
      BY <2>1, <2>3 DEF CallTyped
    <2> QED BY <2>1, <2>2, <2>4 DEF Orphan
  <1>2. \A c \in calls' : CallTyped(c)
    BY <1>1 DEF Leave
  <1>3. page' = [Elsewhere EXCEPT !.timer = TRUE]
    BY DEF Leave
  <1>4. DOMAIN page' = PageFields /\ page'.at = "away" /\ page'.opener = "home"
    BY <1>3 DEF Elsewhere, PageFields
  <1> QED BY <1>2, <1>4
          DEF Screens, PageTyped, OpenerFits, EndsGiven, RouteCurrent

LEMMA LineSelected ==
    ASSUME Screens, NEW r \in Routes, selectLine(r) PROVE Screens'
  <1>1. r \in DOMAIN TaskLines /\ DraftTyped(form)
    BY DEF selectLine, Screens, PageTyped
  <1>2. form.task = "send_parcel" /\ TaskLines[r].id \in Routes
    <2>1. CASE isCarpoolMode(form)
      <3> DEFINE e(x) == Line(x, carpoolLines[x], TRUE)
      <3>1. TaskLines = [x \in DOMAIN carpoolLines |-> e(x)]
        BY <2>1 DEF TaskLines
      <3>2. e(r).id = r
        BY DEF Line
      <3> HIDE DEF e
      <3> QED BY <1>1, <2>1, <3>1, <3>2 DEF isCarpoolMode
    <2>2. CASE ~isCarpoolMode(form) /\ (form.remote \/ form.lines # <<>>)
      <3>1. TaskLines = form.lines
        BY <2>2 DEF TaskLines
      <3>2. form.lines # <<>>
        BY <1>1, <3>1
      <3> QED BY <1>1, <3>1, <3>2 DEF DraftTyped
    <2>3. CASE ~isCarpoolMode(form) /\ ~(form.remote \/ form.lines # <<>>)
      <3> DEFINE e(x) == Line(x, 0, FALSE)
      <3>1. TaskLines = [x \in BuiltinLines(form.task) |-> e(x)]
        BY <2>3 DEF TaskLines
      <3>2. e(r).id = r
        BY DEF Line
      <3> HIDE DEF e
      <3>3. r \in BuiltinLines(form.task)
        BY <1>1, <3>1
      <3> QED BY <3>1, <3>2, <3>3 DEF BuiltinLines
    <2> QED BY <2>1, <2>2, <2>3
  <1> DEFINE bare == WithoutRoute(form)
             line == TaskLines[r]
             chosen == [bare EXCEPT !.line = line, !.district = FALSE]
             placed2 == IF isCarpoolMode(form) THEN applyRoute(chosen, r, None)
                        ELSE chosen
             f == applyVehicleToDraft(placed2)
             asked == Questions(f, 0, {"route"})
  <1>3. /\ Refresh(f, page) /\ Asking(calls, asked) /\ UNCHANGED known
    BY DEF selectLine
  <1> HIDE DEF line
  <1>4. DraftTyped(bare) /\ bare.task = form.task
    BY <1>1, RouteDropped
  <1> HIDE DEF bare
  <1>5. DraftTyped(chosen) /\ chosen.task = form.task
    <2>1. PICK g : g = chosen
      OBVIOUS
    <2>2. /\ DOMAIN g = DOMAIN bare /\ g.line = line
          /\ \A x \in DOMAIN bare \ {"line", "district"} : g[x] = bare[x]
      BY <1>4, <2>1 DEF DraftTyped
    <2>3. line.id \in Routes
      BY <1>2 DEF line
    <2> HIDE DEF chosen
    <2> QED BY <1>4, <2>1, <2>2, <2>3 DEF DraftTyped
  <1> HIDE DEF chosen
  <1>6. DraftTyped(placed2) /\ placed2.task = form.task
    BY <1>5, RouteApplied
  <1> HIDE DEF placed2
  <1>7. DraftTyped(f) /\ f.task = form.task
    BY <1>6, VehicleApplied DEF SameWay
  <1> HIDE DEF f
  <1>8. /\ DraftTyped(form') /\ SameWay(f, form')
        /\ DOMAIN page' = PageFields
        /\ page'.at = page.at /\ page'.opener = page.opener
    BY <1>3, <1>7, Refreshed DEF Screens, PageTyped
  <1>9. \A c \in calls' : CallTyped(c)
    <2>1. \A q \in asked : CallTyped(q) /\ q.kind # "config"
      BY <1>7, QuestionsTyped
    <2>2. \A c \in calls : CallTyped(c)
      BY DEF Screens, PageTyped
    <2> HIDE DEF asked
    <2> QED BY <1>3, <2>1, <2>2, QuestionsAsked
  <1>10. form'.task = form.task /\ form'.task \notin DISTANCE_SERVICE_IDS
    BY <1>2, <1>7, <1>8, ParcelIsNoDistance DEF SameWay
  <1> QED BY <1>3, <1>8, <1>9, <1>10
          DEF Screens, PageTyped, OpenerFits, EndsGiven, RouteCurrent

LEMMA ItemSelected ==
    ASSUME Screens, NEW pet \in BOOLEAN, selectItem(pet) PROVE Screens'
  <1>1. PICK g : g = [form EXCEPT !.pet = pet]
    OBVIOUS
  <1>2. DraftTyped(g) /\ SameWay(form, g)
    <2>1. DOMAIN g = DOMAIN form /\ g.pet \in BOOLEAN
          /\ \A x \in DOMAIN form \ {"pet"} : g[x] = form[x]
      BY <1>1 DEF Screens, PageTyped, DraftTyped
    <2> QED BY <2>1, FieldEdited
  <1>3. PICK f : f = DryUnlessAsked(g)
    OBVIOUS
  <1>4. DraftTyped(f) /\ SameWay(g, f)
    BY <1>2, <1>3, WeatherKept
  <1>5. PICK asked : asked = Questions(f, 0, {"weather"})
    OBVIOUS
  <1>6. Refresh(f, page) /\ Asking(calls, asked) /\ UNCHANGED known
    BY <1>1, <1>3, <1>5 DEF selectItem
  <1>7. /\ DraftTyped(form') /\ SameWay(f, form')
        /\ DOMAIN page' = PageFields
        /\ page'.at = page.at /\ page'.opener = page.opener
    BY <1>4, <1>6, Refreshed DEF Screens, PageTyped
  <1>8. \A q \in asked : CallTyped(q) /\ q.kind = "weather"
    <2>1. \A q \in asked : q = AskWeather(0)
      BY <1>5, Zenon DEF Questions
    <2>2. \A q \in asked : CallTyped(q)
      BY <1>4, <1>5, QuestionsTyped
    <2> QED BY <2>1, <2>2 DEF AskWeather
  <1>9. \A c \in calls : CallTyped(c)
    BY DEF Screens, PageTyped
  <1>10. /\ \A c \in calls' : CallTyped(c)
         /\ ConfigWaits(calls) => ConfigWaits(calls')
         /\ \A d \in calls' : MayWrite(d) =>
              \E c \in calls : MayWrite(c) /\ d.ends = c.ends
         /\ \A c \in calls : MayWrite(c) => \E d \in calls' : MayWrite(d)
    <2>1. \A q \in asked : CallTyped(q) /\ q.kind # "config" /\ ~MayWrite(q)
      BY <1>8 DEF MayWrite
    <2> QED BY <1>6, <1>8, <1>9, <2>1, QuestionsAsked
  <1>11. SameWay(form, form')
    BY <1>2, <1>4, <1>7 DEF SameWay
  <1>12. PageTyped' /\ EndsGiven'
    BY <1>6, <1>7, <1>10, <1>11
       DEF Screens, PageTyped, OpenerFits, EndsGiven, SameWay
  <1>13. RouteCurrent'
    <2> SUFFICES ASSUME page.at = "create", form.task \in DISTANCE_SERVICE_IDS
                 PROVE  RouteFollows(calls', form')
      BY <1>7, <1>11 DEF RouteCurrent, SameWay
    <2>1. RouteFollows(calls, form)
      BY DEF Screens, RouteCurrent
    <2>2. RouteFollows(calls', form)
      BY <1>10, <2>1 DEF RouteFollows
    <2> QED BY <1>11, <2>2, FollowsKept
  <1> QED BY <1>12, <1>13 DEF Screens

----------------------------------------------------------------------------
(* Between the pages.                                                       *)
LEMMA AddressChosen ==
    ASSUME Screens, NEW end, chooseRouteAddress(end) \/ chooseAddress(end)
    PROVE  Screens'
  <1>1. /\ UNCHANGED <<form, known, calls>>
        /\ page' = [page EXCEPT !.at = "address", !.picking = end]
    BY DEF chooseRouteAddress, chooseAddress
  <1>2. /\ DOMAIN page' = PageFields /\ page'.at = "address"
        /\ page'.opener = page.opener
    BY <1>1 DEF Screens, PageTyped, PageFields
  <1> QED BY <1>1, <1>2
          DEF Screens, PageTyped, OpenerFits, EndsGiven, RouteCurrent

LEMMA AddressSelected ==
    ASSUME Screens, NEW p \in Places, selectAddress(p) PROVE Screens'
  <1>1. /\ page.at = "address" /\ UNCHANGED <<known, calls>>
        /\ page' = [page EXCEPT !.picking = None]
    BY DEF selectAddress, Filling
  <1>2. /\ DOMAIN page' = PageFields /\ page'.at = "address"
        /\ page'.opener = page.opener
    BY <1>1 DEF Screens, PageTyped, PageFields
  <1>3. DraftTyped(form) /\ EndsGiven /\ p # None
    BY PageAssumption DEF Screens, PageTyped
  <1>4. /\ DraftTyped(form')
        /\ page.opener = "create" /\ form'.task \in DISTANCE_SERVICE_IDS =>
             form'.pickup # None /\ form'.dropoff # None
    <2>1. CASE OfALine /\ isCarpoolMode(form)
      <3>1. PICK dir \in {"OUTBOUND", "RETURN"} :
              form' = applyRoute([form EXCEPT !.direction = dir], form.line.id, p)
        BY <2>1 DEF selectAddress, applySelectedAddress
      <3>2. PICK f : f = [form EXCEPT !.direction = dir]
        OBVIOUS
      <3>3. DraftTyped(f) /\ f.task = form.task
        <4>1. DOMAIN f = DOMAIN form /\ f.direction \in {"OUTBOUND", "RETURN"}
              /\ \A x \in DOMAIN form \ {"direction"} : f[x] = form[x]
          BY <1>3, <3>2 DEF DraftTyped
        <4> QED BY <4>1, FieldEdited DEF SameWay
      <3>4. form.line.id \in Routes
        BY <1>3, <2>1 DEF selectAddress, DraftTyped
      <3>5. DraftTyped(form') /\ form'.task = form.task
        BY <3>1, <3>2, <3>3, <3>4, RouteApplied
      <3> QED BY <2>1, <3>5, ParcelIsNoDistance
    <2>2. CASE ~(OfALine /\ isCarpoolMode(form))
      <3>1. \/ form' = [form EXCEPT !.pickup = p, !.km = 0]
            \/ form' = [form EXCEPT !.dropoff = p, !.km = 0]
        BY <2>2 DEF selectAddress
      <3>2. /\ DOMAIN form' = DOMAIN form
            /\ \A x \in DOMAIN form \ {"pickup", "dropoff", "km"} : form'[x] = form[x]
            /\ form'.km = 0
            /\ \/ form'.pickup = p /\ form'.dropoff = form.dropoff
               \/ form'.dropoff = p /\ form'.pickup = form.pickup
        BY <1>3, <3>1 DEF DraftTyped
      <3>3. DraftTyped(form') /\ form'.task = form.task
        BY <1>3, <3>2 DEF DraftTyped
      <3> QED BY <1>1, <1>3, <3>2, <3>3 DEF EndsGiven
    <2> QED BY <2>1, <2>2
  <1> QED BY <1>1, <1>2, <1>4
          DEF Screens, PageTyped, OpenerFits, EndsGiven, RouteCurrent

(* Each showing of the order page asks for the configuration, whose answer  *)
(* will ask for the route.                                                  *)
LEMMA Shown ==
    ASSUME ServerTyped, Screens, onShow,
           form.task \in DISTANCE_SERVICE_IDS =>
             form.pickup # None /\ form.dropoff # None
    PROVE  Screens'
  <1>1. DraftTyped(form) /\ (known # None => Given(known))
    BY DEF Screens, PageTyped
  <1>2. PICK g : g = normalizeHandlingDraft(form)
    OBVIOUS
  <1>3. DraftTyped(g) /\ (g = form \/ g.task = "moving_handling")
    BY <1>1, <1>2, LabourNormalized
  <1>4. PICK f : f = applyRemoteConfigToDraft(g, known)
    OBVIOUS
  <1>5. DraftTyped(f) /\ SameWay(g, f)
    BY <1>1, <1>3, <1>4, RemoteApplied
  <1>6. PICK pg : pg = [page EXCEPT !.at = "create", !.opener = "create",
                                     !.picking = None, !.ready = FALSE]
    OBVIOUS
  <1>7. DOMAIN pg = PageFields /\ pg.at = "create" /\ pg.opener = "create"
    BY <1>6 DEF Screens, PageTyped, PageFields
  <1>8. /\ isTaskEnabled(f.task) /\ Refresh(f, pg) /\ UNCHANGED known
        /\ \E turn : calls' = calls \cup {AskConfig("show", turn)}
    BY <1>2, <1>4, <1>6 DEF onShow
  <1>9. PICK turn : calls' = calls \cup {AskConfig("show", turn)}
    BY <1>8
  <1>10. /\ CallTyped(AskConfig("show", turn))
         /\ AskConfig("show", turn).kind = "config"
         /\ AskConfig("show", turn).from = "show" /\ AskConfig("show", turn).open
    BY ConfigAsked DEF AskConfig
  <1>11. /\ DraftTyped(form') /\ SameWay(f, form')
         /\ DOMAIN page' = PageFields
         /\ page'.at = "create" /\ page'.opener = "create"
    BY <1>5, <1>7, <1>8, Refreshed
  <1>12. PageTyped'
    BY <1>8, <1>9, <1>10, <1>11 DEF Screens, PageTyped, OpenerFits
  <1>13. EndsGiven'
    BY <1>3, <1>5, <1>8, <1>11, ParcelIsNoDistance DEF EndsGiven, SameWay
  <1>14. ConfigWaits(calls')
    BY <1>9, <1>10 DEF ConfigWaits
  <1> QED BY <1>12, <1>13, <1>14 DEF Screens, RouteCurrent, RouteFollows

LEMMA OrderOpened ==
    ASSUME ServerTyped, Screens, goOrder PROVE Screens'
  <1>1. form.task \in DISTANCE_SERVICE_IDS =>
          form.pickup # None /\ form.dropoff # None
    BY ParcelIsNoDistance DEF goOrder, isRouteTask
  <1> QED BY <1>1, Shown DEF goOrder

LEMMA AddressLeft ==
    ASSUME ServerTyped, Screens, navigateBack PROVE Screens'
  <1>1. form.task \in DISTANCE_SERVICE_IDS =>
          form.pickup # None /\ form.dropoff # None
    BY DEF navigateBack, Screens, EndsGiven
  <1> QED BY <1>1, Shown DEF navigateBack

LEMMA TaskChosen ==
    ASSUME Screens, NEW t \in Drafted, ChooseTask(t) PROVE Screens'
  <1>1. /\ page.at = "home" /\ UNCHANGED <<known, page, calls>>
        /\ form' = ensureDraftTask(form, t, known)
    BY DEF ChooseTask, Customer
  <1>2. DraftTyped(form')
    BY <1>1, TaskEnsured DEF Screens, PageTyped
  <1> QED BY <1>1, <1>2
          DEF Screens, PageTyped, OpenerFits, EndsGiven, RouteCurrent

(* The services the pages fall back on are ones they know, and none is      *)
(* switched off for good.                                                   *)
LEMMA DefaultsEnabled == \A c : defaultTaskIds(c) \subseteq EnabledTasks
  <1>1. firstEnabledTaskId \in EnabledTasks
    BY PageAssumption, Zenon DEF firstEnabledTaskId, EnabledTasks, isTaskEnabled
  <1> QED BY <1>1 DEF defaultTaskIds, visibleTasks

LEMMA ShownEnabled ==
    ASSUME NEW t \in Drafted, NEW c
    PROVE  /\ ShownTasks(t, c) \subseteq EnabledTasks
           /\ AppliedTasks(t, c) \subseteq EnabledTasks
           /\ isTaskEnabled(t) => AppliedTasks(t, c) = {t}
           /\ EnabledTasks \subseteq Drafted
  BY DefaultsEnabled DEF ShownTasks, AppliedTasks, EnabledTasks, Drafted

LEMMA HomeShown ==
    ASSUME ServerTyped, Screens, HomeShow PROVE Screens'
  <1>1. DraftTyped(form) /\ (known # None => Given(known)) /\ form.task \in Drafted
    BY DEF Screens, PageTyped, DraftTyped, Drafted
  <1>2. PICK t \in ShownTasks(form.task, known) :
          form' = ensureDraftTask(form, t, known)
    BY DEF HomeShow
  <1>3. t \in Drafted
    BY <1>1, <1>2, ShownEnabled
  <1>4. DraftTyped(form')
    BY <1>1, <1>2, <1>3, TaskEnsured
  <1>5. /\ page' = [page EXCEPT !.at = "home", !.picking = None]
        /\ calls' = calls \cup {AskConfig("home", 0)} /\ UNCHANGED known
    BY DEF HomeShow
  <1>6. page.opener = "home"
    BY DEF HomeShow, Customer, Screens, PageTyped, OpenerFits
  <1>7. DOMAIN page' = PageFields /\ page'.at = "home" /\ page'.opener = "home"
    BY <1>5, <1>6 DEF Screens, PageTyped, PageFields
  <1>8. CallTyped(AskConfig("home", 0))
    BY ConfigAsked
  <1> QED BY <1>4, <1>5, <1>7, <1>8
          DEF Screens, PageTyped, OpenerFits, EndsGiven, RouteCurrent

LEMMA ConfigurationAsked ==
    ASSUME ServerTyped, Screens, HomeAsks \/ pricingSync \/ ClosedPageSyncs
    PROVE  Screens'
  <1>1. /\ UNCHANGED <<form, known, page>>
        /\ \/ calls' = calls \cup {AskConfig("home", 0)}
           \/ calls' = calls \cup {AskConfig("tick", 0)}
           \/ calls' = calls \cup {Orphan(AskConfig("tick", 0))}
    BY DEF HomeAsks, pricingSync, ClosedPageSyncs
  <1>2. PICK call : /\ calls' = calls \cup {call}
                    /\ CallTyped(call) /\ call.kind = "config"
    <2>1. \A from \in {"home", "tick"} :
            /\ CallTyped(AskConfig(from, 0)) /\ AskConfig(from, 0).kind = "config"
      BY ConfigAsked DEF AskConfig
    <2>2. /\ CallTyped(Orphan(AskConfig("tick", 0)))
          /\ Orphan(AskConfig("tick", 0)).kind = "config"
      <3>1. PICK c : c = AskConfig("tick", 0)
        OBVIOUS
      <3>2. /\ CallTyped(c) /\ c.kind = "config" /\ c.from = "tick"
        BY <2>1, <3>1 DEF AskConfig
      <3>3. PICK d : d = [c EXCEPT !.open = FALSE, !.turn = 0]
        OBVIOUS
      <3>4. /\ DOMAIN d = DOMAIN c /\ d.open = FALSE /\ d.kind = "config"
            /\ d.from = "tick" /\ d.config = c.config
        BY <3>2, <3>3 DEF CallTyped
      <3>5. Orphan(c) = d
        BY <3>2, <3>3 DEF Orphan
      <3> QED BY <3>1, <3>2, <3>4, <3>5 DEF CallTyped
    <2> QED BY <1>1, <2>1, <2>2
  <1>3. PageTyped' /\ EndsGiven'
    BY <1>1, <1>2 DEF Screens, PageTyped, EndsGiven
  <1>4. RouteCurrent'
    <2> SUFFICES ASSUME page.at = "create", form.task \in DISTANCE_SERVICE_IDS
                 PROVE  RouteFollows(calls', form)
      BY <1>1 DEF RouteCurrent
    <2>1. RouteFollows(calls, form)
      BY DEF Screens, RouteCurrent
    <2>2. ~MayWrite(call)
      BY <1>2 DEF MayWrite
    <2> QED BY <1>2, <2>1, <2>2 DEF RouteFollows, ConfigWaits
  <1> QED BY <1>3, <1>4 DEF Screens

----------------------------------------------------------------------------
(* Answers.                                                                 *)
LEMMA OthersWait ==
    ASSUME NEW c, Answered(c, {}) PROVE calls' = calls \ {c}
  <1>1. \A x : Overtaken(x, {}) = x
    BY DEF Overtaken
  <1> QED BY <1>1 DEF Answered, Asking

(* An answer that neither brings the route nor asks for it keeps what the   *)
(* others promise.                                                          *)
LEMMA PromiseKept ==
    ASSUME NEW f, RouteFollows(calls, f), \A x \in calls : CallTyped(x),
           NEW c, ~(c.kind = "config" /\ c.from = "show" /\ c.open), ~MayWrite(c),
           NEW asked, \A q \in asked : CallTyped(q) /\ q.kind # "config" /\ ~q.open,
           Answered(c, asked)
    PROVE  RouteFollows(calls', f)
  <1> DEFINE earlier == calls \ {c}
  <1>1. /\ ConfigWaits(earlier) => ConfigWaits(calls')
        /\ \A d \in calls' : MayWrite(d) =>
             \/ d \in asked
             \/ \E x \in earlier : MayWrite(x) /\ d.ends = x.ends
        /\ \A x \in earlier : MayWrite(x) => \E d \in calls' : MayWrite(d)
    <2>1. \A x \in earlier : CallTyped(x)
      OBVIOUS
    <2>2. Asking(earlier, asked)
      BY DEF Answered
    <2> HIDE DEF earlier
    <2> QED BY <2>1, <2>2, QuestionsAsked
  <1>2. \A q \in asked : ~MayWrite(q)
    BY DEF MayWrite
  <1>3. CASE ConfigWaits(calls)
    <2>1. ConfigWaits(earlier)
      BY <1>3 DEF ConfigWaits
    <2> QED BY <1>1, <2>1 DEF RouteFollows
  <1>4. CASE ~ConfigWaits(calls)
    BY <1>1, <1>2, <1>4 DEF RouteFollows
  <1> QED BY <1>3, <1>4

LEMMA ConfigurationAnswered ==
    ASSUME Screens, NEW c \in calls, NEW ok \in BOOLEAN, ConfigAnswered(c, ok)
    PROVE  Screens'
  <1>1. /\ c.kind = "config" /\ c.open \in BOOLEAN /\ Given(c.config)
        /\ known' = IF ok THEN c.config ELSE known
        /\ \A x \in calls : CallTyped(x)
        /\ DraftTyped(form) /\ ~MayWrite(c)
    BY DEF ConfigAnswered, Screens, PageTyped, CallTyped, MayWrite
  <1>2. known' # None => Given(known')
    BY <1>1 DEF Screens, PageTyped
  <1>3. PICK config : config = known'
    OBVIOUS
  <1>4. PICK synced : synced = prepareFormState(applyRemoteConfigToDraft(form, config))
    OBVIOUS
  <1>5. PICK f : f = IF c.from = "show" THEN DryUnlessAsked(synced) ELSE synced
    OBVIOUS
  <1>6. DraftTyped(f) /\ SameWay(form, f)
    <2>1. PICK g : g = applyRemoteConfigToDraft(form, config)
      OBVIOUS
    <2>2. DraftTyped(g) /\ SameWay(form, g)
      BY <1>1, <1>2, <1>3, <2>1, RemoteApplied
    <2>3. DraftTyped(synced) /\ SameWay(g, synced)
      BY <1>4, <2>1, <2>2, FormPrepared
    <2>4. DraftTyped(DryUnlessAsked(synced)) /\ SameWay(synced, DryUnlessAsked(synced))
      BY <2>3, WeatherKept
    <2>5. SameWay(form, synced)
      BY <2>2, <2>3 DEF SameWay
    <2>6. SameWay(form, DryUnlessAsked(synced))
      BY <2>4, <2>5 DEF SameWay
    <2> QED BY <1>5, <2>3, <2>4, <2>5, <2>6
  <1>7. PICK asked : asked = IF c.from = "show"
                             THEN Questions(f, c.turn, {"route", "weather"}) ELSE {}
    OBVIOUS
  <1>8. \A q \in asked : CallTyped(q) /\ q.kind \in {"route", "weather"}
    BY <1>6, <1>7, QuestionsTyped
  <1>9. form.task \in DISTANCE_SERVICE_IDS /\ page.at = "create"
          => RouteFollows(calls, form) /\ form.pickup # None /\ form.dropoff # None
    BY DEF Screens, PageTyped, OpenerFits, RouteCurrent, EndsGiven
  <1>10. CASE c.from = "home"
    <2>1. PICK t \in AppliedTasks(form.task, config) :
            /\ form' = ensureDraftTask(form, t, config)
            /\ Answered(c, {}) /\ UNCHANGED page
      BY <1>3, <1>10 DEF ConfigAnswered
    <2>2. /\ t \in Drafted /\ isTaskEnabled(t)
          /\ isTaskEnabled(form.task) => t = form.task
      <3>1. form.task \in Drafted
        BY <1>1 DEF DraftTyped, Drafted
      <3>2. t \in EnabledTasks /\ (isTaskEnabled(form.task) => t = form.task)
            /\ EnabledTasks \subseteq Drafted
        BY <2>1, <3>1, ShownEnabled
      <3> QED BY <3>2 DEF EnabledTasks
    <2>3. /\ DraftTyped(form') /\ form'.task = t
          /\ (/\ form.task = t /\ t # "moving_handling"
              /\ form.pickup # None /\ form.dropoff # None) => SameWay(form, form')
          /\ t \in DISTANCE_SERVICE_IDS => form'.pickup # None /\ form'.dropoff # None
      BY <1>1, <1>2, <1>3, <2>1, <2>2, TaskEnsured
    <2>4. calls' = calls \ {c}
      BY <2>1, OthersWait
    <2>5. PageTyped'
      BY <1>1, <1>2, <1>3, <2>1, <2>3, <2>4 DEF Screens, PageTyped
    <2>6. EndsGiven'
      BY <2>1, <2>2, <2>3 DEF EndsGiven
    <2>7. RouteCurrent'
      <3> SUFFICES ASSUME page.at = "create", t \in DISTANCE_SERVICE_IDS
                   PROVE  RouteFollows(calls', form')
        BY <2>1, <2>3 DEF RouteCurrent
      <3>1. form.task = t
        BY <2>2 DEF Screens, EndsGiven
      <3>2. SameWay(form, form')
        BY <1>9, <2>3, <3>1, ParcelIsNoDistance
      <3>3. RouteFollows(calls', form)
        BY <1>1, <1>9, <1>10, <2>1, <3>1, PromiseKept
      <3> QED BY <3>2, <3>3, FollowsKept
    <2> QED BY <2>5, <2>6, <2>7 DEF Screens
  <1>11. CASE c.from # "home" /\ c.open
    <2>1. PICK pg : pg = [page EXCEPT !.ready = page.ready \/ Settles(c, asked)]
      OBVIOUS
    <2>2. Answered(c, asked) /\ Refresh(f, pg)
      BY <1>3, <1>4, <1>5, <1>7, <1>11, <2>1 DEF ConfigAnswered
    <2>3. DOMAIN pg = PageFields /\ pg.at = page.at /\ pg.opener = page.opener
      BY <2>1 DEF Screens, PageTyped, PageFields
    <2>4. /\ DraftTyped(form') /\ SameWay(f, form')
          /\ DOMAIN page' = PageFields
          /\ page'.at = page.at /\ page'.opener = page.opener
      BY <1>6, <2>2, <2>3, Refreshed
    <2>5. PICK earlier : earlier = calls \ {c}
      OBVIOUS
    <2>6. /\ \A x \in earlier : CallTyped(x)
          /\ \A q \in asked : CallTyped(q) /\ q.kind # "config"
          /\ Asking(earlier, asked)
      BY <1>1, <1>8, <2>2, <2>5 DEF Answered
    <2>7. /\ \A x \in calls' : CallTyped(x)
          /\ ConfigWaits(earlier) => ConfigWaits(calls')
          /\ \A d \in calls' : MayWrite(d) =>
                \/ d \in asked
                \/ /\ \A q \in asked : ~(q.kind = "route" /\ q.open)
                   /\ \E x \in earlier : MayWrite(x) /\ d.ends = x.ends
      BY <2>6, QuestionsAsked
    <2>8. SameWay(form, form')
      BY <1>6, <2>4 DEF SameWay
    <2>9. PageTyped' /\ EndsGiven'
      BY <1>2, <1>3, <2>4, <2>7, <2>8
         DEF Screens, PageTyped, OpenerFits, EndsGiven, SameWay
    <2>10. RouteCurrent'
      <3> SUFFICES ASSUME page.at = "create", form.task \in DISTANCE_SERVICE_IDS
                   PROVE  RouteFollows(calls', form')
        BY <2>4, <2>8 DEF RouteCurrent, SameWay
      <3>1. CASE c.from = "show"
        <4>1. AsksRoute(f)
          BY <1>6, <1>9 DEF AsksRoute, SameWay
        <4>2. PICK q : q = AskRoute(f, c.turn)
          OBVIOUS
        <4>3. q \in asked
          BY <1>7, <3>1, <4>1, <4>2 DEF Questions
        <4>4. asked = Questions(f, c.turn, {"route", "weather"})
          BY <1>7, <3>1
        <4>5. q.kind = "route"
          BY <4>2 DEF AskRoute
        <4>6. MayWrite(q) /\ q.open
          BY <1>6, <4>3, <4>4, <4>5, QuestionsTyped
        <4>7. \A d \in calls' : MayWrite(d) => d.ends = <<f.pickup, f.dropoff>>
          <5> SUFFICES ASSUME NEW d \in calls', MayWrite(d)
                       PROVE  d.ends = <<f.pickup, f.dropoff>>
            OBVIOUS
          <5>1. d \in asked
            BY <2>7, <4>3, <4>5, <4>6
          <5> QED BY <1>6, <4>4, <5>1, QuestionsTyped DEF MayWrite
        <4>8. q \in calls'
          BY <2>6, <4>3 DEF Asking
        <4>9. form'.pickup = f.pickup /\ form'.dropoff = f.dropoff
          BY <2>4 DEF SameWay
        <4> QED BY <4>6, <4>7, <4>8, <4>9 DEF RouteFollows
      <3>2. CASE c.from # "show"
        <4>1. asked = {}
          BY <1>7, <3>2
        <4>2. RouteFollows(calls', form)
          BY <1>1, <1>9, <2>2, <3>2, <4>1, PromiseKept
        <4> QED BY <2>8, <4>2, FollowsKept
      <3> QED BY <3>1, <3>2
    <2> QED BY <2>9, <2>10 DEF Screens
  <1>12. CASE c.from # "home" /\ ~c.open
    <2>1. PICK orphans : orphans = {Orphan(q) : q \in asked}
      OBVIOUS
    <2>2. form' = f /\ Answered(c, orphans) /\ UNCHANGED page
      BY <1>3, <1>4, <1>5, <1>7, <1>12, <2>1 DEF ConfigAnswered
    <2>3. \A o \in orphans : CallTyped(o) /\ o.kind # "config" /\ ~o.open
      <3> SUFFICES ASSUME NEW q \in asked
                   PROVE  /\ CallTyped(Orphan(q)) /\ Orphan(q).kind # "config"
                          /\ ~Orphan(q).open
        BY <2>1
      <3>1. CallTyped(q) /\ q.kind \in {"route", "weather"}
        BY <1>8
      <3>2. PICK o : o = [q EXCEPT !.open = FALSE, !.turn = 0]
        OBVIOUS
      <3>3. /\ DOMAIN o = DOMAIN q /\ o.open = FALSE /\ o.kind = q.kind
            /\ q.kind = "route" => o.ends = q.ends
        BY <3>1, <3>2 DEF CallTyped
      <3>4. CallTyped(o)
        BY <3>1, <3>3 DEF CallTyped
      <3>5. Orphan(q) = o
        BY <3>1, <3>2 DEF Orphan
      <3> QED BY <3>1, <3>3, <3>4, <3>5
    <2>4. \A x \in calls' : CallTyped(x)
      <3>1. PICK earlier : earlier = calls \ {c}
        OBVIOUS
      <3>2. Asking(earlier, orphans) /\ \A x \in earlier : CallTyped(x)
        BY <1>1, <2>2, <3>1 DEF Answered
      <3> QED BY <2>3, <3>2, QuestionsAsked
    <2>5. PageTyped' /\ EndsGiven'
      BY <1>2, <1>3, <1>6, <2>2, <2>4 DEF Screens, PageTyped, EndsGiven, SameWay
    <2>6. RouteCurrent'
      <3> SUFFICES ASSUME page.at = "create", form.task \in DISTANCE_SERVICE_IDS
                   PROVE  RouteFollows(calls', form')
        BY <1>6, <2>2 DEF RouteCurrent, SameWay
      <3>1. RouteFollows(calls', form)
        BY <1>1, <1>9, <1>12, <2>2, <2>3, PromiseKept
      <3> QED BY <1>6, <2>2, <3>1, FollowsKept
    <2> QED BY <2>5, <2>6 DEF Screens
  <1> QED BY <1>1, <1>10, <1>11, <1>12

(* An answer lands: overtaken, it changes nothing; else it writes into the  *)
(* draft.                                                                   *)
LEMMA AnswerLanded ==
    ASSUME Screens, NEW c \in calls, c.kind \in {"route", "weather"},
           NEW f, DraftTyped(f), f.task = form.task,
           f.pickup = form.pickup, f.dropoff = form.dropoff,
           \/ c.kind = "weather" /\ SameWay(form, f)
           \/ /\ c.kind = "route" /\ f.stray = ~c.open
              /\ f.km \in estimateDistance(c.ends[1], c.ends[2]),
           Landed(c, f)
    PROVE  Screens'
  <1>1. /\ calls' = calls \ {c} /\ Answered(c, {}) /\ UNCHANGED known
        /\ form' = IF c.last THEN f ELSE form
        /\ \E ready, shown : page' = [page EXCEPT !.ready = ready, !.shown = shown]
    BY OthersWait DEF Landed
  <1>2. /\ DOMAIN page' = PageFields
        /\ page'.at = page.at /\ page'.opener = page.opener
    BY <1>1 DEF Screens, PageTyped, PageFields
  <1>3. /\ DraftTyped(form') /\ form'.task = form.task
        /\ form'.pickup = form.pickup /\ form'.dropoff = form.dropoff
    BY <1>1 DEF Screens, PageTyped
  <1>4. PageTyped' /\ EndsGiven'
    BY <1>1, <1>2, <1>3 DEF Screens, PageTyped, OpenerFits, EndsGiven
  <1>5. RouteCurrent'
    <2> SUFFICES ASSUME page.at = "create", form.task \in DISTANCE_SERVICE_IDS
                 PROVE  RouteFollows(calls', form')
      BY <1>2, <1>3 DEF RouteCurrent
    <2>1. RouteFollows(calls, form) /\ \A x \in calls : CallTyped(x)
      BY DEF Screens, RouteCurrent, PageTyped
    <2>2. ~MayWrite(c) => RouteFollows(calls', form)
      BY <1>1, <2>1, PromiseKept
    <2>3. CASE form' = form /\ ~MayWrite(c)
      BY <2>2, <2>3
    <2>4. CASE SameWay(form, f) /\ form' = f /\ ~MayWrite(c)
      BY <2>2, <2>4, FollowsKept
    <2>5. CASE form' = f /\ f.stray /\ ~MayWrite(c)
      <3>1. RouteFits(f)
        BY <2>5 DEF RouteFits
      <3> QED BY <1>3, <2>2, <2>5, <3>1 DEF RouteFollows
    <2>6. CASE /\ form' = f /\ MayWrite(c)
               /\ f.km \in estimateDistance(c.ends[1], c.ends[2])
      <3>1. ConfigWaits(calls) => ConfigWaits(calls')
        BY <1>1 DEF ConfigWaits
      <3>2. ~ConfigWaits(calls) =>
              \A x \in calls : MayWrite(x) => x.ends = <<form.pickup, form.dropoff>>
        BY <2>1 DEF RouteFollows
      <3>3. ~ConfigWaits(calls) => RouteFits(f)
        BY <1>3, <2>6, <3>2 DEF RouteFits
      <3> QED BY <1>1, <1>3, <2>6, <3>1, <3>2, <3>3 DEF RouteFollows
    <2>7. c.kind = "weather" => ~MayWrite(c)
      BY DEF MayWrite
    <2>8. c.open \in BOOLEAN
      BY <2>1 DEF CallTyped
    <2>9. CASE ~c.last
      <3>1. form' = form /\ ~MayWrite(c)
        BY <1>1, <2>9 DEF MayWrite
      <3> QED BY <2>3, <3>1
    <2>10. CASE c.last /\ c.kind = "weather"
      BY <1>1, <2>4, <2>7, <2>10
    <2>11. CASE c.last /\ c.kind = "route"
      <3>1. c.open => MayWrite(c)
        BY <2>11 DEF MayWrite
      <3>2. ~c.open => ~MayWrite(c)
        BY DEF MayWrite
      <3>3. f.km \in estimateDistance(c.ends[1], c.ends[2]) /\ f.stray = ~c.open
        BY <2>11
      <3>4. form' = f
        BY <1>1, <2>11
      <3> QED BY <2>5, <2>6, <2>8, <3>1, <3>2, <3>3, <3>4
    <2> QED BY <2>9, <2>10, <2>11
  <1> QED BY <1>4, <1>5 DEF Screens

LEMMA RouteLands ==
    ASSUME Screens, NEW c \in calls, RouteAnswered(c) PROVE Screens'
  <1>1. PICK metres \in estimateDistance(c.ends[1], c.ends[2]) :
          Landed(c, [form EXCEPT !.km = metres, !.stray = ~c.open])
    BY DEF RouteAnswered
  <1> metres \in Nat
    <2>1. c.ends \in Places \X Places
      BY DEF RouteAnswered, Screens, PageTyped, CallTyped
    <2>2. \A p \in Places, q \in Places : estimateDistance(p, q) \subseteq Nat
      BY PageAssumption, Zenon
    <2> QED BY <1>1, <2>1, <2>2
  <1>2. PICK f : f = [form EXCEPT !.km = metres, !.stray = ~c.open]
    OBVIOUS
  <1>3. /\ DOMAIN f = DOMAIN form /\ f.km = metres /\ f.stray = ~c.open
        /\ \A x \in DOMAIN form \ {"km", "stray"} : f[x] = form[x]
    BY <1>2 DEF Screens, PageTyped, DraftTyped
  <1>4. /\ DraftTyped(f) /\ f.task = form.task
        /\ f.pickup = form.pickup /\ f.dropoff = form.dropoff
    BY <1>3 DEF Screens, PageTyped, DraftTyped
  <1> QED BY <1>1, <1>2, <1>3, <1>4, AnswerLanded DEF RouteAnswered

LEMMA WeatherLands ==
    ASSUME Screens, NEW c \in calls, WeatherAnswered(c) PROVE Screens'
  <1>1. PICK bad : Landed(c, [form EXCEPT !.bad = bad])
    BY DEF WeatherAnswered
  <1>2. PICK f : f = [form EXCEPT !.bad = bad]
    OBVIOUS
  <1>3. /\ DOMAIN f = DOMAIN form
        /\ \A x \in DOMAIN form \ {"bad"} : f[x] = form[x]
    BY <1>2
  <1>4. DraftTyped(f) /\ SameWay(form, f)
    BY <1>3 DEF Screens, PageTyped, DraftTyped, SameWay
  <1>5. /\ f.task = form.task /\ f.pickup = form.pickup
        /\ f.dropoff = form.dropoff
    BY <1>4 DEF SameWay
  <1> QED BY <1>1, <1>2, <1>4, <1>5, AnswerLanded DEF WeatherAnswered

----------------------------------------------------------------------------
(* A submission writes the quote's number into the draft and gives the      *)
(* button back, until it leaves the page.                                   *)
LEMMA SubmissionKeepsScreens ==
    ASSUME Screens, NEW i, Submissions(i) PROVE Screens'
  <1> DEFINE form2 == form' = form \/ \E q : form' = [form EXCEPT !.quoteId = q]
             page2 == page' = page \/ page' = [page EXCEPT !.submitting = FALSE]
  <1>1. \A phase : Ends(i, phase) => page2
    BY DEF Ends
  <1>2. \A q, agreed : SendOrder(i, q, agreed) => form2 /\ page2
    BY <1>1 DEF SendOrder
  <1>3. ASSUME form2, page2, UNCHANGED <<known, calls>>
        PROVE  Screens'
    <2>1. /\ DOMAIN form' = DOMAIN form
          /\ \A x \in DOMAIN form \ {"quoteId"} : form'[x] = form[x]
      BY <1>3
    <2>2. DraftTyped(form') /\ SameWay(form, form')
      BY <2>1, FieldEdited
    <2>3. /\ DOMAIN page' = PageFields
          /\ page'.at = page.at /\ page'.opener = page.opener
      BY <1>3 DEF Screens, PageTyped, PageFields
    <2> QED BY <1>3, <2>2, <2>3, ScreensKept DEF SameWay
  <1>4. CASE \E q \in Quotes : QuoteAnswered(i, q)
    BY <1>2, <1>3, <1>4 DEF QuoteAnswered
  <1>5. CASE QuoteRefused(i) \/ PriceDeclined(i) \/ OrderRefused(i) \/ PaymentOver(i)
    BY <1>1, <1>3, <1>5 DEF QuoteRefused, PriceDeclined, OrderRefused, PaymentOver
  <1>6. CASE PriceConfirmed(i)
    BY <1>2, <1>3, <1>6 DEF PriceConfirmed
  <1>7. CASE \E heard \in BOOLEAN : OrderAnswered(i, heard)
    BY <1>1, <1>3, <1>7 DEF OrderAnswered
  <1>8. CASE redirectTo(i)
    BY <1>8, LeavesTyped DEF redirectTo
  <1> QED BY <1>4, <1>5, <1>6, <1>7, <1>8 DEF Submissions

LEMMA FormFilled ==
    ASSUME ServerTyped, Screens, FillIn PROVE Screens'
  <1>1. \A d \in Wanted : /\ d.weight \in Nat /\ d.passengers \in 1..6
                          /\ d.direction \in {"OUTBOUND", "RETURN"}
                          /\ d.product \in Nat
    BY WantedAssumption DEF PricingQuoteDto
  <1>2. CASE \E b \in BOOLEAN : selectServiceMode(b) \/ selectItem(b)
    BY <1>2, ServiceModeSelected, ItemSelected
  <1>3. CASE \E r \in Routes : selectLine(r)
    BY <1>3, LineSelected
  <1>4. CASE \E d \in Wanted : \/ selectWeight(d.weight)
                               \/ changePassenger(d.passengers)
                               \/ selectDirection(d.direction)
                               \/ inputBudget(d.product)
    BY <1>1, <1>4, WeightSelected, PassengersChanged, DirectionSelected, BudgetTyped
  <1>5. CASE selectDistrict
    BY <1>5, DistrictSelected
  <1>6. CASE \E end \in {"pickup", "dropoff"} : chooseRouteAddress(end)
    BY <1>6, AddressChosen
  <1>7. CASE \E p \in Places : selectAddress(p)
    BY <1>7, AddressSelected
  <1>8. CASE navigateBack
    BY <1>8, AddressLeft
  <1>9. CASE submitOrder
    <2>1. UNCHANGED <<form, known, calls>> /\ page' = [page EXCEPT !.submitting = TRUE]
      BY <1>9 DEF submitOrder
    <2>2. /\ DOMAIN page' = PageFields /\ DraftTyped(form')
          /\ page'.at = page.at /\ page'.opener = page.opener
      BY <2>1 DEF Screens, PageTyped, PageFields
    <2> QED BY <2>1, <2>2, ScreensKept DEF SameWay
  <1> QED BY <1>2, <1>3, <1>4, <1>5, <1>6, <1>7, <1>8, <1>9 DEF FillIn

LEMMA ScreensStep ==
    ASSUME ServerTyped, Screens, [PageNext]_pageVars PROVE Screens'
  <1>1. CASE UNCHANGED pageVars
    <2>1. UNCHANGED createVars
      BY <1>1 DEF pageVars
    <2> QED BY <2>1, ScreensKept DEF createVars, Screens, PageTyped, SameWay
  <1>2. CASE \E t \in Services \ {"carpool_ride"} : ChooseTask(t)
    BY <1>2, TaskChosen DEF Drafted
  <1>3. CASE \/ HomeShow \/ HomeAsks \/ pricingSync \/ ClosedPageSyncs
           \/ \E end \in {"pickup", "dropoff"} : chooseAddress(end)
    BY <1>3, HomeShown, ConfigurationAsked, AddressChosen
  <1>4. CASE goOrder
    BY <1>4, OrderOpened
  <1>5. CASE goBack
    BY <1>5, LeavesTyped DEF goBack
  <1>6. CASE FillIn
    BY <1>6, FormFilled
  <1>7. CASE \E c \in calls : \/ \E ok \in BOOLEAN : ConfigAnswered(c, ok)
                              \/ RouteAnswered(c)
                              \/ WeatherAnswered(c)
    BY <1>7, ConfigurationAnswered, RouteLands, WeatherLands
  <1>8. CASE \E i \in DOMAIN tries : Submissions(i)
    BY <1>8, SubmissionKeepsScreens
  <1>9. CASE \E c \in Category : \E p \in Payloads[c] : PublishNow(c, p)
    <2>1. UNCHANGED createVars
      BY <1>9 DEF PublishNow
    <2> QED BY <2>1, ScreensKept DEF createVars, Screens, PageTyped, SameWay
  <1> QED BY <1>1, <1>2, <1>3, <1>4, <1>5, <1>6, <1>7, <1>8, <1>9 DEF PageNext

----------------------------------------------------------------------------
(* Only a publication changes what the server sells and for how much.       *)
LEMMA ServerStep ==
    ASSUME ServerTyped, [PageNext]_pageVars PROVE ServerTyped'
  <1>1. ASSUME UNCHANGED configVars PROVE ServerTyped'
    BY <1>1 DEF ServerTyped, TablesTyped, LinesTyped, configVars, configTables
  <1>2. CASE UNCHANGED pageVars
    BY <1>1, <1>2 DEF pageVars, vars
  <1>3. CASE \E t \in Services \ {"carpool_ride"} : ChooseTask(t)
    BY <1>1, <1>3 DEF ChooseTask, ServerStays
  <1>4. CASE \/ HomeShow \/ HomeAsks \/ goOrder \/ goBack \/ pricingSync
           \/ ClosedPageSyncs
           \/ \E end \in {"pickup", "dropoff"} : chooseAddress(end)
    BY <1>1, <1>4 DEF HomeShow, HomeAsks, goOrder, onShow, goBack, pricingSync,
         ClosedPageSyncs, chooseAddress, ServerStays
  <1>5. CASE FillIn
    BY <1>1, <1>5 DEF FillIn, selectServiceMode, selectItem, selectLine,
         selectWeight, changePassenger, selectDirection, inputBudget,
         selectDistrict, chooseRouteAddress, selectAddress, navigateBack, onShow,
         submitOrder, Edit, ServerStays
  <1>6. CASE \E c \in calls : \/ \E ok \in BOOLEAN : ConfigAnswered(c, ok)
                              \/ RouteAnswered(c)
                              \/ WeatherAnswered(c)
    BY <1>1, <1>6 DEF ConfigAnswered, RouteAnswered, WeatherAnswered, Landed,
         ServerStays
  <1>7. CASE \E i \in DOMAIN tries : Submissions(i)
    BY <1>1, <1>7 DEF Submissions, QuoteAnswered, QuoteRefused, PriceConfirmed,
         PriceDeclined, OrderAnswered, OrderRefused, PaymentOver, redirectTo,
         ServerStays
  <1>8. CASE \E c \in Category : \E p \in Payloads[c] : PublishNow(c, p)
    BY <1>8, PublishKeepsServer
  <1> QED BY <1>2, <1>3, <1>4, <1>5, <1>6, <1>7, <1>8 DEF PageNext

----------------------------------------------------------------------------
(* The money.                                                               *)
LEMMA MoneyKept ==
    ASSUME Money, UNCHANGED <<quote, placed, tries>> PROVE Money'
  BY DEF Money, RowsOfQuotes, TriesHold, TryHolds, OrdersAgreed, Agreed, IsSeq, Elements

(* A submission that submits at a price, or ends, or steps towards the      *)
(* order at the price of its quote: nothing agreed before is lost.          *)
LEMMA TryStepped ==
    ASSUME Money, NEW i \in DOMAIN tries, NEW t, Step(i, t), TryHolds(t)',
           \A q \in Quotes : quote[q] # None =>
             quote'[q] # None /\ quote'[q].total = quote[q].total,
           tries[i].phase \notin BeforeOrder =>
             t.phase \notin BeforeOrder /\ t.agreed = tries[i].agreed,
           \/ placed' = placed
           \/ /\ t.phase \notin BeforeOrder
              /\ \E o : /\ placed' = Append(placed, o) /\ o.by = i
                        /\ ~o.manual => o.fee = t.agreed
    PROVE  TriesHold' /\ OrdersAgreed'
  <1>1. /\ tries' = [tries EXCEPT ![i] = t]
        /\ IsSeq(tries) /\ IsSeq(placed)
        /\ \A j \in DOMAIN tries : TryHolds(tries[j])
        /\ \A j \in DOMAIN placed : Agreed(placed[j])
    BY DEF Step, Money, TriesHold, OrdersAgreed
  <1>2. IsSeq(tries') /\ DOMAIN tries' = DOMAIN tries
    BY <1>1, SequenceMapped
  <1>3. \A j \in DOMAIN tries' : tries'[j] = IF j = i THEN t ELSE tries[j]
    BY <1>1
  <1>4. TriesHold'
    <2> SUFFICES ASSUME NEW j \in DOMAIN tries' PROVE TryHolds(tries[j])'
      BY <1>2 DEF TriesHold, IsSeq, Elements
    <2>1. CASE j = i
      BY <1>3, <2>1 DEF TryHolds
    <2>2. CASE j # i
      <3>1. tries'[j] = tries[j] /\ TryHolds(tries[j])
        BY <1>1, <1>2, <1>3, <2>2
      <3> QED BY <3>1 DEF TryHolds
    <2> QED BY <2>1, <2>2
  <1>5. ASSUME NEW o, Agreed(o) PROVE Agreed(o)'
    BY <1>2, <1>3, <1>5 DEF Agreed
  <1>6. OrdersAgreed'
    <2>1. CASE placed' = placed
      <3>1. \A j \in DOMAIN placed' : \E o : placed'[j] = o /\ Agreed(o)'
        BY <1>1, <1>5, <2>1
      <3> QED BY <1>1, <2>1, <3>1 DEF OrdersAgreed, IsSeq, Elements, Agreed
    <2>2. CASE /\ t.phase \notin BeforeOrder
               /\ \E o : /\ placed' = Append(placed, o) /\ o.by = i
                         /\ ~o.manual => o.fee = t.agreed
      <3>1. PICK o : /\ placed' = Append(placed, o) /\ o.by = i
                     /\ ~o.manual => o.fee = t.agreed
        BY <2>2
      <3>2. Agreed(o)'
        BY <1>2, <1>3, <2>2, <3>1 DEF Agreed
      <3>3. /\ IsSeq(placed')
            /\ \A j \in DOMAIN placed' : placed'[j] = o
                 \/ (j \in DOMAIN placed /\ placed'[j] = placed[j])
        <4>1. /\ IsSeq(Append(placed, o))
              /\ Len(placed) \in Nat /\ DOMAIN placed = 1..Len(placed)
              /\ DOMAIN Append(placed, o) = DOMAIN placed \cup {Len(placed) + 1}
              /\ \A j \in DOMAIN placed : Append(placed, o)[j] = placed[j]
              /\ Append(placed, o)[Len(placed) + 1] = o
          BY <1>1, SequenceGrows
        <4> QED BY <3>1, <4>1
      <3>4. \A j \in DOMAIN placed' : \E x : placed'[j] = x /\ Agreed(x)'
        BY <1>1, <1>5, <3>2, <3>3
      <3> QED BY <3>3, <3>4 DEF OrdersAgreed, IsSeq, Elements, Agreed
    <2> QED BY <2>1, <2>2
  <1> QED BY <1>4, <1>6

(* The wish a draft stands for is one the server takes.                     *)
LEMMA DtoTyped ==
    ASSUME NEW f, DraftTyped(f) PROVE QuoteDto(f) \in PricingQuoteDto
  <1> DEFINE line == IF f.line = None THEN None ELSE f.line.id
             product == IF f.task = "buy_for_me" THEN f.budget ELSE 0
  <1>1. QuoteDto(f) = [task |-> f.task, carpool |-> isCarpoolMode(f),
                       routeId |-> line, direction |-> f.direction,
                       passengers |-> f.passengers, pickup |-> f.pickup,
                       dropoff |-> f.dropoff, weight |-> f.weight,
                       pet |-> f.pet, product |-> product]
    BY DEF QuoteDto
  <1>2. line \in Routes \cup {None} /\ product \in Nat
    BY DEF DraftTyped
  <1>3. isCarpoolMode(f) \in BOOLEAN
    BY DEF isCarpoolMode, DraftTyped
  <1>4. /\ f.task \in Services /\ f.direction \in {"OUTBOUND", "RETURN"}
        /\ f.passengers \in 1..6 /\ f.weight \in Nat /\ f.pet \in BOOLEAN
        /\ f.pickup \in Places \cup {None} /\ f.dropoff \in Places \cup {None}
    BY DEF DraftTyped
  <1> HIDE DEF line, product
  <1> QED BY <1>1, <1>2, <1>3, <1>4 DEF PricingQuoteDto

LEMMA Submitted ==
    ASSUME Screens, Money, submitOrder PROVE Money'
  <1>1. PICK total : total = estimateFee(form).total
    OBVIOUS
  <1>2. PICK d : d = QuoteDto(form)
    OBVIOUS
  <1>3. PICK t : t = [phase |-> "quoting", dto |-> d, agreed |-> total,
                      quote |-> None, goods |-> None, open |-> TRUE]
    OBVIOUS
  <1>4. tries' = Append(tries, t) /\ UNCHANGED <<quote, placed>>
    BY <1>1, <1>2, <1>3 DEF submitOrder, ServerStays, orderVars
  <1>5. d \in PricingQuoteDto
    BY <1>2, DtoTyped DEF Screens, PageTyped
  <1>6. TryHolds(t)
    BY <1>3, <1>5 DEF TryHolds
  <1>7. /\ IsSeq(tries')
        /\ \A j \in DOMAIN tries : j \in DOMAIN tries' /\ tries'[j] = tries[j]
        /\ \A j \in DOMAIN tries' : tries'[j] = t
             \/ (j \in DOMAIN tries /\ tries'[j] = tries[j])
    <2>1. IsSeq(tries)
      BY DEF Money, TriesHold
    <2>2. /\ IsSeq(Append(tries, t))
          /\ Len(tries) \in Nat /\ DOMAIN tries = 1..Len(tries)
          /\ DOMAIN Append(tries, t) = DOMAIN tries \cup {Len(tries) + 1}
          /\ \A j \in DOMAIN tries : Append(tries, t)[j] = tries[j]
          /\ Append(tries, t)[Len(tries) + 1] = t
      BY <2>1, SequenceGrows
    <2> QED BY <1>4, <2>2
  <1>8. TriesHold'
    <2> SUFFICES ASSUME NEW j \in DOMAIN tries' PROVE TryHolds(tries[j])'
      BY <1>7 DEF TriesHold, IsSeq, Elements
    <2>1. PICK x : tries'[j] = x /\ TryHolds(x)
      BY <1>6, <1>7 DEF Money, TriesHold
    <2> QED BY <1>4, <2>1 DEF TryHolds
  <1>9. OrdersAgreed'
    BY <1>4, <1>7 DEF Money, OrdersAgreed, Agreed, IsSeq, Elements
  <1>10. RowsOfQuotes'
    BY <1>4 DEF Money, RowsOfQuotes
  <1> QED BY <1>8, <1>9, <1>10 DEF Money

(* The page left behind: its submissions go on.                             *)
LEMMA PageLeft ==
    ASSUME Money, goBack \/ \E i \in DOMAIN tries : redirectTo(i) PROVE Money'
  <1>1. UNCHANGED <<quote, placed>>
    BY DEF goBack, redirectTo, ServerStays, orderVars
  <1>2. \A j \in DOMAIN tries : TryHolds(tries[j])
    BY DEF Money, TriesHold
  <1>3. /\ tries' = [j \in DOMAIN tries |-> tries'[j]]
        /\ \A j \in DOMAIN tries :
             \/ tries'[j] = [tries[j] EXCEPT !.open = FALSE]
             \/ /\ tries[j].phase = "leaving"
                /\ tries'[j] = [tries[j] EXCEPT !.open = FALSE, !.phase = "left"]
    <2>1. CASE goBack
      BY <2>1 DEF goBack
    <2>2. CASE \E i \in DOMAIN tries : redirectTo(i)
      <3>1. PICK i \in DOMAIN tries : redirectTo(i)
        BY <2>2
      <3>2. /\ tries[i].phase = "leaving"
            /\ tries' = [j \in DOMAIN tries |->
                 [tries[j] EXCEPT !.open = FALSE,
                                  !.phase = IF j = i THEN "left"
                                            ELSE tries[j].phase]]
        BY <3>1 DEF redirectTo
      <3>3. ASSUME NEW j \in DOMAIN tries, j # i
            PROVE  tries'[j] = [tries[j] EXCEPT !.open = FALSE]
        <4>1. PICK x : x = tries[j]
          OBVIOUS
        <4>2. tries'[j] = [x EXCEPT !.open = FALSE, !.phase = x.phase]
          BY <3>2, <3>3, <4>1
        <4>3. "phase" \in DOMAIN x
          BY <1>2, <4>1 DEF TryHolds
        <4>4. [x EXCEPT !.open = FALSE, !.phase = x.phase] = [x EXCEPT !.open = FALSE]
          BY <4>3
        <4> QED BY <4>1, <4>2, <4>4
      <3>4. tries'[i] = [tries[i] EXCEPT !.open = FALSE, !.phase = "left"]
        BY <3>2
      <3> QED BY <3>2, <3>3, <3>4
    <2> QED BY <2>1, <2>2
  <1>4. IsSeq(tries') /\ DOMAIN tries' = DOMAIN tries
    BY <1>3, SequenceMapped DEF Money, TriesHold
  <1>5. ASSUME NEW j \in DOMAIN tries
        PROVE  /\ DOMAIN tries'[j] = DOMAIN tries[j]
               /\ tries'[j].phase \in {tries[j].phase, "left"}
               /\ tries'[j].dto = tries[j].dto /\ tries'[j].agreed = tries[j].agreed
               /\ tries'[j].quote = tries[j].quote
    <2>1. PICK x : x = tries[j] /\ TryHolds(x)
      BY <1>2
    <2>2. PICK y : y = tries'[j]
      OBVIOUS
    <2>3. \/ y = [x EXCEPT !.open = FALSE]
          \/ y = [x EXCEPT !.open = FALSE, !.phase = "left"]
      BY <1>3, <2>1, <2>2
    <2>4. /\ DOMAIN y = DOMAIN x /\ y.phase \in {x.phase, "left"}
          /\ y.dto = x.dto /\ y.agreed = x.agreed /\ y.quote = x.quote
      BY <2>1, <2>3 DEF TryHolds
    <2> QED BY <2>1, <2>2, <2>4
  <1>6. TriesHold'
    <2> SUFFICES ASSUME NEW j \in DOMAIN tries PROVE TryHolds(tries[j])'
      BY <1>4 DEF TriesHold, IsSeq, Elements
    <2> QED BY <1>1, <1>2, <1>5 DEF TryHolds
  <1>7. OrdersAgreed'
    <2>1. /\ IsSeq(placed) /\ placed' = placed
          /\ \A j \in DOMAIN placed : Agreed(placed[j])
      BY <1>1 DEF Money, OrdersAgreed
    <2>2. ASSUME NEW o, Agreed(o) PROVE Agreed(o)'
      BY <1>4, <1>5, <2>2 DEF Agreed, BeforeOrder
    <2>3. \A j \in DOMAIN placed' : \E o : placed'[j] = o /\ Agreed(o)'
      BY <2>1, <2>2
    <2> QED BY <2>1, <2>3 DEF OrdersAgreed, IsSeq, Elements, Agreed
  <1> QED BY <1>1, <1>6, <1>7 DEF Money, RowsOfQuotes

(* A quote is written once; what was sold on it keeps its price.            *)
LEMMA QuoteIsTyped ==
    ASSUME ServerTyped, NEW d \in PricingQuoteDto, NEW price \in ServerQuote(d)
    PROVE  LET row == NewQuote(d, price, rule[d.task].version) IN
           row \in SubmittedQuote /\ row.total = price.total
  <1>1. /\ RouteAccepted(d, rule[d.task], FoundRoute(d))
        /\ price \in QuotedPrice(d, rule[d.task], FoundRoute(d))
    BY DEF ServerQuote
  <1>2. d.task \in Services /\ d.routeId \in Routes \cup {None}
    BY DEF PricingQuoteDto
  <1>3. rule[d.task] \in RuleRow
    BY <1>2 DEF ServerTyped, TablesTyped
  <1>4. FoundRoute(d) \in RouteRow \cup {None}
    BY DEF FoundRoute, EnabledRoutesFor, RoutesFor, ServerTyped, TablesTyped
  <1>5. price \in Price
    BY <1>1, <1>3, <1>4, QuotedPriceTyped
  <1>6. rule[d.task].version \in Nat
    BY <1>3 DEF RuleRow
  <1>7. PICK version \in Nat : version = rule[d.task].version
    BY <1>6
  <1>8. NewQuote(d, price, version) =
          [dto |-> d, task |-> d.task, routeId |-> d.routeId, unit |-> price.unit,
           total |-> price.total, version |-> version, used |-> FALSE,
           expired |-> FALSE]
    BY DEF NewQuote
  <1>9. d.task \in SERVICE_IDS /\ price.unit \in Nat /\ price.total \in Nat
    BY <1>2, <1>5, ConfigAssumption DEF Price
  <1>10. NewQuote(d, price, version) \in SubmittedQuote
         /\ NewQuote(d, price, version).total = price.total
    BY <1>2, <1>8, <1>9 DEF SubmittedQuote
  <1> QED BY <1>7, <1>10

PricesStay ==
    \A q \in Quotes : quote[q] # None =>
      quote'[q] # None /\ quote'[q].total = quote[q].total

LEMMA RowWritten ==
    ASSUME RowsOfQuotes, NEW q \in Quotes, NEW row \in SubmittedQuote,
           quote' = [quote EXCEPT ![q] = row],
           quote[q] # None => row.total = quote[q].total
    PROVE  /\ RowsOfQuotes' /\ PricesStay
           /\ quote'[q] = row /\ quote'[q] # None
  <1>1. /\ DOMAIN quote' = Quotes /\ quote'[q] = row
        /\ \A k \in Quotes : k # q => quote'[k] = quote[k]
    BY DEF RowsOfQuotes
  <1>2. row # None
    BY PageAssumption
  <1> QED BY <1>1, <1>2 DEF RowsOfQuotes, PricesStay

LEMMA RowsStay ==
    ASSUME RowsOfQuotes, UNCHANGED quote PROVE RowsOfQuotes' /\ PricesStay
  BY DEF RowsOfQuotes, PricesStay

LEMMA Ended ==
    ASSUME Money, NEW i \in DOMAIN tries, NEW phase, phase \notin BeforeOrder,
           Ends(i, phase), RowsOfQuotes', PricesStay, UNCHANGED placed
    PROVE  Money'
  <1>1. PICK t : t = [tries[i] EXCEPT !.phase = phase]
    OBVIOUS
  <1>2. TryHolds(tries[i])
    BY DEF Money, TriesHold
  <1>3. /\ DOMAIN t = DOMAIN tries[i] /\ t.phase = phase
        /\ t.dto = tries[i].dto /\ t.agreed = tries[i].agreed
    BY <1>1, <1>2 DEF TryHolds
  <1>4. TryHolds(t)'
    BY <1>2, <1>3 DEF TryHolds, BeforeOrder
  <1>5. Step(i, t)
    BY <1>1 DEF Ends
  <1> QED BY <1>3, <1>4, <1>5, TryStepped DEF Money, PricesStay

LEMMA OrderSent ==
    ASSUME Money, NEW i \in DOMAIN tries, tries[i].phase \in BeforeOrder,
           NEW q \in Quotes, NEW agreed, SendOrder(i, q, agreed),
           quote'[q] # None, quote'[q].total = agreed,
           RowsOfQuotes', PricesStay, UNCHANGED placed
    PROVE  Money'
  <1>1. CASE form.pickup = None
    BY <1>1, Ended DEF SendOrder, BeforeOrder
  <1>2. CASE form.pickup # None
    <2>1. PICK goods : goods = Goods(form)
      OBVIOUS
    <2>2. PICK t : t = [tries[i] EXCEPT !.phase = "ordering", !.quote = q,
                          !.agreed = agreed, !.goods = goods]
      OBVIOUS
    <2>3. TryHolds(tries[i])
      BY DEF Money, TriesHold
    <2>4. /\ DOMAIN t = DOMAIN tries[i] /\ t.phase = "ordering" /\ t.quote = q
          /\ t.dto = tries[i].dto /\ t.agreed = agreed
      BY <2>2, <2>3 DEF TryHolds
    <2>5. TryHolds(t)'
      BY <2>3, <2>4 DEF TryHolds
    <2>6. Step(i, t)
      BY <1>2, <2>1, <2>2 DEF SendOrder
    <2> QED BY <2>4, <2>5, <2>6, TryStepped DEF Money, PricesStay
  <1> QED BY <1>1, <1>2

LEMMA QuoteArrives ==
    ASSUME ServerTyped, Money, NEW i \in DOMAIN tries, NEW q \in Quotes,
           QuoteAnswered(i, q)
    PROVE  Money'
  <1>1. TryHolds(tries[i]) /\ tries[i].phase = "quoting" /\ quote[q] = None
    BY DEF Money, TriesHold, QuoteAnswered
  <1>2. PICK d \in PricingQuoteDto : d = tries[i].dto
    BY <1>1 DEF TryHolds
  <1>3. PICK price \in ServerQuote(d) :
          /\ quote' = [quote EXCEPT ![q] = NewQuote(d, price, rule[d.task].version)]
          /\ IF SamePrice(price.total, tries[i].agreed)
             THEN SendOrder(i, q, tries[i].agreed)
             ELSE Step(i, [tries[i] EXCEPT !.phase = "asking", !.quote = q])
    BY <1>2 DEF QuoteAnswered
  <1>4. PICK row : row = NewQuote(d, price, rule[d.task].version)
    OBVIOUS
  <1>5. row \in SubmittedQuote /\ row.total = price.total
    BY <1>4, QuoteIsTyped
  <1>6. /\ RowsOfQuotes' /\ PricesStay
        /\ quote'[q] = row /\ quote'[q] # None
    BY <1>1, <1>3, <1>4, <1>5, RowWritten DEF Money
  <1>7. UNCHANGED placed
    BY DEF QuoteAnswered
  <1>8. CASE price.total = tries[i].agreed
    <2>1. SendOrder(i, q, tries[i].agreed)
      BY <1>3, <1>8 DEF SamePrice
    <2>2. quote'[q].total = tries[i].agreed /\ tries[i].phase \in BeforeOrder
      BY <1>1, <1>5, <1>6, <1>8 DEF BeforeOrder
    <2> QED BY <1>6, <1>7, <2>1, <2>2, OrderSent
  <1>9. CASE price.total # tries[i].agreed
    <2>1. PICK t : t = [tries[i] EXCEPT !.phase = "asking", !.quote = q]
      OBVIOUS
    <2>2. Step(i, t)
      BY <1>3, <1>9, <2>1 DEF SamePrice
    <2>3. /\ DOMAIN t = DOMAIN tries[i] /\ t.phase = "asking" /\ t.quote = q
          /\ t.dto = tries[i].dto /\ t.agreed = tries[i].agreed
      BY <1>1, <2>1 DEF TryHolds
    <2>4. TryHolds(t)'
      BY <1>1, <1>6, <2>3 DEF TryHolds
    <2>5. tries[i].phase \in BeforeOrder
      BY <1>1 DEF BeforeOrder
    <2> QED BY <1>6, <1>7, <2>2, <2>4, <2>5, TryStepped DEF Money, PricesStay
  <1> QED BY <1>8, <1>9

LEMMA PriceIsConfirmed ==
    ASSUME Money, NEW i \in DOMAIN tries, PriceConfirmed(i) PROVE Money'
  <1>1. TryHolds(tries[i]) /\ tries[i].phase = "asking"
    BY DEF Money, TriesHold, PriceConfirmed
  <1>2. PICK q \in Quotes : q = tries[i].quote /\ quote[q] # None
    BY <1>1 DEF TryHolds
  <1>3. PICK agreed : agreed = quote[q].total
    OBVIOUS
  <1>4. SendOrder(i, q, agreed) /\ UNCHANGED <<quote, placed>>
    BY <1>2, <1>3 DEF PriceConfirmed, ServerStays, orderVars
  <1>5. RowsOfQuotes' /\ PricesStay
    BY <1>4, RowsStay DEF Money
  <1> QED BY <1>1, <1>2, <1>3, <1>4, <1>5, OrderSent DEF BeforeOrder

LEMMA OrderArrives ==
    ASSUME Money, NEW i \in DOMAIN tries, NEW heard \in BOOLEAN,
           OrderAnswered(i, heard)
    PROVE  Money'
  <1>1. TryHolds(tries[i]) /\ tries[i].phase = "ordering"
    BY DEF Money, TriesHold, OrderAnswered
  <1>2. PICK q \in Quotes : /\ q = tries[i].quote /\ quote[q] # None
                            /\ quote[q].total = tries[i].agreed
    BY <1>1 DEF TryHolds
  <1>3. PICK row : row = [quote[q] EXCEPT !.used = TRUE]
    OBVIOUS
  <1>4. /\ quote' = [quote EXCEPT ![q] = row]
        /\ placed' = Append(placed, OrderFromQuote(i, q))
        /\ \E phase : /\ phase \in {"failed", "leaving", "paying"}
                      /\ Step(i, [tries[i] EXCEPT !.phase = phase])
    BY <1>2, <1>3 DEF OrderAnswered, Ends
  <1>5. row \in SubmittedQuote /\ row.total = quote[q].total
    <2>1. quote[q] \in SubmittedQuote
      BY <1>2 DEF Money, RowsOfQuotes
    <2>2. PICK r \in SubmittedQuote : r = quote[q]
      BY <2>1
    <2>3. row = [r EXCEPT !.used = TRUE]
      BY <1>3, <2>2
    <2>4. row \in SubmittedQuote /\ row.total = r.total
      BY <2>3 DEF SubmittedQuote
    <2> QED BY <2>2, <2>4
  <1>6. RowsOfQuotes' /\ PricesStay
    BY <1>4, <1>5, RowWritten DEF Money
  <1>7. PICK phase : /\ phase \in {"failed", "leaving", "paying"}
                     /\ Step(i, [tries[i] EXCEPT !.phase = phase])
    BY <1>4
  <1>8. PICK t : t = [tries[i] EXCEPT !.phase = phase]
    OBVIOUS
  <1>9. /\ DOMAIN t = DOMAIN tries[i] /\ t.phase = phase
        /\ t.dto = tries[i].dto /\ t.agreed = tries[i].agreed
    BY <1>1, <1>8 DEF TryHolds
  <1>10. TryHolds(t)' /\ t.phase \notin BeforeOrder
    BY <1>1, <1>7, <1>9 DEF TryHolds, BeforeOrder
  <1>11. \E o : /\ placed' = Append(placed, o) /\ o.by = i
                /\ ~o.manual => o.fee = t.agreed
    <2>1. PICK o : o = OrderFromQuote(i, q)
      OBVIOUS
    <2>2. o.by = i /\ (~o.manual => o.fee = quote[q].total)
      BY <2>1 DEF OrderFromQuote
    <2> QED BY <1>2, <1>4, <1>9, <2>1, <2>2
  <1> QED BY <1>6, <1>7, <1>8, <1>9, <1>10, <1>11, TryStepped DEF Money, PricesStay

LEMMA SubmissionKeepsMoney ==
    ASSUME ServerTyped, Money, NEW i \in DOMAIN tries, Submissions(i) PROVE Money'
  <1>1. CASE \E q \in Quotes : QuoteAnswered(i, q)
    BY <1>1, QuoteArrives
  <1>2. CASE QuoteRefused(i) \/ PriceDeclined(i) \/ OrderRefused(i) \/ PaymentOver(i)
    <2>1. PICK phase \in {"failed", "cancelled", "leaving"} : Ends(i, phase)
      BY <1>2 DEF QuoteRefused, PriceDeclined, OrderRefused, PaymentOver
    <2>2. UNCHANGED <<quote, placed>>
      BY <1>2 DEF QuoteRefused, PriceDeclined, OrderRefused, PaymentOver,
                  ServerStays, orderVars
    <2>3. RowsOfQuotes' /\ PricesStay
      BY <2>2, RowsStay DEF Money
    <2> QED BY <2>1, <2>2, <2>3, Ended DEF BeforeOrder
  <1>3. CASE PriceConfirmed(i)
    BY <1>3, PriceIsConfirmed
  <1>4. CASE \E heard \in BOOLEAN : OrderAnswered(i, heard)
    BY <1>4, OrderArrives
  <1>5. CASE redirectTo(i)
    BY <1>5, PageLeft
  <1> QED BY <1>1, <1>2, <1>3, <1>4, <1>5 DEF Submissions

LEMMA MoneyStep ==
    ASSUME ServerTyped, Screens, Money, [PageNext]_pageVars PROVE Money'
  <1>1. CASE UNCHANGED pageVars
    BY <1>1, MoneyKept DEF pageVars, vars, orderVars, createVars
  <1>2. CASE \E t \in Services \ {"carpool_ride"} : ChooseTask(t)
    BY <1>2, MoneyKept DEF ChooseTask, ServerStays, orderVars
  <1>3. CASE \/ HomeShow \/ HomeAsks \/ goOrder \/ pricingSync \/ ClosedPageSyncs
           \/ \E end \in {"pickup", "dropoff"} : chooseAddress(end)
    BY <1>3, MoneyKept DEF HomeShow, HomeAsks, goOrder, onShow, pricingSync,
                           ClosedPageSyncs, chooseAddress, ServerStays, orderVars
  <1>4. CASE goBack
    BY <1>4, PageLeft
  <1>5. CASE submitOrder
    BY <1>5, Submitted
  <1>6. CASE FillIn /\ ~submitOrder
    BY <1>6, MoneyKept DEF FillIn, selectServiceMode, selectItem, selectLine,
         selectWeight, changePassenger, selectDirection, inputBudget,
         selectDistrict, chooseRouteAddress, selectAddress, navigateBack, onShow,
         Edit, ServerStays, orderVars
  <1>7. CASE \E c \in calls : \/ \E ok \in BOOLEAN : ConfigAnswered(c, ok)
                              \/ RouteAnswered(c)
                              \/ WeatherAnswered(c)
    BY <1>7, MoneyKept DEF ConfigAnswered, RouteAnswered, WeatherAnswered, Landed,
                           ServerStays, orderVars
  <1>8. CASE \E i \in DOMAIN tries : Submissions(i)
    BY <1>8, SubmissionKeepsMoney
  <1>9. CASE \E c \in Category : \E p \in Payloads[c] : PublishNow(c, p)
    BY <1>9, MoneyKept DEF PublishNow, orderVars, createVars
  <1> QED BY <1>1, <1>2, <1>3, <1>4, <1>5, <1>6, <1>7, <1>8, <1>9 DEF PageNext

----------------------------------------------------------------------------
LEMMA PageOpens == PageInit => PageIInv
  <1> SUFFICES ASSUME PageInit PROVE PageIInv
    OBVIOUS
  <1>1. /\ InitConfig /\ quote = [q \in Quotes |-> None] /\ placed = <<>>
    BY DEF PageInit, Init
  <1>2. ServerTyped
    BY <1>1, FirstStart
  <1>3. Screens
    <2>1. /\ DraftTyped(form) /\ known = None /\ page = Elsewhere /\ calls = {}
      BY PageAssumption DEF PageInit
    <2>2. DOMAIN page = PageFields /\ page.at = "away" /\ page.opener = "home"
      BY <2>1 DEF Elsewhere, PageFields
    <2> QED BY <2>1, <2>2
            DEF Screens, PageTyped, OpenerFits, EndsGiven, RouteCurrent
  <1>4. Money
    <2>1. tries = <<>>
      BY DEF PageInit
    <2>2. IsSeq(<<>>) /\ DOMAIN <<>> = {}
      BY DEF IsSeq
    <2>3. TriesHold /\ OrdersAgreed
      BY <1>1, <2>1, <2>2 DEF TriesHold, OrdersAgreed
    <2>4. RowsOfQuotes
      BY <1>1 DEF RowsOfQuotes
    <2> QED BY <2>3, <2>4 DEF Money
  <1> QED BY <1>2, <1>3, <1>4 DEF PageIInv

(* Whatever the pages, the answers and the operators do: the server's rows  *)
(* and the draft keep their kinds, the route awaited is the one between the *)
(* addresses chosen, and every submission about to order has agreed to its  *)
(* quote's price (order-create.js).                                         *)
THEOREM PageInvariance == PageSpec => []PageIInv
  <1>1. PageIInv /\ [PageNext]_pageVars => PageIInv'
    BY ServerStep, ScreensStep, MoneyStep DEF PageIInv
  <1> QED BY PageOpens, <1>1, PTL DEF PageSpec

(* No order costs what the customer neither submitted at nor confirmed      *)
(* (order-create.js:511-527, 1017-1021).                                    *)
THEOREM NothingChargedUnagreed == PageSpec => []ChargedAsAgreed
  <1>1. PageIInv => ChargedAsAgreed
    BY DEF PageIInv, Money, OrdersAgreed, Agreed, ChargedAsAgreed
  <1> QED BY PageInvariance, <1>1, PTL

(* When nothing is unanswered any more, the distance priced is that of the  *)
(* addresses chosen, in whichever order the answers came back               *)
(* (order-create.js:725-750).                                               *)
THEOREM RoutePricedIsChosen == PageSpec => []RouteIsOfTheseEnds
  <1>1. PageIInv => RouteIsOfTheseEnds
    BY DEF PageIInv, Screens, RouteCurrent, RouteFollows, ConfigWaits, RouteFits,
           RouteIsOfTheseEnds
  <1> QED BY PageInvariance, <1>1, PTL

----------------------------------------------------------------------------
(* The price on the page.  A draft that the configuration in force leaves   *)
(* alone, but for the mark of where its prices come from, has the prices of *)
(* the server's rule.                                                       *)
LEMMA SyncedPrices ==
    ASSUME PageIInv, Synced
    PROVE  LET r == rule[form.task] IN
           /\ form.base = r.base
           /\ form.weather = IF form.task \in WEATHER_SERVICE_IDS
                             THEN r.weather ELSE 0
           /\ form.task # "moving_handling" =>
                /\ form.mode = r.mode /\ form.perKm = r.perKm
                /\ form.included = r.included
           /\ form.task = "send_parcel" =>
                form.parcel = normalizeParcelPricing(r.parcel,
                                EnabledRoutesFor("send_parcel"))
  <1>1. DraftTyped(form)
    BY DEF PageIInv, Screens, PageTyped
  <1>2. PICK config : config = getAppConfig
    OBVIOUS
  <1>3. /\ known = config /\ form.task \in DOMAIN config.rules
        /\ [form EXCEPT !.remote = TRUE] = applyRemoteConfigToDraft(form, config)
    BY <1>2 DEF Synced
  <1>4. config.rules = [s \in {t \in Services : rule[t].enabled} |->
                          normalizePublicPricingRule(s)]
    BY <1>2 DEF getAppConfig
  <1>5. PICK public : public = config.rules[form.task]
    OBVIOUS
  <1>6. public = normalizePublicPricingRule(form.task)
    BY <1>3, <1>4, <1>5
  <1> DEFINE labour == form.task = "moving_handling"
             g == [form EXCEPT
                     !.mode     = IF labour THEN "manual_quote" ELSE public.mode,
                     !.parcel   = IF form.task = "send_parcel" THEN public.parcel
                                  ELSE form.parcel,
                     !.base     = public.base,
                     !.perKm    = IF labour THEN 0 ELSE public.perKm,
                     !.included = IF labour THEN 0 ELSE public.included,
                     !.weather  = public.weather,
                     !.remote   = TRUE]
  <1>7. WithRule(form, config) = g
    BY <1>5 DEF WithRule
  <1>8. PICK h : /\ h = [form EXCEPT !.remote = TRUE]
                 /\ h = g \/ h = WithLines(g, config)
    BY <1>3, <1>7 DEF Synced, applyRemoteConfigToDraft
  <1>9. /\ DOMAIN g = DOMAIN form /\ g.task = form.task
        /\ g.base = public.base /\ g.weather = public.weather
        /\ ~labour => /\ g.mode = public.mode /\ g.perKm = public.perKm
                      /\ g.included = public.included
        /\ form.task = "send_parcel" => g.parcel = public.parcel
    BY <1>1 DEF DraftTyped
  <1> HIDE DEF g
  <1>10. /\ form.base = g.base /\ form.weather = g.weather
         /\ form.mode = g.mode /\ form.perKm = g.perKm
         /\ form.included = g.included /\ form.parcel = g.parcel
    <2>1. \A x \in DOMAIN form \ {"remote"} : h[x] = form[x]
      BY <1>8
    <2>2. CASE h = g
      BY <1>1, <2>1, <2>2 DEF DraftTyped
    <2>3. CASE h = WithLines(g, config)
      <3>1. PICK lines, line : h = [g EXCEPT !.lines = lines, !.line = line]
        BY <2>3 DEF WithLines
      <3> QED BY <1>1, <1>9, <2>1, <3>1 DEF DraftTyped
    <2> QED BY <1>8, <2>2, <2>3
  <1>11. LET r == rule[form.task] IN
         /\ public.mode = r.mode /\ public.base = r.base
         /\ public.perKm = r.perKm /\ public.included = r.included
         /\ public.weather = IF form.task \in WEATHER_SERVICE_IDS
                             THEN r.weather ELSE 0
         /\ form.task = "send_parcel" =>
              public.parcel = normalizeParcelPricing(r.parcel,
                                EnabledRoutesFor("send_parcel"))
    BY <1>6 DEF normalizePublicPricingRule
  <1> QED BY <1>9, <1>10, <1>11

LEMMA Kilometres ==
    ASSUME NEW km \in Nat, NEW price \in Nat
    PROVE  km * price \in Nat /\ (km + 1) * price = km * price + price
  BY ProductNat, SMT

(* Tenths of a yuan: five fen off at most.                                  *)
LEMMA MoneyRounded ==
    ASSUME NEW fen \in Nat
    PROVE  formatMoney(fen) <= fen + 5 /\ fen <= formatMoney(fen) + 5
  BY SMT DEF formatMoney

(* By the way driven: the page's arithmetic is the server's, but for the    *)
(* kilometre its doubles may count.                                         *)
LEMMA DistanceEstimated ==
    ASSUME PageIInv, Synced, PricedByDistance
    PROVE  \E total \in Nat :
             /\ ServerTotals = {total}
             /\ estimateFee(form).total = formatMoney(total)
  <1>1. DraftTyped(form) /\ form.task \in Services
    BY DEF PageIInv, Screens, PageTyped, DraftTyped
  <1>2. PICK r : r = rule[form.task]
    OBVIOUS
  <1>3. r \in RuleRow /\ OfItsKind(form.task, r)
    BY <1>1, <1>2 DEF PageIInv, ServerTyped, TablesTyped
  <1>4. /\ form.task \in DISTANCE_SERVICE_IDS /\ form.line = None
        /\ form.task # "send_parcel" /\ form.task # "moving_handling"
    BY DEF PricedByDistance, DISTANCE_SERVICE_IDS
  <1>5. /\ form.base = r.base /\ form.perKm = r.perKm
        /\ form.included = r.included /\ form.mode = r.mode
        /\ form.weather = IF form.task \in WEATHER_SERVICE_IDS THEN r.weather ELSE 0
    BY <1>2, <1>4, SyncedPrices
  <1>6. getRouteDistance(form) = form.km
    <2>1. form.pickup # None /\ form.dropoff # None
      BY DEF Synced
    <2> QED BY <1>4, <2>1 DEF getRouteDistance, PricedByDistance
  <1>7. getPricingRule(form) =
          [included |-> r.included, base |-> r.base, perKm |-> r.perKm,
           weather |-> IF form.task \in WEATHER_SERVICE_IDS THEN r.weather ELSE 0]
    BY <1>5 DEF getPricingRule, Synced
  <1> DEFINE product == IF form.task = "buy_for_me" THEN form.budget ELSE 0
             fee == DistanceEstimate(form, getPricingRule(form))
  <1>8. estimateFee(form).total = formatMoney(fee + product)
    <2>1. inferPricingMode(form) = r.mode /\ ~isCarpoolMode(form)
      BY <1>4, <1>5 DEF inferPricingMode, isCarpoolMode
    <2>2. r.mode \notin {"parcel_category", "handling_fixed", "fixed_line_parcel",
                         "fixed_line_ride"}
      BY <1>3, <1>4 DEF OfItsKind, RuleRow, PRICING_MODES, LabourModes
    <2> HIDE DEF fee
    <2> QED BY <1>4, <2>1, <2>2 DEF estimateFee, fee
  <1>9. fee = r.base + FloatExcessKm(form.km, r.included) * r.perKm
                + (IF form.bad /\ form.task \in WEATHER_SERVICE_IDS
                   THEN r.weather ELSE 0)
    <2>1. fee = r.base + FloatExcessKm(form.km, r.included) * r.perKm
                  + (IF form.bad
                     THEN IF form.task \in WEATHER_SERVICE_IDS THEN r.weather ELSE 0
                     ELSE 0)
      BY <1>6, <1>7 DEF DistanceEstimate
    <2> HIDE DEF fee
    <2> QED BY <2>1
  <1> HIDE DEF fee
  <1>10. product = IF form.task = "buy_for_me" THEN AtLeast(0, form.budget) ELSE 0
    BY <1>1 DEF DraftTyped, AtLeast
  <1>11. product \in Nat
    BY <1>1 DEF DraftTyped
  <1> HIDE DEF product
  <1> DEFINE lifted == <<form.km, r.included>> \in FloatAbove
             wet == IF form.bad /\ form.task \in WEATHER_SERVICE_IDS
                    THEN r.weather ELSE 0
             total == QuoteTotal(form.task, r, form.km, form.bad, form.budget)
                        + (IF lifted THEN r.perKm ELSE 0)
  <1>12. PICK km \in Nat : km = ExcessKm(form.km, r.included)
    BY <1>1, <1>3, ExcessKmNat DEF DraftTyped, RuleRow
  <1>13. FloatExcessKm(form.km, r.included) = IF lifted THEN km + 1 ELSE km
    BY <1>12 DEF FloatExcessKm
  <1>14. r.base \in Nat /\ r.perKm \in Nat /\ wet \in Nat
    BY <1>3 DEF RuleRow
  <1>15. km * r.perKm \in Nat /\ (km + 1) * r.perKm = km * r.perKm + r.perKm
    BY <1>12, <1>14, Kilometres
  <1>16. total = r.base + km * r.perKm + wet + product
                   + (IF lifted THEN r.perKm ELSE 0)
    BY <1>10, <1>12 DEF QuoteTotal
  <1>17. fee = r.base + FloatExcessKm(form.km, r.included) * r.perKm + wet
    BY <1>9
  <1> HIDE DEF lifted, wet
  <1>18. total \in Nat /\ fee + product = total
    <2> HIDE DEF total
    <2>1. CASE lifted
      BY <1>11, <1>13, <1>14, <1>15, <1>16, <1>17, <2>1
    <2>2. CASE ~lifted
      BY <1>11, <1>13, <1>14, <1>15, <1>16, <1>17, <2>2
    <2> QED BY <2>1, <2>2
  <1>19. ServerTotals = {total}
    BY <1>2 DEF ServerTotals, lifted
  <1> HIDE DEF total
  <1> QED BY <1>8, <1>18, <1>19

(* By the matrix: the page reads the entry the server charges.              *)
LEMMA ParcelEstimated ==
    ASSUME PageIInv, Synced, PricedByMatrix,
           NEW price \in QuotedPrice(QuoteDto(form), rule[form.task],
                                     route[form.line.id])
    PROVE  /\ price.total \in Nat
           /\ estimateFee(form).total = formatMoney(price.total)
  <1>1. DraftTyped(form) /\ form.task \in Services
    BY DEF PageIInv, Screens, PageTyped, DraftTyped
  <1>2. PICK r : r = rule[form.task]
    OBVIOUS
  <1>3. PICK d : d = QuoteDto(form)
    OBVIOUS
  <1>4. PICK id : id = form.line.id
    OBVIOUS
  <1>5. /\ form.task = "send_parcel" /\ ~isCarpoolMode(form) /\ form.line # None
        /\ id \in EnabledRoutesFor("send_parcel")
        /\ RouteAccepted(d, r, route[id]) /\ price \in QuotedPrice(d, r, route[id])
    BY <1>2, <1>3, <1>4 DEF PricedByMatrix, isCarpoolMode
  <1>6. /\ d.task = "send_parcel" /\ ~d.carpool /\ d.routeId = id
        /\ d.pet = form.pet /\ d.weight = form.weight
    BY <1>3, <1>4, <1>5 DEF QuoteDto
  <1> DEFINE option == IF form.pet THEN "PET"
                       ELSE IF form.weight <= 10 THEN "NORMAL_10" ELSE "NORMAL_30"
             cell == IF id \in DOMAIN r.parcel
                     THEN [price |-> AtLeast(PARCEL_DEFAULT_PRICE_FEN,
                                             r.parcel[id][option].price),
                           enabled |-> r.parcel[id][option].enabled]
                     ELSE [price |-> PARCEL_DEFAULT_PRICE_FEN, enabled |-> TRUE]
  <1>7. option \in PARCEL_PRICE_OPTIONS /\ ParcelOption(d.pet, d.weight) = option
    BY <1>6 DEF ParcelOption, PARCEL_PRICE_OPTIONS
  <1> HIDE DEF option
  <1>8. ASSUME NEW routes, id \in routes
        PROVE  /\ id \in DOMAIN normalizeParcelPricing(r.parcel, routes)
               /\ normalizeParcelPricing(r.parcel, routes)[id][option] = cell
    BY <1>7, <1>8 DEF normalizeParcelPricing
  <1>9. ParcelEntry(d, r) = cell
    BY <1>6, <1>7, <1>8 DEF ParcelEntry
  <1>10. /\ id \in DOMAIN form.parcel /\ form.parcel[id][option] = cell
    <2>1. form.parcel = normalizeParcelPricing(r.parcel,
                                               EnabledRoutesFor("send_parcel"))
      BY <1>2, <1>5, SyncedPrices
    <2> QED BY <1>5, <1>8, <2>1
  <1>11. cell.enabled /\ price.total = cell.price
    <2>1. IsParcel(d, r)
      BY <1>6 DEF IsParcel
    <2>2. price = ParcelPrice(d, r)
      BY <1>5, <1>6, <2>1 DEF QuotedPrice
    <2>3. cell.enabled
      BY <1>5, <1>6, <1>9, <2>1 DEF RouteAccepted
    <2> HIDE DEF cell
    <2> QED BY <1>9, <2>2, <2>3 DEF ParcelPrice
  <1>12. cell.price \in Nat /\ cell.price >= 1
    <2>1. r \in RuleRow
      BY <1>1, <1>2 DEF PageIInv, ServerTyped, TablesTyped
    <2>2. Matrix(r.parcel, Int)
      BY <2>1, MatricesMatch DEF RuleRow
    <2>3. id \in DOMAIN r.parcel => r.parcel[id][option].price \in Int
      BY <1>7, <2>2 DEF Matrix
    <2> QED BY <2>3 DEF AtLeast, PARCEL_DEFAULT_PRICE_FEN
  <1> HIDE DEF cell
  <1>13. getParcelPriceFen(form) = cell.price
    BY <1>4, <1>5, <1>10, <1>11, <1>12 DEF getParcelPriceFen, AtLeast, option
  <1>14. estimateFee(form).total = formatMoney(cell.price + 0)
    BY <1>5, <1>13 DEF estimateFee
  <1>15. cell.price + 0 = cell.price
    BY <1>12
  <1> QED BY <1>11, <1>12, <1>14, <1>15

(* Once the page holds the configuration in force and a distance, it shows  *)
(* the price the server has for that distance in the same weather, rounded  *)
(* to tenths of a yuan, with one kilometre more exactly where its doubles   *)
(* lift the difference over a whole number (order-create.js:184-301,        *)
(* config-center.service.ts:273-309).                                       *)
THEOREM EstimateAgrees == PageSpec => []EstimateIsServerPrice
  <1>1. PageIInv => EstimateIsServerPrice
    <2> SUFFICES ASSUME PageIInv, Synced, NEW total \in ServerTotals
                 PROVE  /\ estimateFee(form).total <= total + 5
                        /\ total <= estimateFee(form).total + 5
      BY DEF EstimateIsServerPrice
    <2>1. total \in Nat /\ estimateFee(form).total = formatMoney(total)
      <3>1. CASE PricedByDistance
        BY <3>1, DistanceEstimated
      <3>2. CASE ~PricedByDistance /\ PricedByMatrix
        <4>1. PICK price \in QuotedPrice(QuoteDto(form), rule[form.task],
                                         route[form.line.id]) : total = price.total
          BY <3>2 DEF ServerTotals
        <4> QED BY <3>2, <4>1, ParcelEstimated
      <3>3. CASE ~PricedByDistance /\ ~PricedByMatrix
        BY <3>3 DEF ServerTotals
      <3> QED BY <3>1, <3>2, <3>3
    <2> QED BY <2>1, MoneyRounded
  <1> QED BY PageInvariance, <1>1, PTL
=============================================================================
