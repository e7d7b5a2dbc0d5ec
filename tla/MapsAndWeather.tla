--------------------------- MODULE MapsAndWeather ---------------------------
(***************************************************************************)
(* What the maps and the weather provider's answers become: the road       *)
(* distance a price is computed from, on the server and in the mini        *)
(* program, and whether the weather is bad.  Distances are in metres.      *)
(***************************************************************************)
EXTENDS Integers, Sequences, FiniteSetsExt

CONSTANTS
    Road,           \* [mode of travel, from, to -> metres, 0 if unknown]
    Straight,       \* [Places \X Places -> metres as the crow flies]
    WithPoint,      \* places that carry coordinates of their own
    WeatherMock,    \* WEATHER_MOCK_ENABLED
    WeatherOverride \* BAD_WEATHER_OVERRIDE: BOOLEAN, or "unset"

(* Math.max(0.1, Math.round(km * 10) / 10).                                 *)
roundDistance(meters) ==
    LET tenths == ((meters + 50) \div 100) * 100 IN
    IF tenths < 100 THEN 100 ELSE tenths

(* The server: no answer, or a distance of 0, is no route.  It prices the   *)
(* way a car drives; the page names no mode and is told the bicycle's way.  *)
DISTANCE_MODES == {"driving", "bicycling"}

distance(mode, p, q) ==
    IF Road[mode, p, q] = 0 THEN {} ELSE {roundDistance(Road[mode, p, q])}

(* The page's guess: a quarter more than the straight line, or the distance *)
(* the address book keeps, 2.6 km when it keeps none.                       *)
getAddressDistanceKm(p, q) ==
    IF {p, q} \subseteq WithPoint
    THEN roundDistance((Straight[p, q] * 5) \div 4) ELSE 2600

(* What the page may be told: the bicycle's way, or its guess when the      *)
(* service is down.                                                         *)
estimateDistance(p, q) ==
    {getAddressDistanceKm(p, q)}
      \cup (IF {p, q} \subseteq WithPoint THEN distance("bicycling", p, q)
            ELSE {})

----------------------------------------------------------------------------
(* Weather.  A reading is [storm: its text names a severe condition,        *)
(* code, windScale, windSpeed, rain], 0 for a figure it does not give.      *)

BAD_WEATHER_CODES ==
    {63, 65, 66, 67, 73, 75, 77, 82, 85, 86, 95, 96, 99}

NoReading == [storm |-> FALSE, code |-> 0, windScale |-> 0, windSpeed |-> 0,
              rain |-> 0]

evaluate(reading) ==
    IF WeatherOverride # "unset" THEN WeatherOverride
    ELSE \/ reading.storm
         \/ reading.code \in BAD_WEATHER_CODES
         \/ reading.windScale >= 6
         \/ reading.windSpeed >= 39
         \/ reading.rain >= 8

(* The present reading, the hourly forecast and the warnings together: any  *)
(* text that names a severe condition, and the largest figure of each kind. *)
normalizeTencentWeather(now, hours, alarms) ==
    LET all == {now} \cup hours IN
    [storm     |-> alarms \/ \E x \in all : x.storm,
     code      |-> 0,
     windScale |-> Max({x.windScale : x \in all}),
     windSpeed |-> Max({x.windSpeed : x \in all}),
     rain      |-> Max({x.rain : x \in all})]

(* Without a key: the next three hours of the other provider, the first bad *)
(* code among them if there is one.                                         *)
fetchOpenMeteoForecast(hours) ==
    LET three == SubSeq(hours, 1, IF Len(hours) < 3 THEN Len(hours) ELSE 3)
        next  == {three[i] : i \in DOMAIN three}
        bad   == {x.code : x \in next} \cap BAD_WEATHER_CODES
    IN [storm     |-> FALSE,
        code      |-> IF bad # {} THEN CHOOSE c \in bad : TRUE
                      ELSE three[1].code,
        windScale |-> 0,
        windSpeed |-> Max({x.windSpeed : x \in next}),
        rain      |-> Max({x.rain : x \in next})]

(* A failing provider means normal weather.                                 *)
resolve(located, forecast, available) ==
    IF WeatherMock \/ ~located \/ ~available THEN evaluate(NoReading)
    ELSE evaluate(forecast)
=============================================================================
