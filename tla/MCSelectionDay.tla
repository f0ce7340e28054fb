--------------------------- MODULE MCSelectionDay ---------------------------
(* Instances of SelectionDay. *)
EXTENDS SelectionDay

CONSTANTS a1, a2, a3, b1

a == "nyc"
b == "phl"
BothCities == {a, b}

Cities2 == [m \in {a1, a2, a3, b1} |-> IF m = b1 THEN b ELSE a]
Tomorrow == [m \in {a1, a2, a3, b1} |-> 1]
Thresholds == a1 :> 80 @@ a2 :> 84 @@ a3 :> NoThreshold @@ b1 :> 82
Operators == a1 :> ">" @@ a2 :> ">=" @@ a3 :> ">" @@ b1 :> "<="

\* A book of one bid on each side, in ticks of five cents.
Ladder(price, size) == [p \in Prices |-> IF p = price THEN size ELSE 0]
Book(yesBid, noBid, size) == ("yes" :> Ladder(yesBid, size) @@ "no" :> Ladder(noBid, size))

Cheap == Book(13, 6, 10)      \* yes at 70, no at 35
Dear == Book(16, 3, 10)       \* yes at 85, no at 20
Wide == Book(8, 6, 10)        \* yes at 70 against a bid of 40
OneSided == Book(13, 0, 10)   \* no offer of yes
Empty == Book(0, 0, 10)
Crossed == Book(15, 8, 10)    \* yes at 60, no at 25

Quiet == [yes |-> 0, no |-> 0, size |-> 0]
Busy == [yes |-> 4, no |-> 4, size |-> 2]

Clear == [shock |-> 0, clouds |-> 0, marine |-> 0, gap |-> 2, reach |-> 80, minutes |-> 300,
          crossed |-> FALSE]
Storm == [Clear EXCEPT !.shock = 70]
Storming == [Clear EXCEPT !.shock = 70, !.minutes = 120]
Fog == [Clear EXCEPT !.marine = 20]
Grey == [Clear EXCEPT !.clouds = 15]
Dusk == [Clear EXCEPT !.minutes = 70, !.gap = 3, !.reach = 40]
Nightfall == [Clear EXCEPT !.minutes = 50]

Plain == [history |-> <<Cheap>>, trades |-> Quiet, p |-> 90, spread |-> 3, straddle |-> 0,
          addon |-> 0, sky |-> Clear, minutes |-> 200, stage |-> "SHADOW_ONLY", kill |-> FALSE,
          lag |-> 0, penalty |-> 0, multiplier |-> 1]

\* What an evaluation can be given about one market.
Forecasts ==
  {[Plain EXCEPT !.history = h, !.p = p, !.spread = s, !.sky = k] :
     h \in {<<Cheap>>, <<Dear, Cheap>>, <<Wide>>, <<OneSided>>, <<Crossed>>},
     p \in {8, 15, 60, 80, 95}, s \in {3, 9, 12},
     k \in {Clear, Storm, Storming, Fog, Grey, Dusk, Nightfall}}
Exceptions ==
  {[Plain EXCEPT !.kill = TRUE], [Plain EXCEPT !.lag = 30], [Plain EXCEPT !.stage = "DISABLED"],
   [Plain EXCEPT !.stage = "OBSERVE_ONLY"], [Plain EXCEPT !.minutes = 10],
   [Plain EXCEPT !.history = <<Empty>>], [Plain EXCEPT !.straddle = 5], [Plain EXCEPT !.p = 98],
   [Plain EXCEPT !.history = <<Wide, Wide, Wide>>, !.trades = Busy, !.stage = "SHADOW_QUALIFIED"],
   [Plain EXCEPT !.history = <<Cheap, Dear, Cheap>>, !.trades = Busy, !.p = 75]}

\* A bet, one for review on "no", and one the fill layer refuses.
DeskQuotes == {Plain, [Plain EXCEPT !.history = <<Dear>>, !.p = 15]}
Refused == [Plain EXCEPT !.history = <<Dear>>, !.p = 40]

Held(m, side) == [market |-> m, side |-> side, qty |-> 60, by |-> 0]

World(held, listed, quotes, n, days) ==
  [open |-> held, markets |-> listed, quotes |-> quotes, evaluations |-> n, days |-> days]

\* Two markets and any interruption; one market given any quote; one that is held; and a
\* third market of a city that is full.
EngineQuotes == Forecasts \union Exceptions
HeldQuotes == {q \in Forecasts : q.spread # 9} \union Exceptions
FullQuotes == DeskQuotes \union {Refused}

AllWorlds ==
  "desk" :> World({}, {a1, b1}, DeskQuotes, 2, 1) @@
  "engine" :> World({}, {a1}, EngineQuotes, 1, 0) @@
  "held" :> World({Held(a1, "yes")}, {a1}, HeldQuotes, 1, 1) @@
  "full" :> World({Held(a1, "no"), Held(a2, "yes")}, {a3}, FullQuotes, 1, 2)
=============================================================================
