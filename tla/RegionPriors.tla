---------------------------- MODULE RegionPriors ----------------------------
(***************************************************************************)
(* How far the days of two cities go together, before anything is known of *)
(* the weather: portfolio/correlation.py, in percent.  A pair of regions   *)
(* is listed once, under the later of the two; what the code gives two     *)
(* cities of one region is 65, whatever it lists further down.             *)
(***************************************************************************)
EXTENDS Integers

CityRegionPriors ==
  [nyc |-> "northeast_metro", phl |-> "northeast_corridor", bos |-> "northeast_metro",
   chi |-> "midwest_metro", aus |-> "texas_inland", den |-> "front_range",
   mia |-> "florida_metro", lax |-> "west_coast_metro", phx |-> "southwest_desert",
   lv |-> "southwest_desert", dal |-> "south_plains", atl |-> "southeast_inland",
   dc |-> "mid_atlantic", hou |-> "gulf_coast", nola |-> "gulf_coast", sat |-> "south_plains",
   okc |-> "south_plains", msp |-> "north_continental"]

\* A city that is not listed is a region of its own.
RegionOf(city) == IF city \in DOMAIN CityRegionPriors THEN CityRegionPriors[city] ELSE city

Unrelated == 22

Priors ==
  [northeast_corridor |-> [northeast_metro |-> 65],
   midwest_metro |-> [northeast_metro |-> 35, northeast_corridor |-> 35],
   front_range |-> [texas_inland |-> 25],
   florida_metro |-> [northeast_metro |-> 20, northeast_corridor |-> 20, midwest_metro |-> 18],
   west_coast_metro |-> [northeast_metro |-> 10, northeast_corridor |-> 10,
                         midwest_metro |-> 12, front_range |-> 18],
   southwest_desert |-> [texas_inland |-> 30, front_range |-> 35, west_coast_metro |-> 30],
   south_plains |-> [midwest_metro |-> 40, texas_inland |-> 60, front_range |-> 32,
                     southwest_desert |-> 32],
   southeast_inland |-> [northeast_metro |-> 30, northeast_corridor |-> 30, florida_metro |-> 50],
   mid_atlantic |-> [northeast_metro |-> 65, northeast_corridor |-> 65, midwest_metro |-> 35,
                     florida_metro |-> 28, southeast_inland |-> 45],
   gulf_coast |-> [northeast_metro |-> 15, northeast_corridor |-> 15, texas_inland |-> 55,
                   front_range |-> 18, florida_metro |-> 50, west_coast_metro |-> 12,
                   south_plains |-> 55, southeast_inland |-> 45, mid_atlantic |-> 25],
   north_continental |-> [northeast_metro |-> 40, northeast_corridor |-> 40,
                          midwest_metro |-> 60, front_range |-> 45, florida_metro |-> 15,
                          west_coast_metro |-> 15, southwest_desert |-> 15,
                          south_plains |-> 40, southeast_inland |-> 30, mid_atlantic |-> 38]]

Prior(later, earlier) ==
  IF later \in DOMAIN Priors /\ earlier \in DOMAIN Priors[later]
  THEN Priors[later][earlier] ELSE Unrelated

\* _pairwise_correlation
PairwiseCorrelation(a, b) ==
  LET left == RegionOf(a)
      right == RegionOf(b)
  IN  IF a = b THEN 100 ELSE IF left = right THEN 65
      ELSE IF Prior(left, right) # Unrelated THEN Prior(left, right) ELSE Prior(right, left)
=============================================================================
