----------------------------- MODULE CubeTiles -----------------------------
(***************************************************************************)
(* How a root layer's values reach its tiles: the GRIB messages of every   *)
(* step (sources/base.py), the cube and its validation (ingest/cube.py,    *)
(* validate.py), the tiles (ingest/tile.py, tilekit/tiles.py) and their    *)
(* bytes (tilekit/codec.py), and a client that reads a point.              *)
(*                                                                         *)
(* Coordinates and values are integers: a degree is a few units, and a     *)
(* quantum is Scale units of the provider's value.  The wind and gust      *)
(* comparison of validation, ensemble members and the JSON of the header   *)
(* are left out.                                                           *)
(***************************************************************************)
EXTENDS Integers, Sequences, FiniteSets, FiniteSetsExt, SequencesExt

CONSTANTS
  Pole, DateLine,  \* 90 and 180 degrees
  LeadSteps,       \* a time axis, ascending
  Weathers,        \* what a provider may have, see Weather
  Scale,           \* of every variable
  VarSpecs,        \* the layer's variables in order
  VarSpec,         \* variable -> size in bytes, range, plausible range, optional
  MaxMissing,      \* max_missing, in percent
  MissingSteps     \* allowed_missing_steps: variable -> steps

NaN == 1000
CubeVars == ToSet(VarSpecs)
Leads == ToSet(LeadSteps)

\* The points of a grid in the order of its messages.
EastWest(lon) == ((lon + DateLine) % (2 * DateLine)) - DateLine
ScanLat(g, j) == IF g.up THEN g.lat1 + j * g.d ELSE g.lat1 - j * g.d
ScanLon(g, i) == EastWest(g.lon1 + i * g.d)

\* A grid as its messages lay it out, the tiles' size, the fields of each step, by point.
Grid == [lat1 : Int, up : BOOLEAN, lon1 : Int, d : Nat \ {0}, ni : Nat \ {0}, nj : Nat \ {0}]
Weather(w) ==
  /\ w.grid \in Grid
  /\ w.grid.ni * w.grid.d = 2 * DateLine /\ (w.grid.nj - 1) * w.grid.d = 2 * Pole
  /\ w.grid.lat1 = IF w.grid.up THEN -Pole ELSE Pole
  /\ w.tile \in Nat \ {0} /\ Pole % w.tile = 0 /\ DateLine % w.tile = 0
  /\ w.absent \subseteq Leads \X CubeVars
  /\ DOMAIN w.value = Leads \X CubeVars
  /\ \A f \in Leads \X CubeVars, j \in 0..w.grid.nj - 1, i \in 0..w.grid.ni - 1 :
       w.value[f][<<ScanLat(w.grid, j), ScanLon(w.grid, i)>>] \in Int

VarSpecType ==
  [size : 1..2, min : Int, max : Int, low : Int, high : Int, optional : BOOLEAN]

\* A value at the end of the representable range is not plausible: so is PHYSICAL_RANGES
\* for the dtype and scale of every layer's variables.
Plausible(t) ==
  /\ (t.min + 1) * Scale < t.low - Scale /\ t.high + Scale < t.max * Scale
  /\ t.max * Scale < NaN

ASSUME CubeConstants ==
  /\ {Pole, DateLine, Scale} \subseteq Nat \ {0}
  /\ LeadSteps \in Seq(Nat) \ {<<>>} /\ VarSpecs \in Seq(STRING) \ {<<>>}
  /\ \A w \in Weathers : Weather(w)
  /\ \A v \in CubeVars : VarSpec[v] \in VarSpecType /\ Plausible(VarSpec[v])
  /\ MissingSteps \in [CubeVars -> SUBSET Leads] /\ MaxMissing \in 0..99

VARIABLES
  weather,   \* what the provider has
  fetched,   \* the steps whose fields are downloaded
  cube,      \* grid and quantized arrays
  tiles,     \* the tiles built
  cubeAt     \* where the job is

tileVars == <<weather, fetched, cube, tiles, cubeAt>>

-----------------------------------------------------------------------------
NoCube == [grid |-> <<>>, arrays |-> <<>>]
TilesInit ==
  /\ weather \in Weathers
  /\ fetched = {} /\ cube = NoCube /\ tiles = <<>> /\ cubeAt = "fetch"

\* fetch_fields of one step: a field that is not listed is an error unless optional.
FieldsListed(s) ==
  \A v \in CubeVars : <<s, v>> \in weather.absent => VarSpec[v].optional
FetchStep(s) ==
  /\ cubeAt = "fetch" /\ s \notin fetched
  /\ IF FieldsListed(s) THEN fetched' = fetched \cup {s} /\ UNCHANGED cubeAt
     ELSE cubeAt' = "failed" /\ UNCHANGED fetched
  /\ UNCHANGED <<weather, cube, tiles>>

-----------------------------------------------------------------------------
(***************************************************************************)
(* collect_steps: rows and columns brought in order, values quantized.     *)
(***************************************************************************)
\* A message: the values row by row, as scanned.
Message(s, v) ==
  LET g == weather.grid
  IN  [j \in 0..g.nj - 1 |-> [i \in 0..g.ni - 1 |->
        weather.value[<<s, v>>][<<ScanLat(g, j), ScanLon(g, i)>>]]]

\* The column of the smallest longitude comes first, latitudes ascend.
Roll(g) == CHOOSE i \in 0..g.ni - 1 : \A k \in 0..g.ni - 1 : ScanLon(g, i) <= ScanLon(g, k)
GridOf(g) ==
  [lat0 |-> IF g.up THEN g.lat1 ELSE g.lat1 - g.d * (g.nj - 1), lon0 |-> ScanLon(g, Roll(g)),
   d |-> g.d, nlat |-> g.nj, nlon |-> g.ni]
DecodeField(g, m) ==
  [j \in 0..g.nj - 1 |-> [i \in 0..g.ni - 1 |->
    m[IF g.up THEN j ELSE g.nj - 1 - j][(i + Roll(g)) % g.ni]]]

\* To the nearest, halves to even; clipped to what is not the sentinel.
Rounded(x) ==
  LET q == x \div Scale
      r == 2 * (x % Scale)
  IN  IF r < Scale \/ (r = Scale /\ q % 2 = 0) THEN q ELSE q + 1
Clip(x, low, high) == Max({low, Min({x, high})})
ClipWhole(v, raw) == Clip(raw, VarSpec[v].min, VarSpec[v].max)   \* mutant: the sentinel too
ClipRaw(v, raw) == Clip(raw, VarSpec[v].min + 1, VarSpec[v].max)
Sentinel(v) == VarSpec[v].min
Quantize(v, x) == IF x = NaN THEN Sentinel(v) ELSE ClipRaw(v, Rounded(x))

\* A field that is absent is filled with the sentinel once the grid is known.
Collected(s, v) ==
  LET g == weather.grid
      f == IF <<s, v>> \in weather.absent
             THEN [j \in 0..g.nj - 1 |-> [i \in 0..g.ni - 1 |-> NaN]]
             ELSE DecodeField(g, Message(s, v))
  IN  [j \in 0..g.nj - 1 |-> [i \in 0..g.ni - 1 |-> Quantize(v, f[j][i])]]
Collect ==
  /\ cubeAt = "fetch" /\ fetched = Leads
  /\ cube' = [grid |-> GridOf(weather.grid),
              arrays |-> [v \in CubeVars |->
                           [k \in DOMAIN LeadSteps |-> Collected(LeadSteps[k], v)]]]
  /\ cubeAt' = "validate"
  /\ UNCHANGED <<weather, fetched, tiles>>

-----------------------------------------------------------------------------
(***************************************************************************)
(* validate_cube: plausible values, few missing ones at every step.        *)
(***************************************************************************)
Lats(g) == [j \in 0..g.nlat - 1 |-> g.lat0 + j * g.d]
Lons(g) == [i \in 0..g.nlon - 1 |-> g.lon0 + i * g.d]
CubeCells(g) == (0..g.nlat - 1) \X (0..g.nlon - 1)
RawAt(v, k, c) == cube.arrays[v][k][c[1]][c[2]]
InRange(v) ==
  \A k \in DOMAIN LeadSteps, c \in CubeCells(cube.grid) :
    RawAt(v, k, c) # Sentinel(v) =>
      /\ RawAt(v, k, c) * Scale >= VarSpec[v].low - Scale
      /\ RawAt(v, k, c) * Scale <= VarSpec[v].high + Scale
FewMissing(v) ==
  \A k \in DOMAIN LeadSteps :
    LET all == Cardinality(CubeCells(cube.grid))
        missing == Quantify(CubeCells(cube.grid), LAMBDA c : RawAt(v, k, c) = Sentinel(v))
    IN  LeadSteps[k] \notin MissingSteps[v] => missing * 100 <= MaxMissing * all /\ missing < all
ValidateCube ==
  /\ cubeAt = "validate"
  /\ cubeAt' = IF \A v \in CubeVars : InRange(v) /\ FewMissing(v) THEN "tile" ELSE "rejected"
  /\ UNCHANGED <<weather, fetched, cube, tiles>>

-----------------------------------------------------------------------------
(***************************************************************************)
(* build_tiles and encode_tile.                                            *)
(***************************************************************************)
Down(x, d) == (x \div d) * d
Corners(low, high, d) == {x \in low..high : x % d = 0}
\* tiles_for_grid: the row at the pole is in no band.
TilesForGrid(g, d) ==
  Corners(Down(Lats(g)[0], d), Down(Min({Lats(g)[g.nlat - 1], Pole - 1}), d), d)
    \X Corners(Down(Lons(g)[0], d), Down(Lons(g)[g.nlon - 1], d), d)
\* tile_index_ranges: half-open bands; a tile between grid lines has no point.
Band(coords, low, d) == {k \in DOMAIN coords : coords[k] >= low /\ coords[k] < low + d}
Rows(t) == Band(Lats(cube.grid), t[1], weather.tile)
Columns(t) == Band(Lons(cube.grid), t[2], weather.tile)

HasData(t) ==
  \E v \in CubeVars, k \in DOMAIN LeadSteps, c \in Rows(t) \X Columns(t) :
    RawAt(v, k, c) # Sentinel(v)

\* One variable, C order; each array padded to four bytes.
Filler == <<0, 0>>
Encoded(t, v) ==
  LET size == VarSpec[v].size
      nlat == Cardinality(Rows(t))
      nlon == Cardinality(Columns(t))
      cell(n) == <<Min(Rows(t)) + (n % (nlat * nlon)) \div nlon, Min(Columns(t)) + (n % nlon)>>
  IN  [b \in 1..Len(LeadSteps) * nlat * nlon * size |->
        LET n == (b - 1) \div size
        IN  <<RawAt(v, 1 + n \div (nlat * nlon), cell(n)), (b - 1) % size>>]
Padding(n) == [k \in 1..(-n) % 4 |-> Filler]

Padded(t, v) == Encoded(t, v) \o Padding(Len(Encoded(t, v)))

\* The arrays of the first n variables, one after another, and where each begins.
Parts(t) ==
  LET parts[n \in 0..Len(VarSpecs)] ==
        IF n = 0 THEN [offset |-> [v \in CubeVars |-> 0], payload |-> <<>>]
        ELSE LET before == parts[n - 1]
             IN  [offset |-> [before.offset EXCEPT ![VarSpecs[n]] = Len(before.payload)],
                  payload |-> before.payload \o Padded(t, VarSpecs[n])]
  IN  parts
EncodeTile(t) ==
  LET body == Parts(t)[Len(VarSpecs)]
  IN  [lat0 |-> Lats(cube.grid)[Min(Rows(t))], lon0 |-> Lons(cube.grid)[Min(Columns(t))],
       d |-> cube.grid.d, nlat |-> Cardinality(Rows(t)), nlon |-> Cardinality(Columns(t)),
       offset |-> body.offset, payload |-> body.payload]

BuildTiles ==
  /\ cubeAt = "tile"
  /\ tiles' = [t \in {u \in TilesForGrid(cube.grid, weather.tile) :
                        Rows(u) # {} /\ Columns(u) # {} /\ HasData(u)} |-> EncodeTile(t)]
  /\ cubeAt' = "published"
  /\ UNCHANGED <<weather, fetched, cube>>

TilesNext ==
  (\E s \in Leads : FetchStep(s)) \/ Collect \/ ValidateCube \/ BuildTiles

TilesSpec == TilesInit /\ [][TilesNext]_tileVars

-----------------------------------------------------------------------------
(***************************************************************************)
(* A client: the tile a point lies in, and the point's value in it.        *)
(***************************************************************************)
TileOrigin(lat, lon) == <<Down(lat, weather.tile), Down(EastWest(lon), weather.tile)>>

\* decode_tile: the n-th value of a variable.
DecodedAt(h, v, n) ==
  LET raw == h.payload[h.offset[v] + n * VarSpec[v].size + 1][1]
  IN  IF raw = Sentinel(v) THEN NaN ELSE raw * Scale

ReadPoint(v, k, lat, lon) ==
  LET t == TileOrigin(lat, lon)
      h == tiles[t]
      n == ((k - 1) * h.nlat + (lat - h.lat0) \div h.d) * h.nlon + (EastWest(lon) - h.lon0) \div h.d
  IN  IF t \in DOMAIN tiles THEN DecodedAt(h, v, n) ELSE NaN

Within(x, y) == IF x = NaN \/ y = NaN THEN x = y ELSE 2 * (x - y) \in -Scale..Scale

\* Whatever the grid's order, the tiles' size and the gaps in the data, a client finds each
\* value of a published run, but those at the pole, in the tile of its own point, within
\* half a quantum of the provider's; what is missing reads as missing, and nothing else
\* does, a value too large for its dtype included.
ReadBack ==
  cubeAt = "published" =>
    \A v \in CubeVars, k \in DOMAIN LeadSteps,
       j \in 0..weather.grid.nj - 1, i \in 0..weather.grid.ni - 1 :
      LET lat == ScanLat(weather.grid, j)
          lon == ScanLon(weather.grid, i)
          given == IF <<LeadSteps[k], v>> \in weather.absent THEN NaN
                   ELSE weather.value[<<LeadSteps[k], v>>][<<lat, lon>>]
      IN  lat < Pole => Within(ReadPoint(v, k, lat, lon), given)

=============================================================================
