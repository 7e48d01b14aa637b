----------------------------- MODULE LandRaster -----------------------------
(***************************************************************************)
(* build_index of src/ingest/land/build.py: the tiles of a domain, each    *)
(* compiled on its own (land/compile.py) from the depths of its blocks and *)
(* the shoreline polygons that reach it, widened by the outward buffer,    *)
(* encoded (landkit/codec.py) and checked.                                 *)
(*                                                                         *)
(* A position is a pair of integers, x to the east and y to the north, of  *)
(* which Unit make a cell; a cell is its row and column.  Depths are       *)
(* abstracted to what the compilation asks of them: dry at the safety      *)
(* contour, missing, or deep.  The cells of the buffer, which landkit/grid *)
(* computes from metres and a cosine, are constants.  No polygon crosses   *)
(* the antimeridian, so every row is crossed an even number of times.      *)
(***************************************************************************)
EXTENDS Integers, Sequences, FiniteSets, FiniteSetsExt

CONSTANTS
  Side,         \* cells along a tile, span_deg * cells_per_deg
  Unit,         \* see above; even, so that a cell has a centre
  SourcePer,    \* SOURCE_PER_CELL: cells of the DTM along a cell, 2
  LonBuffer, LatBuffer,  \* dilation_cells
  ByteBits,     \* bits of a byte, 8; fewer here, so that a row has several bytes
  TilesOf,      \* the domain's tiles: a sequence of south-west cells
  Soundings,    \* what the DTM may hold: records of dry and missing source cells
  Coasts        \* what GSHHG may hold: sequences of polygons, sequences of positions

Position == Int \X Int

ASSUME RasterConstants ==
  /\ {Side, Unit, SourcePer, ByteBits} \subseteq Nat \ {0} /\ Unit % 2 = 0
  /\ {LonBuffer, LatBuffer} \subseteq Nat
  /\ TilesOf \in Seq(Position) \ {<<>>}
  /\ \A d \in Soundings : d.dry \subseteq Position /\ d.missing \subseteq Position
  /\ Coasts \subseteq Seq(Seq(Position) \ {<<>>})

VARIABLES
  dtm, coast,   \* the sources
  tile,         \* the tile being compiled
  made,         \* how far, from "depth" to "built", or "failed"
  polygon,      \* the next polygon
  land, shoal, nodata, blocked,   \* masks of the tile being compiled, sets of cells
  before,       \* blocked_before_buffer
  compiled,     \* tile -> the compiled mask
  payload       \* tile -> its encoded rows

rasterVars == <<dtm, coast, tile, made, polygon, land, shoal, nodata, blocked, before,
                compiled, payload>>

-----------------------------------------------------------------------------
(***************************************************************************)
(* Edges.                                                                  *)
(***************************************************************************)
AbsOf(i) == IF i < 0 THEN -i ELSE i
CeilDiv(a, b) == -((-a) \div b)
\* The closing edge is added, or has no length.
LastPoint(p) == IF p[1] = p[Len(p)] THEN Len(p) - 1 ELSE Len(p)
EdgeFrom(p, i) ==
  LET q == p[(i % Len(p)) + 1]
  IN  [x0 |-> p[i][1], y0 |-> p[i][2], x1 |-> q[1], y1 |-> q[2], nr |-> i]
Edges(p) == {EdgeFrom(p, i) : i \in 1..LastPoint(p)}

\* _mark_edges: samples at most half a cell apart, each as a cell, and both elbows of
\* every two neighbours.
StepsOf(e) ==
  Max({1, CeilDiv(2 * Max({AbsOf(e.x1 - e.x0), AbsOf(e.y1 - e.y0)}), Unit)})
SampleCell(e, k) ==
  LET n == StepsOf(e)
  IN <<(e.y0 * n + (e.y1 - e.y0) * k) \div (n * Unit),
       (e.x0 * n + (e.x1 - e.x0) * k) \div (n * Unit)>>
NoElbows(e) == {}   \* mutant: the samples alone
Elbows(e) ==
  UNION {LET a == SampleCell(e, k)
             b == SampleCell(e, k + 1)
         IN {<<b[1], a[2]>>, <<a[1], b[2]>>} : k \in 0..StepsOf(e) - 1}
Marked(p) ==
  UNION {{SampleCell(e, k) : k \in 0..StepsOf(e)} \cup Elbows(e) : e \in Edges(p)}

\* _fill_interior: the crossings of a row's centre line, as the column whose centre is the
\* first not west of it.  A span goes from an odd crossing to the next one, so a cell is in
\* a span when an odd number of crossings is at or before it.
Centre(i) == i * Unit + Unit \div 2
CrossedAt(e, row) ==
  /\ e.y0 # e.y1
  /\ Min({e.y0, e.y1}) <= Centre(row) /\ Centre(row) < Max({e.y0, e.y1})
ColumnAt(e, row) ==
  LET dy == e.y1 - e.y0
      s == IF dy < 0 THEN -1 ELSE 1
      x == e.x0 * AbsOf(dy) + s * (e.x1 - e.x0) * (Centre(row) - e.y0)
  IN CeilDiv(2 * x - Unit * AbsOf(dy), 2 * Unit * AbsOf(dy))
Filled(p, cells) ==
  {c \in cells :
     Cardinality({e \in Edges(p) : CrossedAt(e, c[1]) /\ ColumnAt(e, c[1]) <= c[2]}) % 2 = 1}

-----------------------------------------------------------------------------
(***************************************************************************)
(* The tiles.                                                              *)
(***************************************************************************)
Cells(k) == {TilesOf[k][1] + i : i \in 0..Side - 1} \X {TilesOf[k][2] + i : i \in 0..Side - 1}
SourcesOf(c) == {c[1] * SourcePer + i : i \in 0..SourcePer - 1}
                  \X {c[2] * SourcePer + i : i \in 0..SourcePer - 1}

\* land_polygons: the polygons one of whose points is in the tile's box.
InBox(x, k) ==
  /\ TilesOf[k][1] * Unit <= x[2] /\ x[2] <= (TilesOf[k][1] + Side) * Unit
  /\ TilesOf[k][2] * Unit <= x[1] /\ x[1] <= (TilesOf[k][2] + Side) * Unit
Reaches(p, k) == \E i \in DOMAIN p : InBox(p[i], k)

RasterInit ==
  /\ dtm \in Soundings /\ coast \in Coasts
  /\ tile = 1 /\ made = "depth" /\ polygon = 1
  /\ land = {} /\ shoal = {} /\ nodata = {} /\ blocked = {} /\ before = 0
  /\ compiled = <<>> /\ payload = <<>>

\* _reduce_block of every block of the tile: the shallowest source cell decides, and one
\* that is missing is a fact of its own.
ReduceBlocks ==
  /\ made = "depth"
  /\ shoal' = {c \in Cells(tile) : SourcesOf(c) \cap dtm.dry # {}}
  /\ nodata' = {c \in Cells(tile) : SourcesOf(c) \cap dtm.missing # {}}
  /\ made' = "coast"
  /\ UNCHANGED <<dtm, coast, tile, polygon, land, blocked, before, compiled, payload>>

\* Every polygon that reaches the tile; the others are passed over.
Rasterise ==
  /\ made = "coast"
  /\ IF polygon > Len(coast)
       THEN made' = "union" /\ UNCHANGED <<polygon, land>>
       ELSE LET p == coast[polygon]
                drawn == (Marked(p) \cap Cells(tile)) \cup Filled(p, Cells(tile))
            IN /\ land' = land \cup (IF Reaches(p, tile) THEN drawn ELSE {})
               /\ polygon' = polygon + 1 /\ UNCHANGED made
  /\ UNCHANGED <<dtm, coast, tile, shoal, nodata, blocked, before, compiled, payload>>

\* nodata_is_blocked is true, as in every published index.
Unite ==
  /\ made = "union"
  /\ blocked' = land \cup shoal \cup nodata
  /\ before' = Cardinality(blocked')
  /\ made' = "buffer"
  /\ UNCHANGED <<dtm, coast, tile, polygon, land, shoal, nodata, compiled, payload>>

\* _dilate_axis along each axis, cropped to the tile.
Shifted(mask, rows, cols) == {<<c[1] + i, c[2] + j>> : c \in mask, i \in rows, j \in cols}
Dilate(mask, k) ==
  LET wide == Shifted(mask, {0}, -LonBuffer..LonBuffer) \cap Cells(k)
  IN Shifted(wide, -LatBuffer..LatBuffer, {0}) \cap Cells(k)
Buffer ==
  /\ made = "buffer"
  /\ blocked' = Dilate(blocked, tile)
  /\ made' = "encode"
  /\ UNCHANGED <<dtm, coast, tile, polygon, land, shoal, nodata, before, compiled, payload>>

\* pack_mask and unpack_mask: rows from the south, the lowest bit to the west, whole bytes.
\* A byte is built from its highest bit down, and read by shifting it to the right.
RowBytes == (Side + ByteBits - 1) \div ByteBits
Place(k, n) ==
  <<TilesOf[k][1] + (n - 1) \div RowBytes, TilesOf[k][2] + ((n - 1) % RowBytes) * ByteBits>>
HighBits(mask, c) ==
  LET bits[n \in 0..ByteBits] ==
        IF n = 0 THEN 0
        ELSE 2 * bits[n - 1] + (IF <<c[1], c[2] + ByteBits - n>> \in mask THEN 1 ELSE 0)
  IN  bits
ShiftedRight(byte) ==
  LET byShift[n \in 0..ByteBits] == IF n = 0 THEN byte ELSE byShift[n - 1] \div 2
  IN  byShift
Pack(mask, k) == [n \in 1..Side * RowBytes |-> HighBits(mask, Place(k, n))[ByteBits]]
Unpack(bytes, k) ==
  {c \in Cells(k) :
     LET i == c[1] - TilesOf[k][1]
         j == c[2] - TilesOf[k][2]
     IN  ShiftedRight(bytes[i * RowBytes + j \div ByteBits + 1])[j % ByteBits] % 2 = 1}

Encode ==
  /\ made = "encode"
  /\ compiled' = Append(compiled, blocked) /\ payload' = Append(payload, Pack(blocked, tile))
  /\ IF tile < Len(TilesOf)
       THEN /\ tile' = tile + 1 /\ made' = "depth" /\ polygon' = 1
            /\ land' = {} /\ shoal' = {} /\ nodata' = {} /\ blocked' = {} /\ before' = 0
       ELSE made' = "check" /\ UNCHANGED <<tile, polygon, land, shoal, nodata, blocked, before>>
  /\ UNCHANGED <<dtm, coast>>

\* _check, of the last tile's buffer and of every tile's round trip.
CheckBuilt ==
  /\ made = "check"
  /\ made' = IF /\ \A k \in DOMAIN TilesOf : Unpack(payload[k], k) = compiled[k]
                /\ Cardinality(blocked) >= before
               THEN "built" ELSE "failed"
  /\ UNCHANGED <<dtm, coast, tile, polygon, land, shoal, nodata, blocked, before, compiled, payload>>

RasterNext == ReduceBlocks \/ Rasterise \/ Unite \/ Buffer \/ Encode \/ CheckBuilt
RasterSpec == RasterInit /\ [][RasterNext]_rasterVars

-----------------------------------------------------------------------------
(***************************************************************************)
(* What a cell of the index must answer, from the sources themselves.      *)
(***************************************************************************)
\* The edge passes through the inside of the cell: it is not beyond a side of the cell,
\* and the cell's corners are not all on one side of it.
SideOf(e, x, y) == (e.x1 - e.x0) * (y - e.y0) - (e.y1 - e.y0) * (x - e.x0)
Touched(e, c) ==
  LET w == c[2] * Unit
      s == c[1] * Unit
      sides == {SideOf(e, x, y) : x \in {w, w + Unit}, y \in {s, s + Unit}}
  IN /\ Max({e.x0, e.x1}) > w /\ Min({e.x0, e.x1}) < w + Unit
     /\ Max({e.y0, e.y1}) > s /\ Min({e.y0, e.y1}) < s + Unit
     /\ Min(sides) < 0 /\ Max(sides) > 0
\* The cell's centre is inside: a ray to the north leaves the polygon.
Above(e, x, y) ==
  /\ Min({e.x0, e.x1}) <= x /\ x < Max({e.x0, e.x1})
  /\ (IF e.x1 > e.x0 THEN 1 ELSE -1) * SideOf(e, x, y) < 0
Inside(p, c) ==
  Cardinality({e \in Edges(p) : Above(e, Centre(c[2]), Centre(c[1]))}) % 2 = 1
OnLand(p, c) == Inside(p, c) \/ \E e \in Edges(p) : Touched(e, c)
DryAt(depths, c) ==
  \E s \in depths.dry \cup depths.missing :
    s[1] \div SourcePer = c[1] /\ s[2] \div SourcePer = c[2]
Unsailable(c) == DryAt(dtm, c) \/ \E i \in DOMAIN coast : OnLand(coast[i], c)
\* The same of the sources that land_polygons and the blocks hand to the compilation of a
\* tile: of the polygons, those with a point in it.
SeenIn(k) == {i \in DOMAIN coast : Reaches(coast[i], k)}
SeenUnsailable(c, k) == DryAt(dtm, c) \/ \E i \in SeenIn(k) : OnLand(coast[i], c)
Near(c, d) == AbsOf(c[1] - d[1]) <= LatBuffer /\ AbsOf(c[2] - d[2]) <= LonBuffer

\* A built index blocks, in every tile, each cell that a dry or missing depth is in, or that
\* a polygon with a point in that tile touches or covers, and every cell of the tile around
\* those as far as the buffer goes, whatever was encoded in between; and the build's own
\* check never refuses.  A polygon without a point in the tile is not spoken of: see
\* TouchedIsBlocked.
CoversSources ==
  /\ made # "failed"
  /\ made = "built" =>
       \A k \in DOMAIN TilesOf : \A c \in Cells(k) :
         (\E d \in Cells(k) : SeenUnsailable(d, k) /\ Near(c, d)) => c \in Unpack(payload[k], k)

\* What the provenance of the manifest and compile.py promise: a built index blocks every
\* cell that any source geometry touches, wherever the points of that geometry are.
TouchedIsBlocked ==
  made = "built" =>
    \A k \in DOMAIN TilesOf : \A c \in Cells(k) : Unsailable(c) => c \in Unpack(payload[k], k)

\* The buffer lies around all that the compilation of some tile was given, wherever the
\* tiles' edges are.
BufferedEverywhere ==
  made = "built" =>
    \A k, n \in DOMAIN TilesOf : \A c \in Cells(k) :
      (\E d \in Cells(n) : SeenUnsailable(d, n) /\ Near(c, d)) => c \in Unpack(payload[k], k)

=============================================================================
