---------------------------- MODULE MCCubeTiles ----------------------------
(***************************************************************************)
(* A small globe for CubeTiles: grids that start at either side, from      *)
(* north or south, on and off the lines of the tiles.                      *)
(***************************************************************************)
EXTENDS CubeTiles

TheLeads == <<0, 3>>
TheVarSpecs == <<"wind", "rain">>
TheVarSpec ==
  ("wind" :> [size |-> 2, min |-> -8, max |-> 7, low |-> -20, high |-> 20, optional |-> FALSE]
    @@ "rain" :> [size |-> 1, min |-> -4, max |-> 3, low |-> -4, high |-> 4, optional |-> TRUE])
TheMissingSteps == [v \in {"wind", "rain"} |-> IF v = "rain" THEN {0} ELSE {}]

Grids ==
  {[lat1 |-> 3, up |-> FALSE, lon1 |-> 0, d |-> 2, ni |-> 6, nj |-> 4],
   [lat1 |-> -3, up |-> TRUE, lon1 |-> 6, d |-> 3, ni |-> 4, nj |-> 3]}
GridPoints(g) ==
  {ScanLat(g, j) : j \in 0..g.nj - 1} \X {ScanLon(g, i) : i \in 0..g.ni - 1}

\* Plausible values with halves, different at every point, step and variable; some points
\* have another value: missing, or out of the plausible range, or of the dtype's.
Regular(v, s, p) ==
  VarSpec[v].low
    + ((7 * p[1] + 5 * p[2] + 3 * s) % (VarSpec[v].high - VarSpec[v].low + 1))
Spots(g) ==
  {{}, {<<-3, -6>>}, {p \in GridPoints(g) : p[1] < 0 /\ p[2] < -3},
   {p \in GridPoints(g) : p[1] < 0}, GridPoints(g)}
Field(g, v, s, spot, odd) == [p \in GridPoints(g) |-> IF p \in spot THEN odd ELSE Regular(v, s, p)]
TheWeathers ==
  UNION {{[grid |-> g, tile |-> t, absent |-> a,
           value |-> [f \in Leads \X CubeVars |->
             Field(g, f[2], f[1], IF f[2] \in odd[2] THEN spot ELSE {}, odd[1])]] :
            t \in {1, 3}, spot \in Spots(g),
            a \in {{}, {<<0, "rain">>}, {<<3, "rain">>}, {<<3, "wind">>}},
            odd \in {NaN, -17, -30, 31} \X {{"wind"}, {"wind", "rain"}}} : g \in Grids}

=============================================================================
