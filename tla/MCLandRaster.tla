---------------------------- MODULE MCLandRaster ----------------------------
(***************************************************************************)
(* LandRaster for TLC: two tiles side by side, shorelines that are all the *)
(* triangles of a few points in and around the first one, and depths with  *)
(* a rock or a gap.                                                        *)
(***************************************************************************)
EXTENDS LandRaster

TheTiles == <<<<0, 0>>, <<0, 3>>>>

Points == {-2, 1, 6, 11, 15} \X {-3, 2, 7, 13}
Triangles == {<<a, b, c>> : a \in {3, 10} \X {5, 6}, b \in Points, c \in Points}
Closed == <<<<13, 1>>, <<13, 4>>, <<18, 4>>, <<13, 1>>>>
TheCoasts == {<<>>} \cup {<<p>> : p \in Triangles}
               \cup {<<p, Closed>> : p \in {<<a, <<6, -3>>, <<1, 7>>>> : a \in {3, 10} \X {5, 6}}}

Deep == [dry |-> {}, missing |-> {}]
TheSoundings == {Deep, [dry |-> {<<1, 5>>}, missing |-> {<<4, 2>>, <<5, 11>>}]}

\* A shoreline of many polygons, or with depths of its own, is one of few.
RasterBound == dtm = Deep \/ Len(coast) = 2

=============================================================================
