----------------------------- MODULE FieldLayers -----------------------------
(***************************************************************************)
(* A field layer: an area drawn on the map, a GeoJSON polygon with an      *)
(* exterior ring and holes, and which targets it concerns                  *)
(* (app/services/field_layer_effects.py).  The same question is answered a *)
(* second time, for the area of a policy (app/services/policy_engine.py).  *)
(*                                                                         *)
(* A point is <<lon, lat>> in whole units, in place of floating point      *)
(* numbers and their tolerance of 1e-9; a ring is the sequence of its      *)
(* corners, the last of which is the first (the schema refuses others).    *)
(***************************************************************************)
EXTENDS Integers, FiniteSets, SequencesExt

CONSTANTS
  Targets,      (* the coordinates of the targets that are reported        *)
  Exteriors,    (* the exterior rings that are drawn                       *)
  Redrawn,      (* those of them that a patch draws                        *)
  Holes,        (* the holes that are drawn                                *)
  MaxHoles,     (* bound: holes of one layer                               *)
  Faraway       (* a place in line with no target and no corner            *)

Points == Targets \X Targets

NoLayer == [rings |-> <<>>, active |-> FALSE]

VARIABLE layer        (* the row of field_layers, NoLayer without it *)

layerVars == layer

(* _validate_geojson_polygon                                                *)
ValidRing(ring) == Len(ring) >= 4 /\ ring[1] = ring[Len(ring)]

LayerTypeOK ==
  \/ layer = NoLayer
  \/ /\ layer.active \in BOOLEAN
     /\ Len(layer.rings) >= 1
     /\ \A i \in DOMAIN layer.rings : ValidRing(layer.rings[i])

LayerInit == layer = NoLayer

-----------------------------------------------------------------------------
(* _point_on_segment, _ring_relation *)

Cross(p, a, b) == (p[1] - a[1]) * (b[2] - a[2]) - (p[2] - a[2]) * (b[1] - a[1])

(* Every ring has its corners, and none but the target itself is in line    *)
(* with a target and the faraway place.                                     *)
ASSUME LayerAssumption ==
  /\ Targets \subseteq Int
  /\ Redrawn \subseteq Exteriors
  /\ MaxHoles \in Nat
  /\ Exteriors \cup Holes \subseteq Seq(Int \X Int)
  /\ Faraway \in Int \X Int
  /\ \A ring \in Exteriors \cup Holes, p \in Points : \A i \in DOMAIN ring :
       ring[i] = p \/ Cross(p, Faraway, ring[i]) # 0

Between(x, u, v) == (u <= x /\ x <= v) \/ (v <= x /\ x <= u)

OnSegment(p, a, b) ==
  /\ Cross(p, a, b) = 0
  /\ Between(p[1], a[1], b[1]) /\ Between(p[2], a[2], b[2])

Before(ring, i) == IF i = 1 THEN ring[Len(ring)] ELSE ring[i - 1]

(* Faulty variant: an edge counts at both of its ends.                      *)
CrossesRayClosed(p, a, b) ==
  /\ Between(p[2], a[2], b[2])
  /\ a[2] # b[2]
  /\ IF b[2] > a[2]
     THEN (p[1] - a[1]) * (b[2] - a[2]) < (b[1] - a[1]) * (p[2] - a[2])
     ELSE (p[1] - a[1]) * (b[2] - a[2]) > (b[1] - a[1]) * (p[2] - a[2])

(* The edge has one end above the point and one not above it, and meets the *)
(* point's latitude east of the point.                                      *)
CrossesRay(p, a, b) ==
  /\ (a[2] > p[2]) # (b[2] > p[2])
  /\ IF b[2] > a[2]
     THEN (p[1] - a[1]) * (b[2] - a[2]) < (b[1] - a[1]) * (p[2] - a[2])
     ELSE (p[1] - a[1]) * (b[2] - a[2]) > (b[1] - a[1]) * (p[2] - a[2])

OddlyCrossed(ring, p) ==
  Cardinality({i \in DOMAIN ring : CrossesRay(p, Before(ring, i), ring[i])}) % 2 = 1

OnBoundary(ring, p) == \E i \in DOMAIN ring : OnSegment(p, Before(ring, i), ring[i])

RingRelation(ring, p) ==
  IF OnBoundary(ring, p) THEN "boundary"
  ELSE IF OddlyCrossed(ring, p) THEN "inside" ELSE "outside"

(* Faulty variant: the holes are not taken in their order.                  *)
InPolygonUnordered(rings, p) ==
  LET exterior == RingRelation(rings[1], p)
      holes == {RingRelation(rings[i], p) : i \in 2 .. Len(rings)}
  IN  exterior = "boundary" \/ (exterior = "inside" /\ "inside" \notin holes)

(* point_in_geojson_polygon: the edge belongs to the area, and so does that *)
(* of a hole, unless an earlier hole of the list holds the point.           *)
InPolygon(rings, p) ==
  LET exterior == RingRelation(rings[1], p)
      hole(i) == RingRelation(rings[i], p)
  IN  \/ exterior = "boundary"
      \/ /\ exterior = "inside"
         /\ \A i \in 2 .. Len(rings) :
              hole(i) = "inside" => \E j \in 2 .. i - 1 : hole(j) = "boundary"

(* build_field_layer_effects, for one layer.                                *)
Concerns(l, p) == l.active /\ InPolygon(l.rings, p)

(* policy_engine._point_in_polygon: the same ray, no edges and no holes.    *)
InPolicyArea(ring, p) == OddlyCrossed(ring, p)

-----------------------------------------------------------------------------
(* create_field_layer, patch_field_layer, delete_field_layer *)

(* What passes the schema: an exterior ring and any holes, in any order,    *)
(* that may overlap, repeat or leave the exterior ring.                     *)
HoleLists == BoundedSeq({r \in Holes : ValidRing(r)}, MaxHoles)

Draw(exteriors, on) ==
  \E e \in exteriors, h \in HoleLists :
    ValidRing(e) /\ layer' = [rings |-> <<e>> \o h, active |-> on]

CreateLayer == layer = NoLayer /\ \E on \in BOOLEAN : Draw(Exteriors, on)

(* A patch with a geometry, and one without.                                *)
PatchLayer ==
  /\ layer # NoLayer
  /\ \E on \in BOOLEAN : Draw(Redrawn, on) \/ layer' = [layer EXCEPT !.active = on]

DeleteLayer == layer # NoLayer /\ layer' = NoLayer

LayerNext == CreateLayer \/ PatchLayer \/ DeleteLayer

LayerSpec == LayerInit /\ [][LayerNext]_layerVars

-----------------------------------------------------------------------------
(* Properties *)

(* What it means to lie in a triangle: its edges are all on the same side.  *)
InTriangle(p, a, b, c) ==
  \/ Cross(p, a, b) > 0 /\ Cross(p, b, c) > 0 /\ Cross(p, c, a) > 0
  \/ Cross(p, a, b) < 0 /\ Cross(p, b, c) < 0 /\ Cross(p, c, a) < 0

(* The area of a ring, whatever its shape, is the alternating sum of the    *)
(* triangles over its edges that meet far away.                             *)
InRing(ring, p) ==
  Cardinality({i \in DOMAIN ring : InTriangle(p, Faraway, Before(ring, i), ring[i])})
    % 2 = 1

(* A target is shown with an active layer when it lies on an edge of the    *)
(* exterior ring, or in that ring and, if it touches holes, on the edge of  *)
(* the first of them in the order of the geometry; it is shown with no      *)
(* other.  So where no hole's edge runs inside another hole, it is shown    *)
(* just if it lies within none, and the order tells nothing.  This is for   *)
(* corners and edges of every direction, rings that cross themselves,       *)
(* targets in line with corners.  The test of a policy's area says the same *)
(* of its ring off the edges.                                               *)
TargetsAreClassified ==
  layer.active =>
    \A p \in Points :
      LET ring == layer.rings[1]
          edge == OnBoundary(ring, p)
          holes == 2 .. Len(layer.rings)
          edges == {i \in holes : OnBoundary(layer.rings[i], p)}
          touched == edges \cup {i \in holes : InRing(layer.rings[i], p)}
      IN  /\ Concerns(layer, p) <=>
               \/ edge
               \/ /\ InRing(ring, p)
                  /\ \A i \in touched : (\A j \in touched : i <= j) => i \in edges
          /\ edges = {} \/ touched \subseteq edges =>
               (Concerns(layer, p) <=> edge \/ (InRing(ring, p) /\ touched \subseteq edges))
          /\ ~edge => (InPolicyArea(ring, p) <=> InRing(ring, p))
=============================================================================
