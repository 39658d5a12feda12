------------------------------ MODULE MCParts ------------------------------
(***************************************************************************)
(* Six parts that share no state with one another, checked in one          *)
(* instance: in a behaviour one of them runs, and the others stay as they  *)
(* began.  Nothing is lost by that: an interleaving of two of them shows   *)
(* each one only behaviours of its own.                                    *)
(***************************************************************************)
EXTENDS LoginLimiter, AirTraffic, FieldLayers, Flight, Migrations, EdgeSpool

Parts == {"login", "aircraft", "layers", "flight", "schema", "edge"}

VARIABLE part     (* the part that runs in this behaviour *)

PartsVars ==
  <<part, loginVars, airVars, layerVars, flightVars, schemaVars, edgeVars>>

PartsInit ==
  /\ part \in Parts
  /\ LoginInit /\ AirInit /\ LayerInit /\ FlightInit /\ SchemaInit /\ EdgeInit
  /\ part # "login" => redisUp
  /\ part # "aircraft" => credentials /\ reachable
  /\ part # "flight" => \A c \in FlightContacts : target[c] = Min(Distances)
  /\ part # "schema" => rev = 0

(* In a step of one part the variables of the others rest.                  *)
PartsNext ==
  /\ UNCHANGED part
  /\ IF part = "login"    THEN LoginNext  ELSE UNCHANGED loginVars
  /\ IF part = "aircraft" THEN AirNext    ELSE UNCHANGED airVars
  /\ IF part = "layers"   THEN LayerNext  ELSE UNCHANGED layerVars
  /\ IF part = "flight"   THEN FlightNext ELSE UNCHANGED flightVars
  /\ IF part = "schema"   THEN SchemaNext ELSE UNCHANGED schemaVars
  /\ IF part = "edge"     THEN EdgeNext   ELSE UNCHANGED edgeVars

(* LoginFairness, when the login runs, and EdgeFairness, when the edge      *)
(* agent does.                                                              *)
PartsFairness ==
  /\ WF_loginVars(part = "login" /\ LoginTick)
  /\ WF_edgeVars(part = "edge" /\ SkipItem)
  /\ WF_edgeVars(part = "edge" /\ FetchReady)
  /\ WF_edgeVars(part = "edge" /\ Send)
  /\ WF_edgeVars(part = "edge" /\ \E r \in Results : Receive(r))
  /\ WF_edgeVars(part = "edge" /\ Mark)
  /\ \A p \in Packets : WF_edgeVars(part = "edge" /\ BackoffEnds(p))

PartsSpec == PartsInit /\ [][PartsNext]_PartsVars /\ PartsFairness

(* The types of all parts.                                                  *)
PartsTypeOK ==
  /\ LoginTypeOK /\ AirTypeOK /\ LayerTypeOK /\ FlightTypeOK /\ SchemaTypeOK
  /\ EdgeTypeOK

-----------------------------------------------------------------------------
(* Areas: two corners a ring may start from, nine for each of its others, *)
(* which may coincide, lie on a line, or make its edges cross; two of them  *)
(* that a patch draws; and two holes that overlap, an edge of each in the   *)
(* other.                                                                   *)
Corners == {0, 2, 4} \X {0, 2, 4}

Rings == {<<a, b, c, d, a>> : a \in {<<0, 0>>, <<2, 2>>},
                              b \in Corners, c \in Corners, d \in Corners}

RingsOfPatches ==
  {<<<<0, 0>>, <<4, 0>>, <<4, 4>>, <<0, 4>>, <<0, 0>>>>,
   <<<<0, 0>>, <<4, 4>>, <<4, 0>>, <<0, 4>>, <<0, 0>>>>}

OverlappingHoles ==
  {<<<<1, 1>>, <<3, 1>>, <<3, 3>>, <<1, 3>>, <<1, 1>>>>,
   <<<<2, 0>>, <<4, 2>>, <<2, 4>>, <<2, 0>>>>}

(* In line with no two points of the map.                                   *)
FarPoint == <<101, 1009>>
=============================================================================
