------------------------------- MODULE MCParts -------------------------------
(* Small instances of the components that are specified on their own.  They *)
(* share no state, so one run checks them side by side: a behaviour is one  *)
(* component's, and the others stay as they begin.                          *)
EXTENDS PilotStore, ObjectStore, GeoCover, FanetParser, TrackFilter, SpatialIndex,
        TokenCache, Adaptive, Visibility, Lifecycle

VARIABLE part  \* the component that moves

storeVars == <<pilotVars, objectVars>>
pathVars  == <<parserVars, filterVars, visibilityVars>>
queryVars == <<asked, indexVars>>
userVars  == <<tokenVars, adaptiveVars>>
partsVars == <<part, storeVars, pathVars, queryVars, userVars, lifecycleVars>>

MCTTL         == "thermal" :> 2 @@ "station" :> 3 @@ "ground" :> 1
MCJumps       == {5, 11, 60, -30000, 61000, -61000}
MCPosition    == {0, 2, 9}
MCCentre      == {-1, 1, 2}
MCCoordinates == {-16777086, -16777085, -513, -3, -1, 0, 1, 3, 511, 8388609, 16777086}

PartsInit ==
  /\ part \in {"pilots", "objects", "cover", "parser", "filter", "index", "token", "adaptive",
               "visibility", "lifecycle"}
  /\ PilotInit /\ ObjectInit /\ CoverInit /\ ParserInit /\ FilterInit
  /\ IndexInit /\ TokenInit /\ AdaptiveInit /\ VisibilityInit /\ LifecycleInit
  /\ part # "objects" => kind = "thermal"

PilotsMove ==
  /\ part = "pilots" /\ PilotNext
  /\ UNCHANGED <<part, objectVars, pathVars, queryVars, userVars, lifecycleVars>>
ObjectsMove ==
  /\ part = "objects" /\ ObjectNext
  /\ UNCHANGED <<part, pilotVars, pathVars, queryVars, userVars, lifecycleVars>>
CoverMoves ==
  /\ part = "cover" /\ CoverNext
  /\ UNCHANGED <<part, storeVars, pathVars, indexVars, userVars, lifecycleVars>>
ParserMoves ==
  /\ part = "parser" /\ ParserNext
  /\ UNCHANGED <<part, storeVars, filterVars, visibilityVars, queryVars, userVars, lifecycleVars>>
FilterMoves ==
  /\ part = "filter" /\ FilterNext
  /\ UNCHANGED <<part, storeVars, parserVars, visibilityVars, queryVars, userVars, lifecycleVars>>
IndexMoves ==
  /\ part = "index" /\ IndexNext
  /\ UNCHANGED <<part, storeVars, pathVars, asked, userVars, lifecycleVars>>
TokensMove ==
  /\ part = "token" /\ TokenNext
  /\ UNCHANGED <<part, storeVars, pathVars, queryVars, adaptiveVars, lifecycleVars>>
SchedulerMoves ==
  /\ part = "adaptive" /\ AdaptiveNext
  /\ UNCHANGED <<part, storeVars, pathVars, queryVars, tokenVars, lifecycleVars>>
BoundariesMove ==
  /\ part = "visibility" /\ VisibilityNext
  /\ UNCHANGED <<part, storeVars, parserVars, filterVars, queryVars, userVars, lifecycleVars>>
ProcessMoves ==
  /\ part = "lifecycle" /\ LifecycleNext
  /\ UNCHANGED <<part, storeVars, pathVars, queryVars, userVars>>

PartsNext ==
  \/ PilotsMove \/ ObjectsMove \/ CoverMoves \/ ParserMoves \/ FilterMoves \/ IndexMoves
  \/ TokensMove \/ SchedulerMoves \/ BoundariesMove \/ ProcessMoves

PartsSpec == PartsInit /\ [][PartsNext]_partsVars

\* The type of every variable of every component.
PartsTypeOK ==
  CASE part = "pilots"     -> PilotTypeOK
    [] part = "objects"    -> ObjectTypeOK
    [] part = "cover"      -> CoverTypeOK
    [] part = "parser"     -> ParserTypeOK
    [] part = "filter"     -> FilterTypeOK
    [] part = "index"      -> IndexTypeOK
    [] part = "token"      -> TokenTypeOK
    [] part = "adaptive"   -> AdaptiveTypeOK
    [] part = "visibility" -> VisibilityTypeOK
    [] part = "lifecycle"  -> LifecycleTypeOK
=============================================================================
