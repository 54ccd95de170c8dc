-------------------------- MODULE MCAeronautical --------------------------
(* The three components of aeronautical data side by side.  They share no  *)
(* table and no file, so a behaviour follows one of them.                  *)
EXTENDS ExternalTables, Terrain, Declination

VARIABLE follows

vars == <<follows, tvars, rvars, wvars>>

Init ==
    /\ follows \in {"tables", "terrain", "declination"}
    /\ ExternalInit /\ TerrainInit /\ WmmInit
    /\ follows # "tables" => source = "airports"
    /\ follows # "terrain" => ~terrain_exists

TablesStep == follows = "tables" /\ ExternalNext /\ UNCHANGED <<follows, rvars, wvars>>
TerrainStep == follows = "terrain" /\ TerrainNext /\ UNCHANGED <<follows, tvars, wvars>>
DeclinationStep == follows = "declination" /\ WmmNext /\ UNCHANGED <<follows, tvars, rvars>>

Next == TablesStep \/ TerrainStep \/ DeclinationStep

\* ExternalFairness for the behaviours that follow the tables.
Fairness ==
    /\ WF_vars(TablesStep /\ LoadStep("poll"))
    /\ \A p \in Loaders \ {"poll"} :
          WF_vars(TablesStep /\ job[p].pc # "idle" /\ LoadStep(p))

Spec == Init /\ [][Next]_vars /\ Fairness

\* Every variable of the three components keeps its type.
AeronauticalTypeOK == ExternalTypeOK /\ TerrainTypeOK /\ WmmTypeOK

\* The tables of a source in the end hold its last publication, complete:
\* EventuallyFresh for the behaviours that follow the tables.
TablesEventuallyFresh == follows = "tables" => EventuallyFresh
=============================================================================
