------------------------------- MODULE MCHierarchies -------------------------------
(* Instances of the three hierarchies for TLC: KPIs, org units and objectives.      *)
(* They share no state: a behaviour is one of one component, "part", while the      *)
(* others rest.                                                                      *)
EXTENDS KpiGraph, OrgTree, Okrs, TLC

CONSTANTS r1, r2

VARIABLE part

\* A key result without a baseline, and one that falls and counts once.
MCMeasures == (r1 :> [baseline |-> None, target |-> 1, weight |-> 2])
              @@ (r2 :> [baseline |-> 2, target |-> 0, weight |-> 0])

\* An update of the value, and one of everything else.
MCUpdates == {[baseline |-> None, target |-> None, weight |-> None, current |-> 1],
              [baseline |-> 0, target |-> 2, weight |-> 1, current |-> None]}

\* KPIs, units and objectives are the same model values, and so are the requests.
HierarchySymmetry == Permutations(KPIs) \cup Permutations(Callers)

\* A component with many initial states rests in one: no organization yet, no
\* objectives.
NoOrg ==
    /\ unit = [u \in Units |-> "none"] /\ parent = [u \in Units |-> NoUnit]
    /\ member = [u \in Units |-> [p \in People |-> "none"]]
    /\ edit = [e \in Editors |-> NoEdit]
    /\ edits = 0 /\ crossed = FALSE /\ belongs = {} /\ caught = {}
NoOkrs ==
    /\ objective = [o \in Objectives |-> [row |-> "none", parent |-> None, progress |-> Zero]]
    /\ keyResult = [k \in KeyResults |-> [row |-> "none", objective |-> None,
                                          values |-> CreatedWith(k, None), progress |-> Zero]]
    /\ rollup = [p \in Planners |-> NoRollup]
    /\ changes = 0 /\ stale = {}

HierarchiesInit ==
    /\ part \in {"kpiGraph", "orgTree", "okrs"}
    /\ GraphInit
    /\ IF part = "orgTree" THEN OrgInit ELSE NoOrg
    /\ IF part = "okrs" THEN OkrInit ELSE NoOkrs

HierarchiesNext ==
    /\ UNCHANGED part
    /\ \/ part = "kpiGraph" /\ GraphNext /\ UNCHANGED <<orgVars, okrVars>>
       \/ part = "orgTree" /\ OrgNext /\ UNCHANGED <<graphVars, okrVars>>
       \/ part = "okrs" /\ OkrNext /\ UNCHANGED <<graphVars, orgVars>>

HierarchiesSpec == HierarchiesInit /\ [][HierarchiesNext]_<<part, graphVars, orgVars, okrVars>>

\* Every variable of the component at work holds a value of its type.
HierarchiesTypeOK ==
    /\ part = "kpiGraph" => GraphTypeOK
    /\ part = "orgTree" => OrgTypeOK
    /\ part = "okrs" => OkrTypeOK
=====================================================================================
