-------------------------------- MODULE MCServices --------------------------------
(* Instances of components that share no state with one another, for TLC: a        *)
(* behaviour is one of one component, "part", while the others rest.                *)
EXTENDS MCRecompute, Accounts, AccessCache, Onboarding, ScheduledReports, Webhooks, Realtime

CONSTANTS watched

VARIABLE part

MCEvents == {[type |-> "data_point_added", kpi |-> watched, dashboard |-> None],
             [type |-> "alert_triggered", kpi |-> watched, dashboard |-> None],
             [type |-> "alert_digest", kpi |-> None, dashboard |-> None]}

Parts == {"engine", "accounts", "accessCache", "onboarding", "reports", "webhooks", "realtime"}
restVars == <<accessVars, onboardingVars, reportVars, webhookVars, realtimeVars>>

\* A component with several initial states rests in one.
ServicesInit ==
    /\ part \in Parts
    /\ EngineInit /\ (part # "engine" => feeds = CHOOSE g \in Graphs : TRUE)
    /\ AccountsInit /\ (part # "accounts" => invite = "used")
    /\ AccessInit /\ OnboardingInit /\ ReportsInit /\ WebhooksInit /\ RealtimeInit

ServicesNext ==
    /\ UNCHANGED part
    /\ \/ part = "engine" /\ EngineNext /\ UNCHANGED <<accountVars, restVars>>
       \/ part = "accounts" /\ AccountsNext /\ UNCHANGED <<engineVars, restVars>>
       \/ /\ part = "accessCache" /\ AccessNext
          /\ UNCHANGED <<engineVars, accountVars, onboardingVars, reportVars, webhookVars, realtimeVars>>
       \/ /\ part = "onboarding" /\ OnboardingNext
          /\ UNCHANGED <<engineVars, accountVars, accessVars, reportVars, webhookVars, realtimeVars>>
       \/ /\ part = "reports" /\ ReportsNext
          /\ UNCHANGED <<engineVars, accountVars, accessVars, onboardingVars, webhookVars, realtimeVars>>
       \/ /\ part = "webhooks" /\ WebhooksNext
          /\ UNCHANGED <<engineVars, accountVars, accessVars, onboardingVars, reportVars, realtimeVars>>
       \/ /\ part = "realtime" /\ RealtimeNext
          /\ UNCHANGED <<engineVars, accountVars, accessVars, onboardingVars, reportVars, webhookVars>>

\* The calculation engine is fair, as in EngineFairSpec.
ServicesSpec ==
    /\ ServicesInit
    /\ [][ServicesNext]_<<part, engineVars, accountVars, restVars>>
    /\ EngineFairness

\* Every variable of the component at work holds a value of its type.
ServicesTypeOK ==
    /\ part = "engine" => EngineTypeOK
    /\ part = "accounts" => AccountsTypeOK
    /\ part = "accessCache" => AccessTypeOK
    /\ part = "onboarding" => OnboardingTypeOK
    /\ part = "reports" => ReportsTypeOK
    /\ part = "webhooks" => WebhooksTypeOK
    /\ part = "realtime" => RealtimeTypeOK
===================================================================================
