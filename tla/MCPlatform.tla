----------------------------- MODULE MCPlatform -----------------------------
(***************************************************************************)
(* The platform around the engine, for TLC.  A game with human seats, the  *)
(* lobbies, the sign-in, the campaigns, the calls to the language models   *)
(* and the ceilings on requests share no state that the modules model, so  *)
(* each is explored in a scene of its own, with the others at rest.        *)
(***************************************************************************)
EXTENDS HumanLane, Lobbies, SignIn, Campaigns, AgentCalls, RateLimits, TLC

VARIABLE scene

PlainRoute == <<"primary">>

MCRoutes == {PlainRoute, <<"primary", "same", "other">>}

Kinds == [key |-> 1, ip |-> 1, session |-> 2, user |-> 2, phase |-> 1]

MCCeilings == {Kinds, [Kinds EXCEPT !.session = 0]}

MCBootTimes == {0, -2}

others == <<lobbyVars, signInVars, campaignVars, callVars, limitVars>>

platformVars == <<scene, humanVars, others>>

AtRest == HumanInit /\ LobbyInit /\ SignInInit /\ CampaignInit /\ CallsInit /\ LimitsInit

\* Three deployments of the API: each of two processes for itself, both on one database, and
\* both on one database but on hosts that were booted at different times.  Sessions have a
\* ceiling in the second one.
Deployments ==
    /\ backend = "memory" => OneHost
    /\ OneHost => \A w \in ApiWorkers : booted[w] = 0
    /\ ceiling = Kinds <=> backend = "database" /\ OneHost

Shared == backend = "database" /\ OneHost

\* Only in the scene of the calls does it matter how they are routed, and only in that of the
\* ceilings how the API is deployed.
PlatformInit ==
    /\ scene \in {"game", "lobbies", "sign-in", "campaigns", "calls", "ceilings"}
    /\ AtRest
    /\ scene # "calls" => route = PlainRoute
    /\ Deployments /\ (scene # "ceilings" => Shared)

PlatformNext ==
    /\ UNCHANGED scene
    /\ \/ scene = "game" /\ HumanNext /\ UNCHANGED others
       \/ /\ UNCHANGED humanVars
          /\ \/ /\ scene = "lobbies" /\ LobbyNext
                /\ UNCHANGED <<signInVars, campaignVars, callVars, limitVars>>
             \/ /\ scene = "sign-in" /\ SignInNext
                /\ UNCHANGED <<lobbyVars, campaignVars, callVars, limitVars>>
             \/ /\ scene = "campaigns" /\ CampaignNext
                /\ UNCHANGED <<lobbyVars, signInVars, callVars, limitVars>>
             \/ /\ scene = "calls" /\ CallsNext
                /\ UNCHANGED <<lobbyVars, signInVars, campaignVars, limitVars>>
             \/ /\ scene = "ceilings" /\ LimitsNext
                /\ UNCHANGED <<lobbyVars, signInVars, campaignVars, callVars>>

PlatformSpec == PlatformInit /\ [][PlatformNext]_platformVars

HumanSpec == scene = "game" /\ PlatformInit /\ [][PlatformNext]_platformVars

CeilingsSpec == scene = "ceilings" /\ PlatformInit /\ Shared /\ [][PlatformNext]_platformVars

\* Every table and every process of the platform is what its module says.  What is at rest is
\* as it was in the first state of its own scene.
PlatformTypeOK ==
    CASE scene = "game"      -> HumanTypeOK
      [] scene = "lobbies"   -> LobbyTypeOK
      [] scene = "sign-in"   -> SignInTypeOK
      [] scene = "campaigns" -> CampaignTypeOK
      [] scene = "calls"     -> CallsTypeOK
      [] scene = "ceilings"  -> LimitsTypeOK

OneCampaign == [x \in Cells |-> 1]

\* Humans, browsers and drivers go by the same two names.
Interchangeable == Permutations(Principals)
=============================================================================
