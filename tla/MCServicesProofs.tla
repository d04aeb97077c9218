-------------------------- MODULE MCServicesProofs ---------------------------
(***************************************************************************)
(* The components side by side: a behaviour of them is one of each, so     *)
(* what is proved of a component holds of the composition that is checked. *)
(***************************************************************************)
EXTENDS MCServices, StoresProofs, ServicesProofs, AgentGraphProofs

LEMMA EachBegins ==
  Init => /\ StoresInit /\ KbInit /\ StreamInit /\ NtInit
          /\ RlInit /\ StInit /\ AgInit
<1> SUFFICES ASSUME Init
             PROVE  /\ StoresInit /\ KbInit /\ StreamInit /\ NtInit
                    /\ RlInit /\ StInit /\ AgInit
  OBVIOUS
<1>1. StartupAtRest => StInit
  <2>1. NothingSet =
          [APP_ENV |-> Unset, JWT_SECRET |-> Unset,
           INTERNAL_API_TOKEN |-> Unset, DATABASE_URL |-> Unset,
           AGENT_API_URL |-> Unset, DATABASE_MAX_CONNECTIONS |-> Unset,
           SCHEDULER_TICK_SECONDS |-> Unset, RATE_LIMIT_REDIS_URL |-> Unset,
           SMTP_HOST |-> Unset, SMTP_FROM |-> Unset]
    BY DEF NothingSet, Variables
  <2>2. NothingSet \in Environments
    BY <2>1 DEF Environments, SecretValues, Urls, Numbers
  <2>3. QED
    BY <2>2 DEF StartupAtRest, StInit
<1>2. StoresInit
  BY DEF Init, StoresAtRest
<1>3. RlInit
  BY DEF Init, LimiterAtRest
<1>4. StInit
  BY <1>1 DEF Init
<1>5. AgInit
  BY DEF Init, AgentAtRest
<1>6. QED
  BY <1>2, <1>3, <1>4, <1>5 DEF Init

LEMMA EachSteps ==
  [Next]_allVars
    => /\ [StoresNext]_storeVars /\ [KbNext]_kbVars
       /\ [StreamNext]_streamVars /\ [NtNext]_ntVars
       /\ [RlNext]_rlVars /\ [StNext]_stVars /\ [AgNext]_agVars
<1> SUFFICES ASSUME [Next]_allVars
             PROVE  /\ [StoresNext]_storeVars /\ [KbNext]_kbVars
                    /\ [StreamNext]_streamVars /\ [NtNext]_ntVars
                    /\ [RlNext]_rlVars /\ [StNext]_stVars /\ [AgNext]_agVars
  OBVIOUS
<1>1. CASE StoresStep
  BY <1>1 DEF StoresStep
<1>2. CASE KnowledgeStep
  BY <1>2 DEF KnowledgeStep
<1>3. CASE StreamStep
  BY <1>3 DEF StreamStep
<1>4. CASE NotificationsStep
  BY <1>4 DEF NotificationsStep
<1>5. CASE LimiterStep
  BY <1>5 DEF LimiterStep
<1>6. CASE StartupStep
  BY <1>6 DEF StartupStep
<1>7. CASE AgentStep
  BY <1>7 DEF AgentStep
<1>8. CASE UNCHANGED allVars
  BY <1>8 DEF allVars
<1>9. QED
  BY <1>1, <1>2, <1>3, <1>4, <1>5, <1>6, <1>7, <1>8 DEF Next

LEMMA EachRuns ==
  Spec => /\ StoresSpec /\ KbSpec /\ StreamSpec /\ NtSpec
          /\ RlSpec /\ StSpec /\ AgSpec
BY EachBegins, EachSteps, PTL
   DEF Spec, StoresSpec, KbSpec, StreamSpec, NtSpec, RlSpec, StSpec, AgSpec

(* Whatever the instance, every component's variables hold what its code   *)
(* can put there.                                                          *)
THEOREM ServicesTyped == Spec => []ServicesTypeOK
BY EachRuns, StoresTyped, KnowledgeTyped, StreamTyped, NotificationsTyped,
   LimiterTyped, StartTyped, AgentTyped, PTL DEF ServicesTypeOK

(* What each component promises holds of the composition that is checked,  *)
(* for every value of its constants: stores that agree but for strays (see *)
(* MemoryIsPostgres), documents, the panel, notifications, limiter,        *)
(* startup and the agent's searches.                                       *)
THEOREM ServicesKeepTheirPromises ==
  Spec => /\ [](/\ MemoryIsPostgres /\ RepliesAgree /\ QueriesAgree
                /\ DeletionConverges
                /\ RetrievedIsReady /\ PendingIsWorkedOn
                /\ QuietPanelIsRight /\ CompletedIsShownWhole
                /\ LiveChannelsTold /\ AcceptedIsAddressable
                /\ RefusedOnlyWhenOver /\ AtMostTwice
                /\ ListeningIsWhole /\ SearchBudget)
          /\ GraphIsTheLoop
BY EachRuns, MemoryStandsIn, AnswersAgree, QuestionsAgree, ErasedEverywhere,
   GroundedInReady, PendingHasAWay, QuietIsRight, ShownWhole,
   EveryLiveChannelTold, AcceptedCanBeAddressed, RefusedAsked, TwiceAtMost,
   NoDegradedProduction, SearchesStayInBudget, GraphRunsTheLoop, PTL
=============================================================================
