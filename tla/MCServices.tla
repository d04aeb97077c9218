------------------------------ MODULE MCServices ------------------------------
(***************************************************************************)
(* The components of the server that share no state with each other,       *)
(* checked side by side: a behaviour is one of the component in `service', *)
(* and the others keep an initial state.                                   *)
(***************************************************************************)
EXTENDS StoreAgreement, KnowledgeBase, JobStream, Notifications, RateLimiter,
        Startup, AgentGraph

VARIABLE service

allVars ==
  <<service, storeVars, kbVars, streamVars, ntVars, rlVars, stVars, agVars>>

Services ==
  {"stores", "knowledge", "stream", "notifications", "limiter", "startup",
   "agent"}

StoresAtRest == StoresInit /\ area = "people"
LimiterAtRest == RlInit /\ backend = "memory"
StartupAtRest ==
  /\ env = NothingSet
  /\ server = "starting" /\ config = NoConfig /\ adapters = NoAdapters

AgentAtRest == AgInit /\ ~recurring

Init ==
  /\ service \in Services
  /\ KbInit /\ StreamInit /\ NtInit
  /\ IF service = "stores" THEN StoresInit ELSE StoresAtRest
  /\ IF service = "limiter" THEN RlInit ELSE LimiterAtRest
  /\ IF service = "startup" THEN StInit ELSE StartupAtRest
  /\ IF service = "agent" THEN AgInit ELSE AgentAtRest

StoresStep ==
  /\ service = "stores" /\ StoresNext
  /\ UNCHANGED
       <<service, kbVars, streamVars, ntVars, rlVars, stVars, agVars>>

KnowledgeStep ==
  /\ service = "knowledge" /\ KbNext
  /\ UNCHANGED
       <<service, storeVars, streamVars, ntVars, rlVars, stVars, agVars>>

StreamStep ==
  /\ service = "stream" /\ StreamNext
  /\ UNCHANGED
       <<service, storeVars, kbVars, ntVars, rlVars, stVars, agVars>>

NotificationsStep ==
  /\ service = "notifications" /\ NtNext
  /\ UNCHANGED
       <<service, storeVars, kbVars, streamVars, rlVars, stVars, agVars>>

LimiterStep ==
  /\ service = "limiter" /\ RlNext
  /\ UNCHANGED
       <<service, storeVars, kbVars, streamVars, ntVars, stVars, agVars>>

StartupStep ==
  /\ service = "startup" /\ StNext
  /\ UNCHANGED
       <<service, storeVars, kbVars, streamVars, ntVars, rlVars, agVars>>

AgentStep ==
  /\ service = "agent" /\ AgNext
  /\ UNCHANGED
       <<service, storeVars, kbVars, streamVars, ntVars, rlVars, stVars>>

Next ==
  \/ StoresStep \/ KnowledgeStep \/ StreamStep
  \/ NotificationsStep \/ LimiterStep \/ StartupStep \/ AgentStep

Spec == Init /\ [][Next]_allVars
-----------------------------------------------------------------------------
(* Every component's variables hold what its code can put there.           *)
ServicesTypeOK ==
  /\ StoresTypeOK /\ KbTypeOK /\ StreamTypeOK /\ NtTypeOK
  /\ RlTypeOK /\ StTypeOK /\ AgTypeOK

CONSTANT v1   (* the owner of the documents                                *)

(* Two links to one page, and another page.                                *)
Pages == "page" :> "page" @@ "page?utm" :> "page" @@ "other" :> "other"

SomeResponses == {<<>>, <<"page", "page?utm">>, <<"other">>, <<"page?utm">>}

SomeMemories == {{}, {"page?utm"}}

OneOwner == [d \in Docs |-> v1]
=============================================================================
