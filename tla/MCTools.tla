------------------------------ MODULE MCTools ------------------------------
(***************************************************************************)
(* The calls of the tools, the four stores they keep, and the relay that   *)
(* hands them presses, side by side: every behaviour is one of a single    *)
(* part, the others stay as they began.                                    *)
(***************************************************************************)
EXTENDS UserMethods, BotMethods, ToolActions, ToolCalls, Peers, Aliases, ResumeMap, Folders,
        Relay, TLC

CONSTANTS i1, i2

VARIABLE part

vars == <<part, callVars, peerVars, aliasVars, resumeVars, folderVars, relayVars>>

Strings  == STRING
AllPlans == [user |-> ToolPlans(UserMethods, <<>>),
             bot  |-> ToolPlans(BotMethods, OnlyUser)]
Actions  == DOMAIN ToolPlans(BotMethods, OnlyUser)
HalfWay  == {<< <<"message", "send">>, "resume">>, << <<"chat", "settings">>, "both">>,
             << <<"chat", "invite">>, "groups">>, << <<"chat", "invite_link">>, "revoke">>,
             << <<"chat", "invite_link">>, "show">>, << <<"media", "download">>, "over">>}

(* One chat is listed in a folder, one in the archive only.                *)
Places == (1 :> 1) @@ (3 :> 4)

Same == Permutations({i1, i2})

ToolsInit == /\ part \in {"calls", "peers", "aliases", "resume", "folders", "relay"}
             /\ CallsInit /\ PeersInit /\ AliasInit /\ ResumeInit /\ FoldersInit
             /\ RelayInit

ToolsNext ==
  /\ UNCHANGED part
  /\ \/ /\ part = "calls" /\ CallsNext
        /\ UNCHANGED <<peerVars, aliasVars, resumeVars, folderVars, relayVars>>
     \/ /\ part = "peers" /\ PeersNext
        /\ UNCHANGED <<callVars, aliasVars, resumeVars, folderVars, relayVars>>
     \/ /\ part = "aliases" /\ AliasNext
        /\ UNCHANGED <<callVars, peerVars, resumeVars, folderVars, relayVars>>
     \/ /\ part = "resume" /\ ResumeNext
        /\ UNCHANGED <<callVars, peerVars, aliasVars, folderVars, relayVars>>
     \/ /\ part = "folders" /\ FoldersNext
        /\ UNCHANGED <<callVars, peerVars, aliasVars, resumeVars, relayVars>>
     \/ /\ part = "relay" /\ RelayNext
        /\ UNCHANGED <<callVars, peerVars, aliasVars, resumeVars, folderVars>>

ToolsSpec == ToolsInit /\ [][ToolsNext]_vars

(* The variables of the six modules hold values of the kinds their        *)
(* comments give (ToolCalls, Peers, Aliases, ResumeMap, Folders, Relay),   *)
(* and the plans of the two backends keep the orders, and offer the modes, *)
(* that ToolCallsProofs rests on.                                          *)
ToolsType == /\ CallsType /\ PeersType /\ AliasType /\ ResumeType /\ FoldersType
             /\ RelayType
             /\ part = "calls" /\ at = 0 =>
                  ChangeLast /\ NothingOver /\ MistakesFirst /\ ServedSomewhere /\ NamedFirst
=============================================================================
