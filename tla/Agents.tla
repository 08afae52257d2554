------------------------------- MODULE Agents -------------------------------
(***************************************************************************)
(* The secondary agents: their rows, the antennas the push holds for them  *)
(* in memory and the chats routed to them, under the dashboard and the     *)
(* agents' own tools.  Every request is a sequence of statements, and      *)
(* those of two requests interleave.                                       *)
(***************************************************************************)
EXTENDS Naturals, Sequences

CONSTANTS
    Secondaries,  \* agent ids
    AgentChats,   \* chats
    Credentials,  \* endpoint, antenna and pinpass of an agent, as one
    Handlers,     \* requests served at once
    MaxMishaps,   \* statements that fail and restarts
    Nobody        \* no row, no injector, no agent

ASSUME AgentsAssumption ==
    Nobody \notin Secondaries \cup Credentials /\ MaxMishaps \in Nat

VARIABLES
    agents,     \* the agents table
    injectors,  \* Pusher.injectors, the secondaries'
    routed,     \* chats.status: agent_exclusive, or Nobody
    handler,    \* Handlers -> request: statements left, agent, chat, credentials
    mishaps,    \* failures and restarts so far
    crossed     \* history: agents two requests were about at once, and chats
                \* set_chat_status routed

agentVars == <<agents, injectors, routed, handler, mishaps, crossed>>

\* Mutant: the row goes before the chats are taken off the agent.
RowFirst == <<"exists", "delete", "unassign", "unregister">>

\* The statements of the deletion of an agent.
DeleteSteps == <<"exists", "unassign", "delete", "unregister">>

\* The dashboard creates an agent; an agent registers itself.
CreateSteps == <<"absent", "upsert", "register">>
RegisterSteps == <<"upsert", "register">>

\* The dashboard edits an agent, or the agent its antenna (set_agent_capi).
UpdateSteps == <<"exists", "upsert", "register">>

\* A chat is given to an agent; set_chat_status takes any agent id.
AssignSteps == <<"exists", "assign">>
ClaimSteps == <<"assign">>

AgentRequests == [create |-> CreateSteps, register |-> RegisterSteps, update |-> UpdateSteps,
                  assign |-> AssignSteps, claim |-> ClaimSteps, delete |-> DeleteSteps]

NoCall == [todo |-> <<>>, agent |-> Nobody, chat |-> Nobody, new |-> Nobody]

AgentsInit ==
    /\ agents = [a \in Secondaries |-> Nobody]
    /\ injectors = [a \in Secondaries |-> Nobody]
    /\ routed = [c \in AgentChats |-> Nobody]
    /\ handler = [h \in Handlers |-> NoCall]
    /\ mishaps = 0 /\ crossed = {}
-----------------------------------------------------------------------------
Call(h) ==
    /\ handler[h] = NoCall
    /\ \E request \in DOMAIN AgentRequests, a \in Secondaries, c \in AgentChats, new \in Credentials :
          /\ handler' = [handler EXCEPT ![h] =
                [todo |-> AgentRequests[request], agent |-> a, chat |-> c, new |-> new]]
          /\ crossed' = crossed
                \cup (IF \E k \in Handlers : handler[k].agent = a THEN {a} ELSE {})
                \cup (IF request = "claim" THEN {c} ELSE {})
    /\ UNCHANGED <<agents, injectors, routed, mishaps>>

\* The next statement of a request; a check that fails refuses it.  An update
\* may leave the credentials as it read them.
Proceed(h) ==
    /\ handler[h].todo # <<>>
    /\ LET r == handler[h]
           a == r.agent
           step == Head(r.todo)
           refused == \/ step = "absent" /\ agents[a] # Nobody
                      \/ step = "exists" /\ agents[a] = Nobody
           done == refused \/ Len(r.todo) = 1
       IN  /\ agents' = CASE step = "upsert" -> [agents EXCEPT ![a] = r.new]
                          [] step = "delete" -> [agents EXCEPT ![a] = Nobody]
                          [] OTHER -> agents
           /\ injectors' = CASE step = "register" -> [injectors EXCEPT ![a] = r.new]
                             [] step = "unregister" -> [injectors EXCEPT ![a] = Nobody]
                             [] OTHER -> injectors
           /\ routed' = CASE step = "assign" -> [routed EXCEPT ![r.chat] = a]
                          [] step = "unassign" ->
                                [c \in AgentChats |-> IF routed[c] = a THEN Nobody ELSE routed[c]]
                          [] OTHER -> routed
           /\ \E new \in {r.new} \cup (IF step = "exists" THEN {agents[a]} ELSE {}) :
                 handler' = [handler EXCEPT ![h] =
                     IF done THEN NoCall ELSE [r EXCEPT !.todo = Tail(@), !.new = new]]
    /\ UNCHANGED <<mishaps, crossed>>

\* SetStatus "new", from either side.
Unassign(c) ==
    /\ routed[c] # Nobody
    /\ routed' = [routed EXCEPT ![c] = Nobody]
    /\ UNCHANGED <<agents, injectors, handler, mishaps, crossed>>

\* A statement of the database fails; the rest of the request is not run.
\* RegisterInjector and UnregisterInjector cannot fail.
StatementFails(h) ==
    /\ mishaps < MaxMishaps /\ mishaps' = mishaps + 1
    /\ handler[h].todo # <<>> /\ Head(handler[h].todo) \notin {"register", "unregister"}
    /\ handler' = [handler EXCEPT ![h] = NoCall]
    /\ UNCHANGED <<agents, injectors, routed, crossed>>

\* The process ends and starts again: every row gets its injector.
AgentsRestart ==
    /\ mishaps < MaxMishaps /\ mishaps' = mishaps + 1
    /\ injectors' = agents
    /\ handler' = [h \in Handlers |-> NoCall]
    /\ UNCHANGED <<agents, routed, crossed>>

AgentsNext ==
    \/ \E h \in Handlers : Call(h) \/ Proceed(h) \/ StatementFails(h)
    \/ \E c \in AgentChats : Unassign(c)
    \/ AgentsRestart

AgentsSpec == AgentsInit /\ [][AgentsNext]_agentVars
-----------------------------------------------------------------------------
AgentsTypeOK ==
    /\ agents \in [Secondaries -> Credentials \cup {Nobody}]
    /\ injectors \in [Secondaries -> Credentials \cup {Nobody}]
    /\ routed \in [AgentChats -> Secondaries \cup {Nobody}]
    /\ \A h \in Handlers :
          /\ handler[h] = NoCall \/ \E r \in DOMAIN AgentRequests, n \in 1 .. 4 :
                n <= Len(AgentRequests[r]) /\ handler[h].todo = SubSeq(AgentRequests[r], n, Len(AgentRequests[r]))
          /\ handler[h].agent \in Secondaries \cup {Nobody}
          /\ handler[h].new \in Credentials \cup {Nobody}
    /\ mishaps \in 0 .. MaxMishaps /\ crossed \subseteq Secondaries \cup AgentChats

\* No chat is left to an agent that does not exist, wherever a failure or the
\* end of the process cuts a deletion short (handleDeleteAgent: "ningún chat
\* queda apuntando a un agente que ya no existe"), unless two requests about
\* that agent ran at once or set_chat_status, which checks nothing, routed it.
NoChatDangles ==
    \A c \in AgentChats \ crossed :
        LET a == routed[c] IN a # Nobody /\ a \notin crossed => agents[a] # Nobody

\* With no request about an agent under way, the antenna the push would use is
\* the one of its row, and none for a deleted agent (Pusher.UnregisterInjector:
\* "un borrado que deja las credenciales vivas es un borrado que miente"),
\* with the same exception.
AntennaMatchesRow ==
    \A a \in Secondaries :
        (a \notin crossed /\ \A h \in Handlers : handler[h].agent # a)
            => injectors[a] = agents[a]

\* Registry, routing and antennas agree about which agents exist.
AgentsAgree == NoChatDangles /\ AntennaMatchesRow
=============================================================================
