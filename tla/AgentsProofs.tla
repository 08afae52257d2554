---------------------------- MODULE AgentsProofs ----------------------------
(***************************************************************************)
(* Theorems about the agents: their registry and routing, what they are    *)
(* shown of one another, the antenna that reaches them, and the limits of  *)
(* their calls.                                                            *)
(***************************************************************************)
EXTENDS Agents, Presence, Antenna, FloodGuard, FiniteSetTheorems,
        SequenceTheorems, TLAPS

-----------------------------------------------------------------------------
(* Agents, routing and antennas (Agents). *)

\* What a request may have left to do.
Todos ==
    {<<"absent", "upsert", "register">>, <<"upsert", "register">>, <<"register">>,
     <<"exists", "upsert", "register">>, <<"exists", "assign">>, <<"assign">>,
     <<"exists", "unassign", "delete", "unregister">>, <<"unassign", "delete", "unregister">>,
     <<"delete", "unregister">>, <<"unregister">>}

Request == [todo : Todos, agent : Secondaries, chat : AgentChats, new : Credentials]

HandlersOK == \A h \in Handlers : handler[h] = NoCall \/ handler[h] \in Request

\* Two requests are about one agent only if that agent is crossed.
OneRequestEach ==
    \A h, k \in Handlers :
        /\ handler[h].agent = handler[k].agent
        /\ handler[h].agent \in Secondaries \ crossed
        => h = k

\* What holds of an agent between two statements of the only request about it.
UnderWay(r) ==
    /\ Head(r.todo) \notin {"register", "unregister"} => injectors[r.agent] = agents[r.agent]
    /\ Head(r.todo) = "register" => agents[r.agent] = r.new
    /\ Head(r.todo) = "unregister" => agents[r.agent] = Nobody
    /\ Head(r.todo) = "assign" /\ r.chat \notin crossed => agents[r.agent] # Nobody
    /\ Head(r.todo) = "delete" => \A c \in AgentChats \ crossed : routed[c] # r.agent

RequestsOK ==
    \A h \in Handlers : handler[h] # NoCall /\ handler[h].agent \notin crossed => UnderWay(handler[h])

AgentTypes ==
    /\ agents \in [Secondaries -> Credentials \cup {Nobody}]
    /\ injectors \in [Secondaries -> Credentials \cup {Nobody}]
    /\ routed \in [AgentChats -> Secondaries \cup {Nobody}]
    /\ handler \in [Handlers -> Request \cup {NoCall}]
    /\ mishaps \in 0 .. MaxMishaps /\ crossed \subseteq Secondaries \cup AgentChats

AgentsInv == AgentTypes /\ OneRequestEach /\ RequestsOK /\ AgentsAgree
-----------------------------------------------------------------------------
\* The statements of a request follow one another as in the code.
Steps == {"absent", "exists", "upsert", "register", "assign", "unassign", "delete", "unregister"}

LEMMA TodoFacts ==
    ASSUME NEW T \in Todos
    PROVE  /\ T # <<>> /\ Head(T) \in Steps
           /\ Len(T) = 1 <=> Head(T) \in {"register", "assign", "unregister"}
           /\ Len(T) # 1 =>
                 /\ Tail(T) \in Todos
                 /\ Head(T) = "absent" => Head(Tail(T)) = "upsert"
                 /\ Head(T) = "exists" => Head(Tail(T)) \in {"upsert", "assign", "unassign"}
                 /\ Head(T) = "upsert" => Head(Tail(T)) = "register"
                 /\ Head(T) = "unassign" => Head(Tail(T)) = "delete"
                 /\ Head(T) = "delete" => Head(Tail(T)) = "unregister"
<1> USE DEF Todos, Steps
<1>1. CASE T = <<"absent", "upsert", "register">>
  <2>1. Len(T) = 3 /\ Head(T) = "absent" /\ Tail(T) = <<"upsert", "register">>
    BY <1>1
  <2> QED BY <2>1
<1>2. CASE T = <<"upsert", "register">>
  <2>1. Len(T) = 2 /\ Head(T) = "upsert" /\ Tail(T) = <<"register">>
    BY <1>2
  <2> QED BY <2>1
<1>3. CASE T \in {<<"register">>, <<"assign">>, <<"unregister">>}
  <2>1. Len(T) = 1 /\ Head(T) \in {"register", "assign", "unregister"} /\ T # <<>>
    BY <1>3
  <2> QED BY <2>1
<1>4. CASE T = <<"exists", "upsert", "register">>
  <2>1. Len(T) = 3 /\ Head(T) = "exists" /\ Tail(T) = <<"upsert", "register">>
    BY <1>4
  <2> QED BY <2>1
<1>5. CASE T = <<"exists", "assign">>
  <2>1. Len(T) = 2 /\ Head(T) = "exists" /\ Tail(T) = <<"assign">>
    BY <1>5
  <2> QED BY <2>1
<1>6. CASE T = <<"exists", "unassign", "delete", "unregister">>
  <2>1. Len(T) = 4 /\ Head(T) = "exists" /\ Tail(T) = <<"unassign", "delete", "unregister">>
    BY <1>6
  <2> QED BY <2>1
<1>7. CASE T = <<"unassign", "delete", "unregister">>
  <2>1. Len(T) = 3 /\ Head(T) = "unassign" /\ Tail(T) = <<"delete", "unregister">>
    BY <1>7
  <2> QED BY <2>1
<1>8. CASE T = <<"delete", "unregister">>
  <2>1. Len(T) = 2 /\ Head(T) = "delete" /\ Tail(T) = <<"unregister">>
    BY <1>8
  <2> QED BY <2>1
<1> QED BY <1>1, <1>2, <1>3, <1>4, <1>5, <1>6, <1>7, <1>8

\* Every request begins with all of its statements.
LEMMA RequestTodos ==
    ASSUME NEW q \in DOMAIN AgentRequests
    PROVE  /\ AgentRequests[q] \in Todos
           /\ Head(AgentRequests[q]) \notin {"register", "unregister", "delete"}
           /\ Head(AgentRequests[q]) = "assign" => q = "claim"
<1> USE DEF AgentRequests, CreateSteps, RegisterSteps, UpdateSteps, AssignSteps, ClaimSteps, DeleteSteps
<1>1. q \in {"create", "register", "update", "assign", "claim", "delete"}
  OBVIOUS
<1>2. CASE q = "create"
  BY <1>2 DEF Todos
<1>3. CASE q = "register"
  BY <1>3 DEF Todos
<1>4. CASE q = "update"
  BY <1>4 DEF Todos
<1>5. CASE q = "assign"
  BY <1>5 DEF Todos
<1>6. CASE q = "claim"
  BY <1>6 DEF Todos
<1>7. CASE q = "delete"
  BY <1>7 DEF Todos
<1> QED BY <1>1, <1>2, <1>3, <1>4, <1>5, <1>6, <1>7

\* A sequence that is the end of another, place by place.
LEMMA RestIs ==
    ASSUME NEW S \in Seq(Steps), NEW T \in Seq(Steps), NEW k \in 1 .. Len(S),
           Len(T) = Len(S) - k + 1, \A i \in 1 .. Len(T) : T[i] = S[k + i - 1]
    PROVE  T = SubSeq(S, k, Len(S))
<1>1. Len(S) \in Nat /\ Len(T) \in Nat /\ k \in Nat
  OBVIOUS
<1>2. /\ SubSeq(S, k, Len(S)) \in Seq(Steps)
      /\ Len(SubSeq(S, k, Len(S))) = Len(S) - k + 1
      /\ \A i \in 1 .. Len(S) - k + 1 : SubSeq(S, k, Len(S))[i] = S[k + i - 1]
  BY <1>1, SubSeqProperties
<1>3. \A i \in 1 .. Len(T) : T[i] = SubSeq(S, k, Len(S))[i]
  BY <1>2
<1> QED BY <1>2, <1>3, SeqEqual

\* What is left to do is the rest of a request.
LEMMA TodoIsRest ==
    ASSUME NEW T \in Todos
    PROVE  \E q \in DOMAIN AgentRequests, n \in 1 .. 4 :
               n <= Len(AgentRequests[q]) /\ T = SubSeq(AgentRequests[q], n, Len(AgentRequests[q]))
<1>a. /\ {"create", "update", "assign", "delete"} \subseteq DOMAIN AgentRequests
      /\ AgentRequests["create"] = CreateSteps /\ AgentRequests["update"] = UpdateSteps
      /\ AgentRequests["assign"] = AssignSteps /\ AgentRequests["delete"] = DeleteSteps
  BY DEF AgentRequests
<1>b. ASSUME NEW q \in DOMAIN AgentRequests, NEW S, AgentRequests[q] = S, NEW n \in 1 .. 4,
             n <= Len(S), T = SubSeq(S, n, Len(S))
      PROVE  \E p \in DOMAIN AgentRequests, m \in 1 .. 4 :
                 m <= Len(AgentRequests[p]) /\ T = SubSeq(AgentRequests[p], m, Len(AgentRequests[p]))
  BY <1>b
<1>1. CASE T = <<"absent", "upsert", "register">>
  <2>1. CreateSteps \in Seq(Steps) /\ T \in Seq(Steps) /\ Len(CreateSteps) = 3 /\ Len(T) = 3
    BY <1>1 DEF Steps, CreateSteps
  <2>2. \A i \in 1 .. 3 : T[i] = CreateSteps[1 + i - 1]
    BY <1>1 DEF CreateSteps
  <2>3. T = SubSeq(CreateSteps, 1, Len(CreateSteps))
    BY <2>1, <2>2, RestIs
  <2>4. "create" \in DOMAIN AgentRequests /\ AgentRequests["create"] = CreateSteps
        /\ 1 \in 1 .. 4 /\ 1 <= Len(CreateSteps)
    BY <2>1, <1>a
  <2> QED BY <2>3, <2>4, <1>b
<1>2. CASE T = <<"upsert", "register">>
  <2>1. CreateSteps \in Seq(Steps) /\ T \in Seq(Steps) /\ Len(CreateSteps) = 3 /\ Len(T) = 2
    BY <1>2 DEF Steps, CreateSteps
  <2>2. \A i \in 1 .. 2 : T[i] = CreateSteps[2 + i - 1]
    BY <1>2 DEF CreateSteps
  <2>3. T = SubSeq(CreateSteps, 2, Len(CreateSteps))
    BY <2>1, <2>2, RestIs
  <2>4. "create" \in DOMAIN AgentRequests /\ AgentRequests["create"] = CreateSteps
        /\ 2 \in 1 .. 4 /\ 2 <= Len(CreateSteps)
    BY <2>1, <1>a
  <2> QED BY <2>3, <2>4, <1>b
<1>3. CASE T = <<"register">>
  <2>1. CreateSteps \in Seq(Steps) /\ T \in Seq(Steps) /\ Len(CreateSteps) = 3 /\ Len(T) = 1
    BY <1>3 DEF Steps, CreateSteps
  <2>2. \A i \in 1 .. 1 : T[i] = CreateSteps[3 + i - 1]
    BY <1>3 DEF CreateSteps
  <2>3. T = SubSeq(CreateSteps, 3, Len(CreateSteps))
    BY <2>1, <2>2, RestIs
  <2>4. "create" \in DOMAIN AgentRequests /\ AgentRequests["create"] = CreateSteps
        /\ 3 \in 1 .. 4 /\ 3 <= Len(CreateSteps)
    BY <2>1, <1>a
  <2> QED BY <2>3, <2>4, <1>b
<1>4. CASE T = <<"exists", "upsert", "register">>
  <2>1. UpdateSteps \in Seq(Steps) /\ T \in Seq(Steps) /\ Len(UpdateSteps) = 3 /\ Len(T) = 3
    BY <1>4 DEF Steps, UpdateSteps
  <2>2. \A i \in 1 .. 3 : T[i] = UpdateSteps[1 + i - 1]
    BY <1>4 DEF UpdateSteps
  <2>3. T = SubSeq(UpdateSteps, 1, Len(UpdateSteps))
    BY <2>1, <2>2, RestIs
  <2>4. "update" \in DOMAIN AgentRequests /\ AgentRequests["update"] = UpdateSteps
        /\ 1 \in 1 .. 4 /\ 1 <= Len(UpdateSteps)
    BY <2>1, <1>a
  <2> QED BY <2>3, <2>4, <1>b
<1>5. CASE T = <<"exists", "assign">>
  <2>1. AssignSteps \in Seq(Steps) /\ T \in Seq(Steps) /\ Len(AssignSteps) = 2 /\ Len(T) = 2
    BY <1>5 DEF Steps, AssignSteps
  <2>2. \A i \in 1 .. 2 : T[i] = AssignSteps[1 + i - 1]
    BY <1>5 DEF AssignSteps
  <2>3. T = SubSeq(AssignSteps, 1, Len(AssignSteps))
    BY <2>1, <2>2, RestIs
  <2>4. "assign" \in DOMAIN AgentRequests /\ AgentRequests["assign"] = AssignSteps
        /\ 1 \in 1 .. 4 /\ 1 <= Len(AssignSteps)
    BY <2>1, <1>a
  <2> QED BY <2>3, <2>4, <1>b
<1>6. CASE T = <<"assign">>
  <2>1. AssignSteps \in Seq(Steps) /\ T \in Seq(Steps) /\ Len(AssignSteps) = 2 /\ Len(T) = 1
    BY <1>6 DEF Steps, AssignSteps
  <2>2. \A i \in 1 .. 1 : T[i] = AssignSteps[2 + i - 1]
    BY <1>6 DEF AssignSteps
  <2>3. T = SubSeq(AssignSteps, 2, Len(AssignSteps))
    BY <2>1, <2>2, RestIs
  <2>4. "assign" \in DOMAIN AgentRequests /\ AgentRequests["assign"] = AssignSteps
        /\ 2 \in 1 .. 4 /\ 2 <= Len(AssignSteps)
    BY <2>1, <1>a
  <2> QED BY <2>3, <2>4, <1>b
<1>7. CASE T = <<"exists", "unassign", "delete", "unregister">>
  <2>1. DeleteSteps \in Seq(Steps) /\ T \in Seq(Steps) /\ Len(DeleteSteps) = 4 /\ Len(T) = 4
    BY <1>7 DEF Steps, DeleteSteps
  <2>2. \A i \in 1 .. 4 : T[i] = DeleteSteps[1 + i - 1]
    BY <1>7 DEF DeleteSteps
  <2>3. T = SubSeq(DeleteSteps, 1, Len(DeleteSteps))
    BY <2>1, <2>2, RestIs
  <2>4. "delete" \in DOMAIN AgentRequests /\ AgentRequests["delete"] = DeleteSteps
        /\ 1 \in 1 .. 4 /\ 1 <= Len(DeleteSteps)
    BY <2>1, <1>a
  <2> QED BY <2>3, <2>4, <1>b
<1>8. CASE T = <<"unassign", "delete", "unregister">>
  <2>1. DeleteSteps \in Seq(Steps) /\ T \in Seq(Steps) /\ Len(DeleteSteps) = 4 /\ Len(T) = 3
    BY <1>8 DEF Steps, DeleteSteps
  <2>2. \A i \in 1 .. 3 : T[i] = DeleteSteps[2 + i - 1]
    BY <1>8 DEF DeleteSteps
  <2>3. T = SubSeq(DeleteSteps, 2, Len(DeleteSteps))
    BY <2>1, <2>2, RestIs
  <2>4. "delete" \in DOMAIN AgentRequests /\ AgentRequests["delete"] = DeleteSteps
        /\ 2 \in 1 .. 4 /\ 2 <= Len(DeleteSteps)
    BY <2>1, <1>a
  <2> QED BY <2>3, <2>4, <1>b
<1>9. CASE T = <<"delete", "unregister">>
  <2>1. DeleteSteps \in Seq(Steps) /\ T \in Seq(Steps) /\ Len(DeleteSteps) = 4 /\ Len(T) = 2
    BY <1>9 DEF Steps, DeleteSteps
  <2>2. \A i \in 1 .. 2 : T[i] = DeleteSteps[3 + i - 1]
    BY <1>9 DEF DeleteSteps
  <2>3. T = SubSeq(DeleteSteps, 3, Len(DeleteSteps))
    BY <2>1, <2>2, RestIs
  <2>4. "delete" \in DOMAIN AgentRequests /\ AgentRequests["delete"] = DeleteSteps
        /\ 3 \in 1 .. 4 /\ 3 <= Len(DeleteSteps)
    BY <2>1, <1>a
  <2> QED BY <2>3, <2>4, <1>b
<1>10. CASE T = <<"unregister">>
  <2>1. DeleteSteps \in Seq(Steps) /\ T \in Seq(Steps) /\ Len(DeleteSteps) = 4 /\ Len(T) = 1
    BY <1>10 DEF Steps, DeleteSteps
  <2>2. \A i \in 1 .. 1 : T[i] = DeleteSteps[4 + i - 1]
    BY <1>10 DEF DeleteSteps
  <2>3. T = SubSeq(DeleteSteps, 4, Len(DeleteSteps))
    BY <2>1, <2>2, RestIs
  <2>4. "delete" \in DOMAIN AgentRequests /\ AgentRequests["delete"] = DeleteSteps
        /\ 4 \in 1 .. 4 /\ 4 <= Len(DeleteSteps)
    BY <2>1, <1>a
  <2> QED BY <2>3, <2>4, <1>b
<1> QED BY <1>1, <1>2, <1>3, <1>4, <1>5, <1>6, <1>7, <1>8, <1>9, <1>10 DEF Todos

LEMMA NoCallHas == NoCall.agent = Nobody /\ Nobody \notin Secondaries /\ Nobody \notin Credentials
                   /\ NoCall.todo = <<>> /\ NoCall.new = Nobody
BY AgentsAssumption DEF NoCall

LEMMA AgentsInitInv == AgentsInit => AgentsInv
<1> SUFFICES ASSUME AgentsInit PROVE AgentsInv
  OBVIOUS
<1>1. AgentTypes
  BY AgentsAssumption DEF AgentsInit, AgentTypes
<1>2. OneRequestEach /\ RequestsOK
  BY NoCallHas DEF AgentsInit, OneRequestEach, RequestsOK
<1>3. AgentsAgree
  BY DEF AgentsInit, AgentsAgree, NoChatDangles, AntennaMatchesRow
<1> QED BY <1>1, <1>2, <1>3 DEF AgentsInv
-----------------------------------------------------------------------------
\* A request that ends early leaves nothing half done.
LEMMA RequestDropped ==
    ASSUME AgentsInv, NEW h \in Handlers, handler[h] # NoCall,
           Head(handler[h].todo) \notin {"register", "unregister"},
           handler' = [handler EXCEPT ![h] = NoCall],
           UNCHANGED <<agents, injectors, routed, crossed>>
    PROVE  /\ handler' \in [Handlers -> Request \cup {NoCall}]
           /\ OneRequestEach' /\ RequestsOK' /\ AgentsAgree'
<1>1. /\ handler' \in [Handlers -> Request \cup {NoCall}] /\ handler'[h] = NoCall
      /\ \A k \in Handlers : k # h => handler'[k] = handler[k]
  BY DEF AgentsInv, AgentTypes
<1>2. OneRequestEach'
  BY <1>1, NoCallHas DEF AgentsInv, OneRequestEach
<1>3. RequestsOK'
  BY <1>1 DEF AgentsInv, RequestsOK, UnderWay
<1>4. NoChatDangles'
  BY DEF AgentsInv, AgentsAgree, NoChatDangles
<1>5. AntennaMatchesRow'
  <2> SUFFICES ASSUME NEW a \in Secondaries, a \notin crossed, \A k \in Handlers : handler'[k].agent # a
               PROVE  injectors[a] = agents[a]
    BY DEF AntennaMatchesRow
  <2>1. CASE handler[h].agent = a
    BY <2>1 DEF AgentsInv, RequestsOK, UnderWay
  <2>2. CASE handler[h].agent # a
    <3>1. \A k \in Handlers : handler[k].agent # a
      BY <1>1, <2>2
    <3> QED BY <3>1 DEF AgentsInv, AgentsAgree, AntennaMatchesRow
  <2> QED BY <2>1, <2>2
<1> QED BY <1>1, <1>2, <1>3, <1>4, <1>5 DEF AgentsAgree

LEMMA CallInv ==
    ASSUME AgentsInv, NEW h \in Handlers, Call(h)
    PROVE  AgentsInv'
<1>1. PICK q \in DOMAIN AgentRequests, a \in Secondaries, c \in AgentChats, new \in Credentials :
         /\ handler' = [handler EXCEPT ![h] =
                [todo |-> AgentRequests[q], agent |-> a, chat |-> c, new |-> new]]
         /\ crossed' = crossed
                \cup (IF \E k \in Handlers : handler[k].agent = a THEN {a} ELSE {})
                \cup (IF q = "claim" THEN {c} ELSE {})
  BY DEF Call
<1>2. handler[h] = NoCall /\ UNCHANGED <<agents, injectors, routed, mishaps>>
  BY DEF Call
<1> DEFINE r == [todo |-> AgentRequests[q], agent |-> a, chat |-> c, new |-> new]
<1>3. /\ r \in Request /\ r.agent = a /\ r.chat = c
      /\ Head(r.todo) \notin {"register", "unregister", "delete"}
      /\ Head(r.todo) = "assign" => q = "claim"
  BY RequestTodos DEF Request
<1>4. handler' = [handler EXCEPT ![h] = r]
  BY <1>1
<1> HIDE DEF r
<1>5. /\ handler' \in [Handlers -> Request \cup {NoCall}] /\ handler'[h] = r
      /\ \A k \in Handlers : k # h => handler'[k] = handler[k]
  BY <1>3, <1>4 DEF AgentsInv, AgentTypes
<1>6. /\ crossed \subseteq crossed' /\ crossed' \subseteq Secondaries \cup AgentChats
      /\ (\E k \in Handlers : handler[k].agent = a) => a \in crossed'
      /\ q = "claim" => c \in crossed'
  BY <1>1 DEF AgentsInv, AgentTypes
<1>7. AgentTypes'
  BY <1>2, <1>5, <1>6 DEF AgentsInv, AgentTypes
<1>8. OneRequestEach'
  BY <1>3, <1>5, <1>6 DEF AgentsInv, OneRequestEach
<1>9. AgentsAgree'
  <2>1. NoChatDangles'
    BY <1>2, <1>6 DEF AgentsInv, AgentsAgree, NoChatDangles
  <2>2. AntennaMatchesRow'
    <3> SUFFICES ASSUME NEW b \in Secondaries, b \notin crossed',
                        \A k \in Handlers : handler'[k].agent # b
                 PROVE  injectors'[b] = agents'[b]
      BY DEF AntennaMatchesRow
    <3>1. \A k \in Handlers : handler[k].agent # b
      BY <1>2, <1>5, NoCallHas
    <3> QED BY <3>1, <1>2, <1>6 DEF AgentsInv, AgentsAgree, AntennaMatchesRow
  <2> QED BY <2>1, <2>2 DEF AgentsAgree
<1>10. RequestsOK'
  <2> SUFFICES ASSUME NEW k \in Handlers, handler'[k] # NoCall, handler'[k].agent \notin crossed'
               PROVE  UnderWay(handler[k])'
    BY DEF RequestsOK
  <2>1. CASE k # h
    <3>1. handler'[k] = handler[k] /\ UnderWay(handler[k])
      BY <2>1, <1>5, <1>6 DEF AgentsInv, RequestsOK
    <3> QED BY <3>1, <1>2, <1>6 DEF UnderWay
  <2>2. CASE k = h
    <3>1. handler'[k] = r /\ a \notin crossed'
      BY <2>2, <1>3, <1>5
    <3>2. injectors[a] = agents[a]
      BY <3>1, <1>6 DEF AgentsInv, AgentsAgree, AntennaMatchesRow
    <3> QED BY <3>1, <3>2, <1>2, <1>3, <1>6 DEF UnderWay
  <2> QED BY <2>1, <2>2
<1> QED BY <1>7, <1>8, <1>9, <1>10 DEF AgentsInv

LEMMA ProceedInv ==
    ASSUME AgentsInv, NEW h \in Handlers, Proceed(h)
    PROVE  AgentsInv'
<1> DEFINE r == handler[h]
           a == r.agent
           step == Head(r.todo)
           refused == \/ step = "absent" /\ agents[a] # Nobody
                      \/ step = "exists" /\ agents[a] = Nobody
           done == refused \/ Len(r.todo) = 1
<1>0. r \in Request /\ a \in Secondaries /\ r.new \in Credentials /\ r.todo \in Todos
  BY NoCallHas DEF Proceed, AgentsInv, AgentTypes, Request
<1>1. step \in Steps /\ UNCHANGED <<mishaps, crossed>>
  BY <1>0, TodoFacts DEF Proceed
<1>2. /\ agents' = CASE step = "upsert" -> [agents EXCEPT ![a] = r.new]
                     [] step = "delete" -> [agents EXCEPT ![a] = Nobody]
                     [] OTHER -> agents
      /\ injectors' = CASE step = "register" -> [injectors EXCEPT ![a] = r.new]
                        [] step = "unregister" -> [injectors EXCEPT ![a] = Nobody]
                        [] OTHER -> injectors
      /\ routed' = CASE step = "assign" -> [routed EXCEPT ![r.chat] = a]
                     [] step = "unassign" ->
                           [c \in AgentChats |-> IF routed[c] = a THEN Nobody ELSE routed[c]]
                     [] OTHER -> routed
  BY DEF Proceed
<1>3. PICK new \in {r.new} \cup (IF step = "exists" THEN {agents[a]} ELSE {}) :
         handler' = [handler EXCEPT ![h] =
                        IF done THEN NoCall ELSE [r EXCEPT !.todo = Tail(@), !.new = new]]
  BY DEF Proceed
<1> DEFINE g == IF done THEN NoCall ELSE [r EXCEPT !.todo = Tail(@), !.new = new]
<1>4. /\ ~done => new \in Credentials
      /\ step # "exists" => new = r.new
  BY <1>0, <1>3, AgentsAssumption DEF AgentsInv, AgentTypes
<1>5. /\ done => g = NoCall
      /\ ~done => g \in Request /\ g.todo = Tail(r.todo) /\ g.agent = a /\ g.chat = r.chat /\ g.new = new
  <2>1. CASE done
    BY <2>1
  <2>2. CASE ~done
    <3>1. Tail(r.todo) \in Todos
      BY <2>2, <1>0, TodoFacts
    <3>2. g = [r EXCEPT !.todo = Tail(@), !.new = new]
      BY <2>2
    <3> HIDE DEF g, done
    <3>3. g = [todo |-> Tail(r.todo), agent |-> r.agent, chat |-> r.chat, new |-> new]
      BY <3>2, <1>0 DEF Request
    <3> QED BY <2>2, <3>1, <3>3, <1>0, <1>4 DEF Request
  <2> QED BY <2>1, <2>2
<1>6. /\ handler' = [handler EXCEPT ![h] = g]
      /\ done <=> refused \/ step \in {"register", "assign", "unregister"}
      /\ refused => step \in {"absent", "exists"}
      /\ step = "exists" /\ ~done => agents[a] # Nobody
  BY <1>0, <1>3, TodoFacts
<1>7. ~done => /\ step = "absent" => Head(Tail(r.todo)) = "upsert"
               /\ step = "exists" => Head(Tail(r.todo)) \in {"upsert", "assign", "unassign"}
               /\ step = "upsert" => Head(Tail(r.todo)) = "register"
               /\ step = "unassign" => Head(Tail(r.todo)) = "delete"
               /\ step = "delete" => Head(Tail(r.todo)) = "unregister"
  BY <1>0, TodoFacts
<1> HIDE DEF g, done, refused
<1>8. /\ handler' \in [Handlers -> Request \cup {NoCall}] /\ handler'[h] = g
      /\ \A k \in Handlers : k # h => handler'[k] = handler[k]
  BY <1>5, <1>6 DEF AgentsInv, AgentTypes
\* What the statement does to the agent, and what it leaves alone.
<1>9. /\ \A b \in Secondaries : b # a => agents'[b] = agents[b] /\ injectors'[b] = injectors[b]
      /\ agents' \in [Secondaries -> Credentials \cup {Nobody}]
      /\ injectors' \in [Secondaries -> Credentials \cup {Nobody}]
  BY <1>0, <1>2 DEF AgentsInv, AgentTypes
<1>10. /\ step = "upsert" => agents'[a] = r.new
       /\ step = "delete" => agents'[a] = Nobody
       /\ step \notin {"upsert", "delete"} => agents'[a] = agents[a]
       /\ step = "register" => injectors'[a] = r.new
       /\ step = "unregister" => injectors'[a] = Nobody
       /\ step \notin {"register", "unregister"} => injectors'[a] = injectors[a]
  BY <1>0, <1>2 DEF AgentsInv, AgentTypes
<1>11. /\ routed' \in [AgentChats -> Secondaries \cup {Nobody}]
       /\ \A c \in AgentChats : \/ routed'[c] = routed[c] \/ routed'[c] = Nobody
                                \/ step = "assign" /\ c = r.chat /\ routed'[c] = a
       /\ step = "unassign" => \A c \in AgentChats : routed'[c] # a
  <2>1. r.chat \in AgentChats /\ routed \in [AgentChats -> Secondaries \cup {Nobody}] /\ a # Nobody
    BY <1>0, NoCallHas DEF Request, AgentsInv, AgentTypes
  <2>2. CASE step = "assign"
    <3>1. routed' = [routed EXCEPT ![r.chat] = a]
      BY <1>2, <2>2
    <3> QED BY <3>1, <2>1, <2>2, <1>0
  <2>3. CASE step = "unassign"
    <3>1. routed' = [c \in AgentChats |-> IF routed[c] = a THEN Nobody ELSE routed[c]]
      BY <1>2, <2>3
    <3> QED BY <3>1, <2>1, <2>3
  <2>4. CASE step \notin {"assign", "unassign"}
    <3>1. routed' = routed
      BY <1>2, <2>4
    <3> QED BY <3>1, <2>1, <2>4
  <2> QED BY <2>2, <2>3, <2>4
<1>12. AgentTypes'
  BY <1>1, <1>8, <1>9, <1>11 DEF AgentsInv, AgentTypes
<1>13. OneRequestEach'
  BY <1>0, <1>1, <1>5, <1>8, NoCallHas DEF AgentsInv, OneRequestEach
\* What was known of the agent.
<1>14. a \notin crossed => UnderWay(r)
  BY <1>0, NoCallHas DEF AgentsInv, RequestsOK
<1>15. NoChatDangles'
  <2> SUFFICES ASSUME NEW c \in AgentChats, c \notin crossed, routed'[c] # Nobody, routed'[c] \notin crossed
               PROVE  agents'[routed'[c]] # Nobody
    BY <1>1 DEF NoChatDangles
  <2>1. routed'[c] \in Secondaries
    BY <1>11
  <2>2. CASE routed'[c] # a
    <3>1. routed[c] = routed'[c]
      BY <1>11, <2>2
    <3>2. agents[routed[c]] # Nobody
      BY <3>1 DEF AgentsInv, AgentsAgree, NoChatDangles
    <3> QED BY <3>1, <3>2, <2>1, <2>2, <1>9
  <2>3. CASE routed'[c] = a
    <3>1. CASE routed[c] = a
      <4>1. agents[a] # Nobody
        BY <3>1, <2>3 DEF AgentsInv, AgentsAgree, NoChatDangles
      <4>2. step # "delete"
        BY <3>1, <2>3, <1>14 DEF UnderWay
      <4> QED BY <4>1, <4>2, <2>3, <1>0, <1>10, NoCallHas
    <3>2. CASE routed[c] # a
      <4>1. step = "assign" /\ c = r.chat
        BY <3>2, <2>3, <1>11
      <4>2. agents[a] # Nobody
        BY <4>1, <2>3, <1>14 DEF UnderWay
      <4> QED BY <4>1, <4>2, <2>3, <1>10
    <3> QED BY <3>1, <3>2
  <2> QED BY <2>2, <2>3
<1>16. AntennaMatchesRow'
  <2> SUFFICES ASSUME NEW b \in Secondaries, b \notin crossed, \A k \in Handlers : handler'[k].agent # b
               PROVE  injectors'[b] = agents'[b]
    BY <1>1 DEF AntennaMatchesRow
  <2>1. CASE b # a
    <3>1. \A k \in Handlers : handler[k].agent # b
      BY <2>1, <1>8
    <3>2. injectors[b] = agents[b]
      BY <3>1 DEF AgentsInv, AgentsAgree, AntennaMatchesRow
    <3> QED BY <3>2, <2>1, <1>9
  <2>2. CASE b = a
    <3>1. done
      BY <2>2, <1>5, <1>8
    <3>2. step \in {"absent", "exists", "register", "assign", "unregister"}
      BY <3>1, <1>6
    <3>3. UnderWay(r)
      BY <2>2, <1>14
    <3>4. injectors'[a] = agents'[a]
      BY <3>2, <3>3, <1>10 DEF UnderWay
    <3> QED BY <3>4, <2>2
  <2> QED BY <2>1, <2>2
<1>17. RequestsOK'
  <2> SUFFICES ASSUME NEW k \in Handlers, handler'[k] # NoCall, handler'[k].agent \notin crossed
               PROVE  UnderWay(handler[k])'
    BY <1>1 DEF RequestsOK
  <2>1. CASE k # h
    <3> DEFINE b == handler[k].agent
    <3>1. handler'[k] = handler[k] /\ handler[k] \in Request /\ b \in Secondaries
      BY <2>1, <1>8 DEF AgentsInv, AgentTypes, Request
    <3>2. UnderWay(handler[k])
      BY <3>1 DEF AgentsInv, RequestsOK
    <3>3. b # a
      BY <2>1, <3>1 DEF AgentsInv, OneRequestEach
    <3>4. /\ agents'[b] = agents[b] /\ injectors'[b] = injectors[b]
          /\ \A c \in AgentChats : routed[c] # b => routed'[c] # b
      <4>1. b # Nobody
        BY <3>1, NoCallHas
      <4> QED BY <3>1, <3>3, <4>1, <1>9, <1>11
    <3> QED BY <3>1, <3>2, <3>4, <1>1 DEF UnderWay
  <2>2. CASE k = h
    <3>1. ~done /\ handler'[k] = g
      BY <2>2, <1>5, <1>8
    <3>2. /\ g.todo = Tail(r.todo) /\ g.agent = a /\ g.chat = r.chat /\ g.new = new
          /\ a \notin crossed
      BY <3>1, <1>5
    <3>3. UnderWay(r)
      BY <3>2, <1>14
    <3>4. step \in {"absent", "exists", "upsert", "unassign", "delete"}
      BY <3>1, <1>1, <1>6 DEF Steps
    <3>5. CASE step \in {"absent", "exists"}
      <4>1. /\ Head(Tail(r.todo)) \in {"upsert", "assign", "unassign"}
            /\ Head(Tail(r.todo)) = "assign" => step = "exists"
        BY <3>1, <3>5, <1>7
      <4>2. injectors'[a] = agents'[a] /\ agents'[a] = agents[a]
        BY <3>3, <3>5, <1>10 DEF UnderWay
      <4> QED BY <3>1, <3>2, <4>1, <4>2, <1>6 DEF UnderWay
    <3>6. CASE step = "upsert"
      <4>1. Head(g.todo) = "register" /\ agents'[a] = g.new
        BY <3>1, <3>2, <3>6, <1>4, <1>7, <1>10
      <4> QED BY <3>1, <3>2, <4>1 DEF UnderWay
    <3>7. CASE step = "unassign"
      <4>1. Head(g.todo) = "delete" /\ injectors'[a] = agents'[a]
        BY <3>1, <3>2, <3>3, <3>7, <1>7, <1>10 DEF UnderWay
      <4> QED BY <3>1, <3>2, <3>7, <4>1, <1>11 DEF UnderWay
    <3>8. CASE step = "delete"
      <4>1. Head(g.todo) = "unregister" /\ agents'[a] = Nobody
        BY <3>1, <3>2, <3>8, <1>7, <1>10
      <4> QED BY <3>1, <3>2, <4>1 DEF UnderWay
    <3> QED BY <3>4, <3>5, <3>6, <3>7, <3>8
  <2> QED BY <2>1, <2>2
<1> QED BY <1>12, <1>13, <1>15, <1>16, <1>17 DEF AgentsInv, AgentsAgree

LEMMA AgentsStepInv ==
    ASSUME AgentsInv, [AgentsNext]_agentVars
    PROVE  AgentsInv'
<1>1. ASSUME NEW h \in Handlers, StatementFails(h) PROVE AgentsInv'
  <2>1. /\ handler[h] # NoCall /\ Head(handler[h].todo) \notin {"register", "unregister"}
        /\ handler' = [handler EXCEPT ![h] = NoCall]
        /\ UNCHANGED <<agents, injectors, routed, crossed>>
    BY <1>1, NoCallHas DEF StatementFails
  <2>2. mishaps' \in 0 .. MaxMishaps
    BY <1>1, AgentsAssumption DEF StatementFails, AgentsInv, AgentTypes
  <2> QED BY <2>1, <2>2, RequestDropped DEF AgentsInv, AgentTypes
<1>2. ASSUME NEW c \in AgentChats, Unassign(c) PROVE AgentsInv'
  <2>1. /\ routed' = [routed EXCEPT ![c] = Nobody]
        /\ UNCHANGED <<agents, injectors, handler, mishaps, crossed>>
    BY <1>2 DEF Unassign
  <2>2. /\ routed' \in [AgentChats -> Secondaries \cup {Nobody}]
        /\ \A d \in AgentChats : routed'[d] \in {routed[d], Nobody}
    BY <2>1 DEF AgentsInv, AgentTypes
  <2>3. AgentTypes' /\ OneRequestEach'
    BY <2>1, <2>2 DEF AgentsInv, AgentTypes, OneRequestEach
  <2>4. AgentsAgree'
    BY <2>1, <2>2 DEF AgentsInv, AgentsAgree, NoChatDangles, AntennaMatchesRow
  <2>5. RequestsOK'
    <3> SUFFICES ASSUME NEW k \in Handlers, handler[k] # NoCall, handler[k].agent \notin crossed
                 PROVE  UnderWay(handler[k])'
      BY <2>1 DEF RequestsOK
    <3>1. UnderWay(handler[k]) /\ handler[k].agent \in Secondaries
      BY DEF AgentsInv, AgentTypes, RequestsOK, Request
    <3>2. \A d \in AgentChats : routed[d] # handler[k].agent => routed'[d] # handler[k].agent
      BY <2>2, <3>1, NoCallHas
    <3> QED BY <2>1, <3>1, <3>2 DEF UnderWay
  <2> QED BY <2>3, <2>4, <2>5 DEF AgentsInv
<1>3. CASE AgentsRestart
  <2>1. /\ injectors' = agents /\ handler' = [k \in Handlers |-> NoCall]
        /\ UNCHANGED <<agents, routed, crossed>>
    BY <1>3 DEF AgentsRestart
  <2>2. mishaps' \in 0 .. MaxMishaps
    BY <1>3, AgentsAssumption DEF AgentsRestart, AgentsInv, AgentTypes
  <2>3. AgentTypes'
    BY <2>1, <2>2 DEF AgentsInv, AgentTypes
  <2>4. OneRequestEach' /\ RequestsOK'
    BY <2>1, NoCallHas DEF OneRequestEach, RequestsOK
  <2>5. AgentsAgree'
    BY <2>1 DEF AgentsInv, AgentsAgree, NoChatDangles, AntennaMatchesRow
  <2> QED BY <2>3, <2>4, <2>5 DEF AgentsInv
<1>4. CASE UNCHANGED agentVars
  <2>1. UNCHANGED <<agents, injectors, routed, handler, mishaps, crossed>>
    BY <1>4 DEF agentVars
  <2>2. RequestsOK'
    BY <2>1 DEF AgentsInv, RequestsOK, UnderWay
  <2> QED BY <2>1, <2>2 DEF AgentsInv, AgentTypes, OneRequestEach, AgentsAgree, NoChatDangles,
        AntennaMatchesRow
<1> QED BY <1>1, <1>2, <1>3, <1>4, CallInv, ProceedInv DEF AgentsNext

LEMMA AgentsInvariant == AgentsSpec => []AgentsInv
BY AgentsInitInv, AgentsStepInv, PTL DEF AgentsSpec

\* Types of the registry, the routes, the injectors and the requests on their
\* way (restapi agents.go, Pusher).
THEOREM AgentsTypes == AgentsSpec => []AgentsTypeOK
<1>1. AgentsInv => AgentsTypeOK
  <2> SUFFICES ASSUME AgentsInv PROVE AgentsTypeOK
    OBVIOUS
  <2>1. ASSUME NEW h \in Handlers
        PROVE  /\ handler[h] = NoCall \/ \E q \in DOMAIN AgentRequests, n \in 1 .. 4 :
                     n <= Len(AgentRequests[q]) /\ handler[h].todo = SubSeq(AgentRequests[q], n, Len(AgentRequests[q]))
               /\ handler[h].agent \in Secondaries \cup {Nobody}
               /\ handler[h].new \in Credentials \cup {Nobody}
    <3>1. handler[h] \in Request \cup {NoCall}
      BY DEF AgentsInv, AgentTypes
    <3>2. CASE handler[h] = NoCall
      BY <3>2, NoCallHas
    <3>3. CASE handler[h] \in Request
      BY <3>3, TodoIsRest DEF Request
    <3> QED BY <3>1, <3>2, <3>3
  <2> QED BY <2>1 DEF AgentsInv, AgentTypes, AgentsTypeOK
<1> QED BY <1>1, AgentsInvariant, PTL

\* No chat is left with an agent that does not exist, and a configured agent is
\* reached by the credential of its row, whatever requests overlap, but for those
\* that crossed (handleDeleteAgent, UnregisterInjector).
THEOREM AgentsInStep == AgentsSpec => []AgentsAgree
<1>1. AgentsInv => AgentsAgree
  BY DEF AgentsInv
<1> QED BY <1>1, AgentsInvariant, PTL

-----------------------------------------------------------------------------
(* Who works on a chat (Presence). *)

\* A claim within its promise is the one in the row.
PromiseKept == \A m \in Models : promised[m] > now => claim.by = m /\ claim.until = promised[m]

\* A count still to be published by a session belongs to a call made now.
UntoldFresh == \A u \in untold : u.by # NoModel => calls[u.by] = now

\* With nobody left, the screen says so or is about to.
LastWordIsNobody ==
    Live(calls) = {} => \/ untold = {} /\ shown = 0
                        \/ untold = {[by |-> NoModel, count |-> 0]}

PresenceInv == PresenceTypeOK /\ PromiseKept /\ UntoldFresh /\ LastWordIsNobody

LEMMA LiveCount ==
    ASSUME NEW s
    PROVE  /\ Cardinality(Live(s)) \in 0 .. Cardinality(Models)
           /\ Cardinality(Live(s)) = 0 <=> Live(s) = {}
<1>1. Live(s) \subseteq Models /\ IsFiniteSet(Models)
  BY PresenceAssumption DEF Live
<1>2. IsFiniteSet(Live(s)) /\ Cardinality(Live(s)) <= Cardinality(Models)
  BY <1>1, FS_Subset
<1>3. Cardinality(Live(s)) \in Nat /\ Cardinality(Models) \in Nat
  BY <1>1, <1>2, FS_CardinalityType
<1>4. Cardinality(Live(s)) = 0 <=> Live(s) = {}
  BY <1>2, FS_EmptySet
<1> QED BY <1>2, <1>3, <1>4

LEMMA PresenceInitInv == PresenceInit => PresenceInv
<1> SUFFICES ASSUME PresenceInit PROVE PresenceInv
  OBVIOUS
<1>1. Cardinality(Models) \in Nat
  BY PresenceAssumption, FS_CardinalityType
<1>2. PresenceTypeOK
  BY <1>1, PresenceAssumption DEF PresenceInit, PresenceTypeOK
<1>3. PromiseKept /\ UntoldFresh /\ LastWordIsNobody
  BY DEF PresenceInit, PromiseKept, UntoldFresh, LastWordIsNobody
<1> QED BY <1>2, <1>3 DEF PresenceInv

\* Every call is noticed, and then somebody is there.
LEMMA SeenHas ==
    ASSUME PresenceInv, NEW m \in Models, Seen(m), MayCall(m), now' = now
    PROVE  /\ calls' \in [Models -> 0 .. MaxClock]
           /\ untold' \subseteq [by : Models \cup {NoModel}, count : 0 .. Cardinality(Models)]
           /\ shown' = shown /\ UntoldFresh' /\ LastWordIsNobody'
<1>1. now \in 1 .. MaxClock /\ MaxClock \in Nat /\ calls \in [Models -> 0 .. MaxClock]
  BY PresenceAssumption DEF PresenceInv, PresenceTypeOK
<1>2. calls' = [calls EXCEPT ![m] = now] /\ shown' = shown
  BY DEF Seen
<1>3. calls' \in [Models -> 0 .. MaxClock] /\ calls'[m] = now
  BY <1>1, <1>2
<1>4. m \in Live(calls')
  BY <1>1, <1>3 DEF Live
<1>5. LastWordIsNobody'
  BY <1>4 DEF LastWordIsNobody
<1> DEFINE told == [by |-> m, count |-> Cardinality(Live(calls'))]
<1>6. untold' \subseteq untold \cup {told}
  BY DEF Seen
<1>7. told \in [by : Models \cup {NoModel}, count : 0 .. Cardinality(Models)] /\ told.by = m
  BY LiveCount
<1> HIDE DEF told
<1>8. untold' \subseteq [by : Models \cup {NoModel}, count : 0 .. Cardinality(Models)]
  BY <1>6, <1>7 DEF PresenceInv, PresenceTypeOK
<1>9. UntoldFresh'
  <2> SUFFICES ASSUME NEW u \in untold', u.by # NoModel PROVE calls'[u.by] = now
    BY DEF UntoldFresh
  <2>1. u = told \/ u \in untold
    BY <1>6
  <2>2. CASE u = told
    BY <2>2, <1>3, <1>7
  <2>3. CASE u \in untold
    BY <2>3, <1>1, <1>2 DEF PresenceInv, PresenceTypeOK, UntoldFresh
  <2> QED BY <2>1, <2>2, <2>3
<1> QED BY <1>2, <1>3, <1>5, <1>8, <1>9

LEMMA PresenceStepInv ==
    ASSUME PresenceInv, [PresenceNext]_presenceVars
    PROVE  PresenceInv'
<1> USE PresenceAssumption
<1>0. now \in Nat /\ claim.until \in Nat /\ promised \in [Models -> Nat]
  BY DEF PresenceInv, PresenceTypeOK
<1>1. CASE Publishes
  <2>1. PICK u \in untold : shown' = u.count /\ untold' = untold \ {u}
    BY <1>1 DEF Publishes
  <2>2. UNCHANGED <<now, claim, promised, calls>>
    BY <1>1 DEF Publishes, claimVars
  <2>3. u \in [by : Models \cup {NoModel}, count : 0 .. Cardinality(Models)]
    BY DEF PresenceInv, PresenceTypeOK
  <2>4. PresenceTypeOK'
    BY <2>1, <2>2, <2>3 DEF PresenceInv, PresenceTypeOK
  <2>5. PromiseKept' /\ UntoldFresh'
    BY <2>1, <2>2 DEF PresenceInv, PromiseKept, UntoldFresh
  <2>6. LastWordIsNobody'
    BY <2>1, <2>2 DEF PresenceInv, LastWordIsNobody
  <2> QED BY <2>4, <2>5, <2>6 DEF PresenceInv
<1>2. CASE Evict
  <2> DEFINE kept == [m \in Models |-> IF now >= calls[m] + IdleAfter THEN 0 ELSE calls[m]]
             told == [by |-> NoModel, count |-> Cardinality(Live(kept))]
  <2>1. /\ \A u \in untold : u.by # NoModel
        /\ kept # calls /\ calls' = kept
        /\ untold' = IF Telling(Cardinality(Live(calls)), Cardinality(Live(kept)))
                     THEN untold \cup {told} ELSE untold
        /\ UNCHANGED <<now, claim, promised, shown>>
    BY <1>2 DEF Evict, claimVars
  <2>2. now \in 1 .. MaxClock /\ calls \in [Models -> 0 .. MaxClock]
    BY DEF PresenceInv, PresenceTypeOK
  <2>3. kept \in [Models -> 0 .. MaxClock]
    BY <2>2
  <2>4. told \in [by : Models \cup {NoModel}, count : 0 .. Cardinality(Models)] /\ told.by = NoModel
    BY LiveCount
  <2>5. \A m \in Models : calls[m] = now => kept[m] = now
    BY <2>2
  <2>6. Live(calls) # {}
    <3>1. PICK m \in Models : kept[m] # calls[m]
      BY <2>1, <2>2, <2>3
    <3>2. calls[m] # 0
      BY <3>1
    <3> QED BY <3>2 DEF Live
  <2>7. Live(kept) = {} => untold = {} /\ untold' = {[by |-> NoModel, count |-> 0]}
    <3> SUFFICES ASSUME Live(kept) = {} PROVE untold = {} /\ untold' = {[by |-> NoModel, count |-> 0]}
      OBVIOUS
    <3>1. untold = {}
      <4> SUFFICES ASSUME NEW u \in untold PROVE FALSE
        OBVIOUS
      <4>1. u.by \in Models /\ calls[u.by] = now
        BY <2>1 DEF PresenceInv, PresenceTypeOK, UntoldFresh
      <4>2. kept[u.by] # 0
        BY <4>1, <2>2, <2>5
      <4> QED BY <4>1, <4>2 DEF Live
    <3>2. Cardinality(Live(kept)) = 0 /\ Cardinality(Live(calls)) # 0
      BY <2>6, LiveCount
    <3> HIDE DEF kept
    <3>3. untold' = untold \cup {told} /\ told = [by |-> NoModel, count |-> 0]
      BY <2>1, <3>2 DEF Telling
    <3> QED BY <3>1, <3>3
  <2> HIDE DEF kept, told
  <2>8. PresenceTypeOK'
    BY <2>1, <2>3, <2>4 DEF PresenceInv, PresenceTypeOK
  <2>9. PromiseKept' /\ LastWordIsNobody'
    BY <2>1, <2>7 DEF PresenceInv, PromiseKept, LastWordIsNobody
  <2>10. UntoldFresh'
    <3> SUFFICES ASSUME NEW u \in untold', u.by # NoModel PROVE calls'[u.by] = now
      BY <2>1 DEF UntoldFresh
    <3>1. u \in untold
      BY <2>1, <2>4
    <3>2. calls[u.by] = now /\ u.by \in Models
      BY <3>1 DEF PresenceInv, PresenceTypeOK, UntoldFresh
    <3> QED BY <3>2, <2>1, <2>5
  <2> QED BY <2>8, <2>9, <2>10 DEF PresenceInv
<1>3. CASE ClockTicks
  <2>1. /\ now < MaxClock /\ untold = {} /\ now' = now + 1
        /\ UNCHANGED <<claim, promised, calls, shown, untold>>
    BY <1>3 DEF ClockTicks, claimVars, trackVars
  <2>2. PresenceTypeOK'
    BY <2>1 DEF PresenceInv, PresenceTypeOK
  <2>3. PromiseKept'
    BY <2>1, <1>0 DEF PresenceInv, PromiseKept
  <2>4. UntoldFresh' /\ LastWordIsNobody'
    BY <2>1 DEF PresenceInv, UntoldFresh, LastWordIsNobody
  <2> QED BY <2>2, <2>3, <2>4 DEF PresenceInv
<1>4. ASSUME NEW m \in Models, NEW t \in Ttls, ClaimChat(m, t) PROVE PresenceInv'
  <2>1. MayCall(m) /\ Seen(m) /\ now' = now
    BY <1>4 DEF ClaimChat
  <2>2. t \in Nat /\ t > 0
    OBVIOUS
  <2>3. CASE FreeFor(m)
    <3>1. claim' = [by |-> m, until |-> now + t] /\ promised' = [promised EXCEPT ![m] = now + t]
      BY <1>4, <2>3 DEF ClaimChat
    <3>2. /\ claim'.by = m /\ claim'.until = now + t /\ promised'[m] = now + t
          /\ promised' \in [Models -> Nat] /\ claim'.until \in Nat
      BY <1>0, <2>2, <3>1
    <3>3. \A i \in Models : i # m => promised'[i] = promised[i] /\ ~(promised[i] > now)
      <4> SUFFICES ASSUME NEW i \in Models, i # m PROVE promised'[i] = promised[i] /\ ~(promised[i] > now)
        OBVIOUS
      <4>1. promised'[i] = promised[i]
        BY <1>0, <3>1
      <4>2. ASSUME promised[i] > now PROVE FALSE
        <5>1. claim.by = i /\ claim.until > now
          BY <4>2 DEF PresenceInv, PromiseKept
        <5>2. Holder = i
          BY <5>1, <1>0 DEF Holder
        <5> QED BY <5>2, <2>3 DEF FreeFor
      <4> QED BY <4>1, <4>2
    <3>4. PromiseKept'
      BY <2>1, <3>2, <3>3 DEF PromiseKept
    <3>5. PresenceTypeOK'
      BY <2>1, <3>2, SeenHas DEF PresenceInv, PresenceTypeOK
    <3> QED BY <2>1, <3>4, <3>5, SeenHas DEF PresenceInv
  <2>4. CASE ~FreeFor(m)
    <3>1. UNCHANGED <<claim, promised>>
      BY <1>4, <2>4 DEF ClaimChat, claimVars
    <3>2. PresenceTypeOK' /\ PromiseKept'
      BY <2>1, <3>1, SeenHas DEF PresenceInv, PresenceTypeOK, PromiseKept
    <3> QED BY <2>1, <3>2, SeenHas DEF PresenceInv
  <2> QED BY <2>3, <2>4
<1>5. ASSUME NEW m \in Models, ReleaseChat(m) PROVE PresenceInv'
  <2>1. /\ MayCall(m) /\ Seen(m) /\ now' = now
        /\ claim' = IF Holds(m) THEN [by |-> NoModel, until |-> 0] ELSE claim
        /\ promised' = [promised EXCEPT ![m] = 0]
    BY <1>5 DEF ReleaseChat
  <2>2. promised' \in [Models -> Nat] /\ promised'[m] = 0
        /\ \A i \in Models : i # m => promised'[i] = promised[i]
    BY <1>0, <2>1
  <2>3. claim'.by \in Models \cup {NoModel} /\ claim'.until \in Nat
    BY <2>1 DEF PresenceInv, PresenceTypeOK
  <2>4. PromiseKept'
    <3> SUFFICES ASSUME NEW i \in Models, promised'[i] > now
                 PROVE  claim'.by = i /\ claim'.until = promised'[i]
      BY <2>1 DEF PromiseKept
    <3>1. i # m /\ promised'[i] = promised[i]
      BY <1>0, <2>2
    <3>2. claim.by = i /\ claim.until = promised[i]
      BY <3>1 DEF PresenceInv, PromiseKept
    <3>3. claim' = claim
      BY <2>1, <3>1, <3>2 DEF Holds
    <3> QED BY <3>1, <3>2, <3>3
  <2>5. PresenceTypeOK'
    BY <2>1, <2>2, <2>3, SeenHas DEF PresenceInv, PresenceTypeOK
  <2> QED BY <2>1, <2>4, <2>5, SeenHas DEF PresenceInv
<1>6. CASE UNCHANGED presenceVars
  <2>1. UNCHANGED <<now, claim, promised, calls, shown, untold>>
    BY <1>6 DEF presenceVars
  <2> QED BY <2>1 DEF PresenceInv, PresenceTypeOK, PromiseKept, UntoldFresh, LastWordIsNobody
<1> QED BY <1>1, <1>2, <1>3, <1>4, <1>5, <1>6 DEF PresenceNext

LEMMA PresenceInvariant == PresenceSpec => []PresenceInv
BY PresenceInitInv, PresenceStepInv, PTL DEF PresenceSpec

\* Types of the claim on a chat and of the sessions counted (store, agentTracker).
THEOREM PresenceTypes == PresenceSpec => []PresenceTypeOK
<1>1. PresenceInv => PresenceTypeOK
  BY DEF PresenceInv
<1> QED BY <1>1, PresenceInvariant, PTL

\* A claim belongs to one model at a time, and nobody is shown once the last
\* session is gone (ClaimChat, agentTracker.sweep).
THEOREM PresenceStands == PresenceSpec => []PresenceHolds
<1>1. PresenceInv => PresenceHolds
  <2> SUFFICES ASSUME PresenceInv PROVE PresenceHolds
    OBVIOUS
  <2>1. ClaimExclusive
    BY DEF PresenceInv, PresenceTypeOK, PromiseKept, ClaimExclusive, Holder
  <2>2. NobodyShown
    BY DEF PresenceInv, LastWordIsNobody, NobodyShown
  <2> QED BY <2>1, <2>2 DEF PresenceHolds
<1> QED BY <1>1, PresenceInvariant, PTL

-----------------------------------------------------------------------------
(* The antenna of one agent (Antenna). *)

CallStages == {"idle", "shake", "dead", "session", "post"}
CallRecord == [at : CallStages, conf : Confs, session : Session \cup {NoSession}, again : BOOLEAN]

\* A call that was answered "gone" asked for a gone terminal.
CallsPlaced == \A c \in Callers : call[c].at = "dead" => call[c].conf.terminal \in gone

\* As long as nothing was reconfigured under a call, every call is about the
\* terminal configured, and so is every session, kept or under way.
NothingStale ==
    ~swapped =>
        /\ session # NoSession => session.terminal = conf.terminal
        /\ \A c \in Callers :
              /\ call[c].at # "idle" => call[c].conf = conf
              /\ call[c].at \in {"session", "post"} => call[c].session.terminal = conf.terminal

AntennaInv == AntennaTypeOK /\ CallsPlaced /\ NothingStale /\ AntennaHolds

LEMMA CardConf ==
    /\ Cleared \in Confs
    /\ \A t \in Terminals : \A n \in 0 .. MaxSwitches : Card(t, n) \in Confs
<1> USE AntennaAssumption DEF Confs, Passes
<1>1. 0 \in 0 .. MaxSwitches
  OBVIOUS
<1>2. Cleared \in Confs
  BY <1>1 DEF Cleared
<1> QED BY <1>2 DEF Card

LEMMA QuietCall == Quiet \in CallRecord /\ Quiet.at = "idle"
BY CardConf DEF Quiet, CallRecord, CallStages

LEMMA AntennaInitInv == AntennaInit => AntennaInv
<1> SUFFICES ASSUME AntennaInit PROVE AntennaInv
  OBVIOUS
<1> USE AntennaAssumption DEF AntennaInit
<1>0. Cleared \in Confs /\ \A t \in Terminals : Card(t, 0) \in Confs
  BY CardConf
<1>1. conf \in Confs /\ settings \in Confs
  BY <1>0
<1>2. saving \in [card : Confs, left : SUBSET Fields]
  BY <1>0 DEF NotSaving
<1>3. \A c \in Callers : call[c] = Quiet
  OBVIOUS
<1>4. Quiet \in CallRecord /\ Quiet.at = "idle"
  BY <1>0 DEF Quiet, CallRecord, CallStages
<1>5. AntennaTypeOK
  <2>1. issue \in [Terminals -> 0 .. MaxSwitches]
    OBVIOUS
  <2>2. call \in [Callers -> CallRecord]
    BY <1>4
  <2>3. session \in Session \cup {NoSession} /\ dead \in BOOLEAN /\ strayed \in BOOLEAN
        /\ swapped \in BOOLEAN
    OBVIOUS
  <2>4. epoch \in 0 .. MaxRestarts /\ configs \in 0 .. MaxConfigs
    OBVIOUS
  <2>5. gone \subseteq Terminals /\ deaf \subseteq Terminals
    OBVIOUS
  <2> QED BY <1>1, <1>2, <2>1, <2>2, <2>3, <2>4, <2>5 DEF AntennaTypeOK, CallRecord, CallStages
<1>6. CallsPlaced /\ NothingStale /\ AntennaHolds
  BY <1>2, <1>3, <1>4 DEF CallsPlaced, NothingStale, AntennaHolds, DeadIsGone,
     ReachesConfigured
<1> QED BY <1>5, <1>6 DEF AntennaInv

\* A step that leaves configuration, session, calls and their history alone
\* keeps what is said of them.
LEMMA AntennaUntouched ==
    ASSUME AntennaInv, UNCHANGED <<conf, session, dead, call, strayed, swapped>>,
           gone \subseteq gone'
    PROVE  CallsPlaced' /\ NothingStale' /\ AntennaHolds'
BY DEF AntennaInv, CallsPlaced, NothingStale, AntennaHolds, DeadIsGone, ReachesConfigured

\* A call goes on: what is new about it, and nothing about the others.
LEMMA CallGoes ==
    ASSUME AntennaInv, NEW c \in Callers, NEW r \in CallRecord, call' = [call EXCEPT ![c] = r],
           UNCHANGED <<conf, gone, swapped>>,
           r.at # "idle" => swapped \/ r.conf = conf,
           r.at = "dead" => r.conf.terminal \in gone,
           r.at \in {"session", "post"} => swapped \/ r.session.terminal = conf.terminal,
           swapped \/ session' # NoSession => swapped \/ session'.terminal = conf.terminal
    PROVE  /\ call' \in [Callers -> CallRecord]
           /\ CallsPlaced' /\ NothingStale'
<1>1. call' \in [Callers -> CallRecord] /\ call'[c] = r /\ \A d \in Callers \ {c} : call'[d] = call[d]
  BY DEF AntennaInv, AntennaTypeOK, CallRecord, CallStages
<1>2. CallsPlaced'
  BY <1>1 DEF AntennaInv, CallsPlaced
<1>3. NothingStale'
  BY <1>1 DEF AntennaInv, NothingStale
<1> QED BY <1>1, <1>2, <1>3

LEMMA CallHas ==
    ASSUME AntennaInv, NEW c \in Callers
    PROVE  /\ call[c] \in CallRecord /\ call \in [Callers -> CallRecord]
           /\ call[c].conf \in Confs /\ call[c].session \in Session \cup {NoSession}
BY DEF AntennaInv, AntennaTypeOK, CallRecord, CallStages

LEMMA AntennaStepInv ==
    ASSUME AntennaInv, [AntennaNext]_antennaVars
    PROVE  AntennaInv'
<1> USE AntennaAssumption
<1>1. ASSUME NEW card \in Confs, SaveConfig(card) PROVE AntennaInv'
  <2>1. AntennaTypeOK'
    BY <1>1 DEF SaveConfig, AntennaInv, AntennaTypeOK
  <2> QED BY <1>1, <2>1, AntennaUntouched DEF SaveConfig, AntennaInv
<1>2. ASSUME NEW f \in Fields, SaveField(f) PROVE AntennaInv'
  <2>1. settings \in Confs /\ saving \in [card : Confs, left : SUBSET Fields]
    BY DEF AntennaInv, AntennaTypeOK
  <2>2. settings' \in Confs
    BY <1>2, <2>1 DEF SaveField, Confs
  <2>3. saving' \in [card : Confs, left : SUBSET Fields]
    BY <1>2, <2>1 DEF SaveField
  <2>4. AntennaTypeOK'
    BY <1>2, <2>2, <2>3 DEF SaveField, AntennaInv, AntennaTypeOK
  <2> QED BY <1>2, <2>4, AntennaUntouched DEF SaveField, AntennaInv
<1>3. CASE SetConfig
  <2>1. /\ conf' \in Confs /\ session' = NoSession /\ dead' = FALSE
        /\ saving' \in [card : Confs, left : SUBSET Fields] /\ UNCHANGED <<call, gone>>
    BY <1>3, CardConf DEF SetConfig, ForgetSession, NotSaving, AntennaInv, AntennaTypeOK
  <2>2. ~swapped' => ~strayed' /\ \A c \in Callers : call[c] = Quiet
    BY <1>3 DEF SetConfig, Calling
  <2>3. swapped' \in BOOLEAN /\ strayed' \in BOOLEAN
    BY <1>3, Zenon DEF SetConfig, Calling, AntennaInv, AntennaTypeOK
  <2>4. AntennaTypeOK'
    BY <1>3, <2>1, <2>3 DEF SetConfig, AntennaInv, AntennaTypeOK
  <2>5. CallsPlaced'
    BY <2>1 DEF CallsPlaced, AntennaInv
  <2>6. NothingStale' /\ AntennaHolds'
    BY <2>1, <2>2 DEF NothingStale, AntennaHolds, DeadIsGone, ReachesConfigured, AntennaInv, Quiet
  <2> QED BY <2>4, <2>5, <2>6 DEF AntennaInv
<1>4. CASE SettingFails
  <2>1. saving' \in [card : Confs, left : SUBSET Fields]
    BY <1>4, CardConf DEF SettingFails, NotSaving
  <2>2. AntennaTypeOK'
    BY <1>4, <2>1 DEF SettingFails, AntennaInv, AntennaTypeOK
  <2> QED BY <1>4, <2>1, <2>2, AntennaUntouched DEF SettingFails, AntennaInv
<1>5. CASE AntennaRestart
  <2>1. /\ session' = NoSession /\ dead' = FALSE /\ strayed' = FALSE /\ swapped' = FALSE
        /\ saving' \in [card : Confs, left : SUBSET Fields]
        /\ \A c \in Callers : call'[c] = Quiet
    BY <1>5, CardConf DEF AntennaRestart, NotSaving
  <2>2. Quiet \in CallRecord
    BY QuietCall
  <2>3. call' \in [Callers -> CallRecord]
    BY <1>5, <2>2 DEF AntennaRestart
  <2>4. conf' \in Confs
    BY <1>5 DEF AntennaRestart, AntennaInv, AntennaTypeOK
  <2>5. AntennaTypeOK'
    <3>1. configs' \in 0 .. MaxConfigs /\ UNCHANGED <<settings, epoch, gone, deaf, issue>>
      BY <1>5 DEF AntennaRestart, AntennaInv, AntennaTypeOK
    <3>2. session' \in Session \cup {NoSession} /\ dead' \in BOOLEAN /\ strayed' \in BOOLEAN
          /\ swapped' \in BOOLEAN
      BY <2>1
    <3> QED BY <2>1, <2>3, <2>4, <3>1, <3>2 DEF AntennaInv, AntennaTypeOK, CallRecord, CallStages
  <2>6. CallsPlaced' /\ NothingStale' /\ AntennaHolds'
    BY <2>1 DEF CallsPlaced, NothingStale, AntennaHolds, DeadIsGone, ReachesConfigured, Quiet
  <2> QED BY <2>5, <2>6 DEF AntennaInv
<1>6. ASSUME NEW c \in Callers, Inject(c) PROVE AntennaInv'
  <2> DEFINE r == [at |-> IF session = NoSession THEN "shake" ELSE "post",
                   conf |-> conf, session |-> session, again |-> FALSE]
  <2>1. r \in CallRecord
    BY <1>6 DEF Inject, AntennaInv, AntennaTypeOK, CallRecord, CallStages
  <2>2. /\ r.at # "idle" /\ r.at # "dead" /\ r.conf = conf
        /\ r.at \in {"session", "post"} => session # NoSession /\ r.session = session
    OBVIOUS
  <2>3. call' = [call EXCEPT ![c] = r]
    BY <1>6 DEF Inject
  <2>4. /\ UNCHANGED <<conf, gone, swapped, session, dead, strayed, saving>>
        /\ swapped \/ session' # NoSession => swapped \/ session'.terminal = conf.terminal
    BY <1>6 DEF Inject, AntennaInv, NothingStale
  <2>5. r.at \in {"session", "post"} => swapped \/ r.session.terminal = conf.terminal
    BY <2>2 DEF AntennaInv, NothingStale
  <2> HIDE DEF r
  <2>6. call' \in [Callers -> CallRecord] /\ CallsPlaced' /\ NothingStale'
    BY <2>1, <2>2, <2>3, <2>4, <2>5, CallGoes
  <2>7. AntennaTypeOK'
    BY <1>6, <2>6 DEF Inject, AntennaInv, AntennaTypeOK, CallRecord, CallStages
  <2>8. AntennaHolds'
    BY <2>4 DEF AntennaInv, AntennaHolds, DeadIsGone, ReachesConfigured
  <2> QED BY <2>6, <2>7, <2>8 DEF AntennaInv
<1>7. ASSUME NEW c \in Callers, Handshake(c) PROVE AntennaInv'
  <2>1. PICK r : call' = [call EXCEPT ![c] = r] /\
          \/ Gone(call[c].conf.terminal) /\ r = [call[c] EXCEPT !.at = "dead"]
          \/ r = Quiet
          \/ /\ Accepts(call[c].conf)
             /\ r = [call[c] EXCEPT !.at = "session",
                        !.session = [terminal |-> call[c].conf.terminal, epoch |-> epoch]]
    BY <1>7 DEF Handshake
  <2>2. /\ call[c].at = "shake" /\ (swapped \/ call[c].conf = conf)
        /\ UNCHANGED <<conf, gone, swapped, session, dead, strayed, saving>>
        /\ swapped \/ session' # NoSession => swapped \/ session'.terminal = conf.terminal
    BY <1>7 DEF Handshake, AntennaInv, CallsPlaced, NothingStale
  <2>3. /\ r \in CallRecord /\ (r.at # "idle" => r.conf = call[c].conf)
        /\ r.at = "dead" => call[c].conf.terminal \in gone
        /\ r.at \in {"session", "post"} => r.session.terminal = call[c].conf.terminal
    <3>1. CASE Gone(call[c].conf.terminal) /\ r = [call[c] EXCEPT !.at = "dead"]
      BY <3>1, CallHas DEF Gone, CallRecord, CallStages
    <3>2. CASE r = Quiet
      BY <3>2, QuietCall
    <3>3. CASE /\ Accepts(call[c].conf)
               /\ r = [call[c] EXCEPT !.at = "session",
                          !.session = [terminal |-> call[c].conf.terminal, epoch |-> epoch]]
      <4>1. [terminal |-> call[c].conf.terminal, epoch |-> epoch] \in Session
        BY <3>3 DEF Accepts, Session, AntennaInv, AntennaTypeOK
      <4> QED BY <3>3, <4>1, CallHas DEF CallRecord, CallStages
    <3> QED BY <2>1, <3>1, <3>2, <3>3
  <2>4. call' \in [Callers -> CallRecord] /\ CallsPlaced' /\ NothingStale'
    BY <2>1, <2>2, <2>3, CallGoes
  <2>5. AntennaTypeOK'
    BY <1>7, <2>4 DEF Handshake, AntennaInv, AntennaTypeOK, CallRecord, CallStages
  <2>6. AntennaHolds'
    BY <2>2 DEF AntennaInv, AntennaHolds, DeadIsGone, ReachesConfigured
  <2> QED BY <2>4, <2>5, <2>6 DEF AntennaInv
<1>8. ASSUME NEW c \in Callers, MarkDead(c) PROVE AntennaInv'
  <2>1. /\ call[c].conf.terminal \in gone /\ (swapped \/ call[c].conf = conf)
        /\ UNCHANGED <<conf, gone, swapped, session, strayed, saving>>
        /\ swapped \/ session' # NoSession => swapped \/ session'.terminal = conf.terminal
        /\ call' = [call EXCEPT ![c] = Quiet] /\ dead' = TRUE
    BY <1>8 DEF MarkDead, AntennaInv, CallsPlaced, NothingStale
  <2>2. Quiet \in CallRecord /\ Quiet.at = "idle"
    BY QuietCall
  <2>3. call' \in [Callers -> CallRecord] /\ CallsPlaced' /\ NothingStale'
    BY <2>1, <2>2, CallGoes
  <2>4. AntennaTypeOK'
    BY <1>8, <2>3 DEF MarkDead, AntennaInv, AntennaTypeOK, CallRecord, CallStages
  <2>5. AntennaHolds'
    BY <2>1 DEF AntennaInv, AntennaHolds, DeadIsGone, ReachesConfigured
  <2> QED BY <2>3, <2>4, <2>5 DEF AntennaInv
<1>9. ASSUME NEW c \in Callers, UpdateSession(c) PROVE AntennaInv'
  <2> DEFINE r == [call[c] EXCEPT !.at = "post"]
  <2>1. /\ r \in CallRecord /\ r.at = "post" /\ r.conf = call[c].conf /\ r.session = call[c].session
    BY CallHas DEF CallRecord, CallStages
  <2>2. /\ call' = [call EXCEPT ![c] = r] /\ session' = call[c].session
        /\ UNCHANGED <<conf, gone, swapped, dead, strayed, saving>>
    BY <1>9 DEF UpdateSession
  <2>3. /\ swapped \/ call[c].conf = conf
        /\ swapped \/ call[c].session.terminal = conf.terminal
    BY <1>9 DEF UpdateSession, AntennaInv, CallsPlaced, NothingStale
  <2> HIDE DEF r
  <2>4. call' \in [Callers -> CallRecord] /\ CallsPlaced' /\ NothingStale'
    BY <2>1, <2>2, <2>3, CallGoes
  <2>5. AntennaTypeOK'
    BY <1>9, <2>2, <2>4, CallHas DEF UpdateSession, AntennaInv, AntennaTypeOK, CallRecord, CallStages
  <2>6. AntennaHolds'
    BY <2>2 DEF AntennaInv, AntennaHolds, DeadIsGone, ReachesConfigured
  <2> QED BY <2>4, <2>5, <2>6 DEF AntennaInv
<1>10. ASSUME NEW c \in Callers, PostMessage(c) PROVE AntennaInv'
  <2> DEFINE s == call[c].session
             known == s.epoch = epoch /\ s.terminal \notin gone
             r == IF known THEN Quiet ELSE Renew(c)
  <2>1. /\ call[c].at = "post" /\ (swapped \/ call[c].conf = conf)
        /\ swapped \/ s.terminal = conf.terminal
        /\ swapped \/ session' # NoSession => swapped \/ session'.terminal = conf.terminal
        /\ UNCHANGED <<conf, gone, swapped, dead, session, saving>>
    BY <1>10 DEF PostMessage, AntennaInv, CallsPlaced, NothingStale
  <2>2. r \in {Quiet, [call[c] EXCEPT !.at = "shake", !.again = TRUE]}
    BY DEF Renew
  <2>3. /\ r \in CallRecord /\ (r.at # "idle" => r.conf = call[c].conf) /\ r.at \in {"idle", "shake"}
    <3> HIDE DEF r
    <3>1. CASE r = Quiet
      BY <3>1, QuietCall
    <3>2. CASE r = [call[c] EXCEPT !.at = "shake", !.again = TRUE]
      <4>1. r = [at |-> "shake", conf |-> call[c].conf, session |-> call[c].session, again |-> TRUE]
        BY <3>2, CallHas DEF CallRecord
      <4> QED BY <4>1, CallHas DEF CallRecord, CallStages
    <3> QED BY <2>2, <3>1, <3>2
  <2>4. /\ call' = [call EXCEPT ![c] = r]
        /\ strayed' = (strayed \/ (known /\ s.terminal \notin deaf /\ s.terminal # call[c].conf.terminal))
    BY <1>10 DEF PostMessage
  <2>5. strayed' \in BOOLEAN
    BY <2>4, Zenon DEF AntennaInv, AntennaTypeOK
  <2>6. swapped \/ (strayed' => strayed)
    BY <2>1, <2>4
  <2> HIDE DEF r
  <2>7. call' \in [Callers -> CallRecord] /\ CallsPlaced' /\ NothingStale'
    BY <2>1, <2>3, <2>4, CallGoes
  <2>8. AntennaTypeOK'
    BY <1>10, <2>5, <2>7 DEF PostMessage, AntennaInv, AntennaTypeOK, CallRecord, CallStages
  <2>9. AntennaHolds'
    BY <2>1, <2>6 DEF AntennaInv, AntennaHolds, DeadIsGone, ReachesConfigured
  <2> QED BY <2>7, <2>8, <2>9 DEF AntennaInv
<1>11. CASE Forget
  <2>1. AntennaTypeOK'
    BY <1>11 DEF Forget, AntennaInv, AntennaTypeOK
  <2> QED BY <1>11, <2>1, AntennaUntouched DEF Forget, AntennaInv
<1>12. ASSUME NEW t \in Terminals, Vanish(t) \/ Switch(t) PROVE AntennaInv'
  <2>0. issue \in [Terminals -> 0 .. MaxSwitches]
    BY DEF AntennaInv, AntennaTypeOK
  <2>3. issue' \in [Terminals -> 0 .. MaxSwitches]
    BY <1>12, <2>0 DEF Vanish, Switch
  <2>1. AntennaTypeOK'
    BY <1>12, <2>3 DEF Vanish, Switch, AntennaInv, AntennaTypeOK
  <2>2. gone \subseteq gone'
    BY <1>12 DEF Vanish, Switch
  <2> QED BY <1>12, <2>1, <2>2, AntennaUntouched DEF Vanish, Switch, AntennaInv
<1>13. CASE UNCHANGED antennaVars
  <2>1. AntennaTypeOK'
    BY <1>13 DEF antennaVars, AntennaInv, AntennaTypeOK
  <2> QED BY <1>13, <2>1, AntennaUntouched DEF antennaVars, AntennaInv
<1>14. /\ Cleared \in Confs
       /\ \A t \in Terminals : \A n \in 0 .. issue[t] : Card(t, n) \in Confs
  BY CardConf DEF AntennaInv, AntennaTypeOK
<1> QED
  BY <1>1, <1>2, <1>3, <1>4, <1>5, <1>6, <1>7, <1>8, <1>9, <1>10, <1>11, <1>12, <1>13, <1>14
  DEF AntennaNext, CallStep

LEMMA AntennaInvariant == AntennaSpec => []AntennaInv
BY AntennaInitInv, AntennaStepInv, PTL DEF AntennaSpec

\* Types of the antenna and of the calls under way (CleverInjector).
THEOREM AntennaTypes == AntennaSpec => []AntennaTypeOK
<1>1. AntennaInv => AntennaTypeOK
  BY DEF AntennaInv
<1> QED BY <1>1, AntennaInvariant, PTL

\* An antenna is given up only when its terminal is gone, and a dispatch reaches
\* the terminal that is configured, but for one configured under a call (Inject).
THEOREM AntennaStands == AntennaSpec => []AntennaHolds
<1>1. AntennaInv => AntennaHolds
  BY DEF AntennaInv
<1> QED BY <1>1, AntennaInvariant, PTL

-----------------------------------------------------------------------------
(* Limits of a client (FloodGuard). *)

GuardEntry ==
    [seen : -1 .. MaxTicks, general : 0 .. RatePerMin, generalAt : 0 .. MaxTicks,
     emit : 0 .. EmitRatePerMin, emitAt : 0 .. MaxTicks, hits : 0 .. BlockThreshold,
     until : 0 .. MaxTicks + BlockCooldown]

\* An entry was seen no earlier than its buckets were used.
EntryOK(e) == e = NoEntry \/ (e.seen \in 0 .. tick /\ e.generalAt <= e.seen /\ e.emitAt <= e.seen)

EntriesOK == \A c \in Clients : EntryOK(entry[c])

\* Nothing is let through in ticks to come.
NothingAhead ==
    \A c \in Clients : \A t \in 0 .. MaxTicks : t >= tick => emitted[c][t] = emitted[c][tick]

\* What was let through since any tick and the tokens there are now are
\* together no more than one burst and what grew back.
TokensLeft ==
    \A c \in Clients : \A from \in 0 .. tick :
        Between(c, from, tick) + Emit(entry[c]) <= EmitRatePerMin + (tick - from)

\* The entry of a blocked client says so, and is young enough to be kept.
BlockKept ==
    \A c \in Clients : tick < release[c] =>
        entry[c].until = release[c] /\ entry[c].seen >= release[c] - BlockCooldown

GuardInv ==
    FloodGuardTypeOK /\ EntriesOK /\ NothingAhead /\ TokensLeft /\ EmitsPaced /\ BlockKept

LEMMA RefilledFacts ==
    ASSUME NEW max \in Nat, NEW tokens \in 0 .. max, NEW grown \in Nat
    PROVE  /\ Refilled(tokens, grown, max) \in 0 .. max
           /\ Refilled(tokens, grown + 1, max) <= Refilled(tokens, grown, max) + 1
           /\ Refilled(tokens, 0, max) = tokens
           /\ grown >= max => Refilled(tokens, grown, max) = max
BY DEF Refilled

LEMMA ProductNat ==
    ASSUME NEW a \in Nat, NEW b \in Nat
    PROVE  a * b \in Nat
OBVIOUS

LEMMA RefillRateNat == RatePerMin \div EmitRatePerMin \in Nat
BY FloodGuardAssumption

LEMMA NoEntryHas ==
    /\ NoEntry \in GuardEntry /\ NoEntry.emit = EmitRatePerMin /\ NoEntry.emitAt = 0
    /\ NoEntry.generalAt = 0 /\ NoEntry.seen = -1
BY FloodGuardAssumption DEF NoEntry, GuardEntry

\* The tokens of an entry.
LEMMA EntryTokens ==
    ASSUME tick \in 0 .. MaxTicks, NEW e \in GuardEntry, EntryOK(e)
    PROVE  /\ General(e) \in 0 .. RatePerMin
           /\ Emit(e) \in 0 .. EmitRatePerMin
           /\ tick - e.emitAt \in Nat
<1>1. e.generalAt \in Nat /\ e.emitAt \in Nat /\ tick \in Nat /\ MaxTicks \in Nat
  BY FloodGuardAssumption DEF GuardEntry
<1>2. tick - e.generalAt \in Nat /\ tick - e.emitAt \in Nat
  <2>1. CASE e = NoEntry
    BY <2>1, <1>1, NoEntryHas
  <2>2. CASE e.seen \in 0 .. tick /\ e.generalAt <= e.seen /\ e.emitAt <= e.seen
    BY <2>2, <1>1
  <2> QED BY <2>1, <2>2 DEF EntryOK
<1>3. (tick - e.generalAt) * (RatePerMin \div EmitRatePerMin) \in Nat
  BY <1>2, RefillRateNat, ProductNat
<1>4. e.general \in 0 .. RatePerMin /\ e.emit \in 0 .. EmitRatePerMin
  BY DEF GuardEntry
<1>5. General(e) \in 0 .. RatePerMin
  <2>1. PICK grown \in Nat : grown = (tick - e.generalAt) * (RatePerMin \div EmitRatePerMin)
    BY <1>3
  <2>2. Refilled(e.general, grown, RatePerMin) \in 0 .. RatePerMin
    BY <1>4, RefilledFacts, FloodGuardAssumption
  <2> QED BY <2>1, <2>2 DEF General
<1>6. Emit(e) \in 0 .. EmitRatePerMin
  <2>1. PICK grown \in Nat : grown = tick - e.emitAt
    BY <1>2
  <2>2. Refilled(e.emit, grown, EmitRatePerMin) \in 0 .. EmitRatePerMin
    BY <1>4, RefilledFacts, FloodGuardAssumption
  <2> QED BY <2>1, <2>2 DEF Emit
<1> QED BY <1>2, <1>5, <1>6

\* Forgetting an idle client gives it nothing: its bucket was full.
LEMMA SweptFacts ==
    ASSUME GuardInv, NEW c \in Clients
    PROVE  /\ Swept(c) \in GuardEntry /\ EntryOK(Swept(c))
           /\ Emit(Swept(c)) = Emit(entry[c])
           /\ tick < release[c] => Swept(c) = entry[c]
<1> USE FloodGuardAssumption
<1>1. tick \in 0 .. MaxTicks /\ tick \in Nat /\ entry[c] \in GuardEntry /\ EntryOK(entry[c])
  BY DEF GuardInv, FloodGuardTypeOK, EntriesOK, GuardEntry
<1>2. CASE entry[c].seen >= 0 /\ LongIdle(entry[c])
  <2>1. Swept(c) = NoEntry
    BY <1>2 DEF Swept
  <2>2. EntryOK(NoEntry)
    BY DEF EntryOK
  <2>3. Emit(NoEntry) = EmitRatePerMin
    <3>1. tick - NoEntry.emitAt \in Nat /\ NoEntry.emit = EmitRatePerMin
      BY <1>1, NoEntryHas
    <3> QED BY <3>1 DEF Emit, Refilled
  <2>4. Emit(entry[c]) = EmitRatePerMin
    <3>1. entry[c].seen \in Int /\ entry[c].emitAt \in Nat /\ entry[c].emitAt <= entry[c].seen
      BY <1>1, <1>2, NoEntryHas DEF EntryOK, GuardEntry
    <3>2. tick - entry[c].emitAt \in Nat /\ tick - entry[c].emitAt >= EmitRatePerMin
      BY <1>1, <1>2, <3>1 DEF LongIdle
    <3>3. entry[c].emit \in 0 .. EmitRatePerMin
      BY <1>1 DEF GuardEntry
    <3>4. PICK grown \in Nat : grown = tick - entry[c].emitAt /\ grown >= EmitRatePerMin
      BY <3>2
    <3>5. Refilled(entry[c].emit, grown, EmitRatePerMin) = EmitRatePerMin
      <4>1. PICK t \in 0 .. EmitRatePerMin : t = entry[c].emit
        BY <3>3
      <4>2. t + grown >= EmitRatePerMin
        BY <3>4
      <4> QED BY <4>1, <4>2, <3>4 DEF Refilled
    <3> QED BY <3>4, <3>5 DEF Emit
  <2>5. ~(tick < release[c])
    <3>1. release[c] \in Nat /\ entry[c].seen \in Int
      BY <1>1 DEF GuardInv, FloodGuardTypeOK, GuardEntry
    <3>2. tick < release[c] => entry[c].seen >= release[c] - BlockCooldown
      BY DEF GuardInv, BlockKept
    <3> QED BY <3>1, <3>2, <1>1, <1>2 DEF LongIdle
  <2> QED BY <2>1, <2>2, <2>3, <2>4, <2>5, NoEntryHas
<1>3. CASE ~(entry[c].seen >= 0 /\ LongIdle(entry[c]))
  BY <1>1, <1>3 DEF Swept
<1> QED BY <1>2, <1>3

LEMMA GuardInitInv == FloodGuardInit => GuardInv
<1> SUFFICES ASSUME FloodGuardInit PROVE GuardInv
  OBVIOUS
<1> USE FloodGuardAssumption DEF FloodGuardInit
<1>1. FloodGuardTypeOK
  BY NoEntryHas DEF FloodGuardTypeOK, GuardEntry
<1>2. EntriesOK /\ NothingAhead /\ EmitsPaced /\ BlockKept
  BY DEF EntriesOK, EntryOK, NothingAhead, EmitsPaced, Between, BlockKept
<1>3. TokensLeft
  <2>1. tick \in 0 .. MaxTicks /\ EntryOK(NoEntry)
    BY DEF EntryOK
  <2>2. Emit(NoEntry) \in 0 .. EmitRatePerMin
    BY <2>1, NoEntryHas, EntryTokens
  <2> QED BY <2>2 DEF TokensLeft, Between
<1> QED BY <1>1, <1>2, <1>3 DEF GuardInv
-----------------------------------------------------------------------------
LEMMA TickInv ==
    ASSUME GuardInv, Tick
    PROVE  GuardInv'
<1> USE FloodGuardAssumption
<1>1. /\ tick < MaxTicks /\ tick' = tick + 1 /\ UNCHANGED <<entry, emitted, release>>
      /\ tick \in 0 .. MaxTicks /\ tick \in Nat
  BY DEF Tick, GuardInv, FloodGuardTypeOK
<1>2. FloodGuardTypeOK'
  BY <1>1 DEF GuardInv, FloodGuardTypeOK
<1>3. EntriesOK'
  BY <1>1 DEF GuardInv, EntriesOK, EntryOK
<1>4. NothingAhead'
  BY <1>1 DEF GuardInv, NothingAhead
<1>5. EmitsPaced'
  BY <1>1 DEF GuardInv, EmitsPaced, Between
<1>6. BlockKept'
  <2>1. \A c \in Clients : tick' < release[c] => tick < release[c]
    BY <1>1 DEF GuardInv, FloodGuardTypeOK
  <2> QED BY <1>1, <2>1 DEF GuardInv, BlockKept
<1>7. TokensLeft'
  <2> SUFFICES ASSUME NEW c \in Clients, NEW from \in 0 .. tick'
               PROVE  Between(c, from, tick)' + Emit(entry[c])' <= EmitRatePerMin + (tick' - from)
    BY DEF TokensLeft
  <2> DEFINE e == entry[c]
  <2>1. e \in GuardEntry /\ EntryOK(e) /\ e.emit \in 0 .. EmitRatePerMin
    BY DEF GuardInv, FloodGuardTypeOK, EntriesOK, GuardEntry
  <2>2. tick - e.emitAt \in Nat /\ Emit(e) \in 0 .. EmitRatePerMin /\ e.emitAt \in Nat
    BY <1>1, <2>1, EntryTokens DEF GuardEntry
  <2>3. PICK grown \in Nat : grown = tick - e.emitAt
    BY <2>2
  <2>4. PICK m \in 0 .. EmitRatePerMin : m = Refilled(e.emit, grown, EmitRatePerMin)
    BY <2>1, RefilledFacts
  <2>5. PICK p \in 0 .. EmitRatePerMin : p = Refilled(e.emit, grown + 1, EmitRatePerMin)
    <3>1. grown + 1 \in Nat
      OBVIOUS
    <3>2. Refilled(e.emit, grown + 1, EmitRatePerMin) \in 0 .. EmitRatePerMin
      BY <2>1, <3>1, RefilledFacts
    <3> QED BY <3>2
  <2>51. p <= m + 1
    BY <2>1, <2>4, <2>5, RefilledFacts
  <2>52. Emit(e) = m
    BY <2>3, <2>4 DEF Emit
  <2>53. Emit(entry[c])' = p
    <3>1. tick' - e.emitAt = grown + 1
      BY <1>1, <2>2, <2>3
    <3>2. entry' = entry
      BY <1>1
    <3> QED BY <3>1, <3>2, <2>5 DEF Emit, Refilled
  <2>6. emitted[c][tick + 1] = emitted[c][tick] /\ emitted[c] \in [0 .. MaxTicks -> Nat]
    BY <1>1 DEF GuardInv, NothingAhead, FloodGuardTypeOK
  <2>7. CASE from \in 0 .. tick
    <3>1. Between(c, from, tick) + Emit(e) <= EmitRatePerMin + (tick - from)
      BY <2>7 DEF GuardInv, TokensLeft
    <3>2. PICK n \in Int : n = Between(c, from, tick)
      BY <1>1, <2>6, <2>7 DEF Between
    <3>3. Between(c, from, tick)' = n
      BY <3>2, <1>1, <2>6, <2>7 DEF Between
    <3>4. n + m <= EmitRatePerMin + (tick - from)
      BY <3>1, <3>2, <2>52
    <3>5. n + p <= EmitRatePerMin + (tick + 1 - from)
      BY <3>4, <2>51, <1>1, <2>7
    <3> QED BY <3>3, <3>5, <2>53, <1>1
  <2>8. CASE from = tick + 1
    <3>1. Between(c, from, tick)' = 0
      BY <1>1, <2>6, <2>8 DEF Between
    <3>2. 0 + p <= EmitRatePerMin + (tick + 1 - from)
      BY <2>8, <1>1
    <3> QED BY <3>1, <3>2, <2>53, <1>1
  <2> QED BY <2>7, <2>8, <1>1
<1> QED BY <1>2, <1>3, <1>4, <1>5, <1>6, <1>7 DEF GuardInv
-----------------------------------------------------------------------------
\* What a call makes of the entry, of the count and of the block of its
\* client: a call let through costs a token, and no other call adds one.
LEMMA CheckFacts ==
    ASSUME GuardInv, NEW c \in Clients, NEW emits \in BOOLEAN, Check(c, emits)
    PROVE  /\ entry'[c] \in GuardEntry /\ EntryOK(entry'[c])
           /\ \A d \in Clients : d # c => entry'[d] = Swept(d)
           /\ entry' \in [Clients -> GuardEntry]
           /\ release' \in [Clients -> 0 .. MaxTicks + BlockCooldown]
           /\ \A d \in Clients : d # c => release'[d] = release[d]
           /\ tick < release'[c] =>
                 entry'[c].until = release'[c] /\ entry'[c].seen >= release'[c] - BlockCooldown
           /\ \E spent \in {0, 1} :
                 /\ Emit(entry'[c]) = Emit(entry[c]) - spent
                 /\ emitted' = [emitted EXCEPT ![c] = [t \in 0 .. MaxTicks |->
                                   emitted[c][t] + (IF t >= tick THEN spent ELSE 0)]]
                 /\ tick < release[c] => spent = 0
<1> USE FloodGuardAssumption
<1> DEFINE e == Swept(c)
           seen == [e EXCEPT !.seen = tick]
           blocked == tick < e.until
           ok == General(e) >= 1
           spent == [seen EXCEPT !.general = IF ok THEN General(e) - 1 ELSE General(e),
                                 !.generalAt = tick]
           sent == [spent EXCEPT !.emit = IF Emit(e) >= 1 THEN Emit(e) - 1 ELSE Emit(e),
                                 !.emitAt = tick]
           after == IF ok /\ emits THEN sent ELSE spent
           allowed == ok /\ (emits => Emit(e) >= 1)
           tripped == e.hits + 1 >= BlockThreshold
           grown == CASE blocked -> seen
                    [] ~blocked /\ allowed -> [after EXCEPT !.hits = 0]
                    [] ~blocked /\ ~allowed /\ tripped ->
                          [after EXCEPT !.hits = 0, !.until = tick + BlockCooldown]
                    [] OTHER -> [after EXCEPT !.hits = @ + 1]
<1>1. /\ entry' = [d \in Clients |-> IF d = c THEN grown ELSE Swept(d)]
      /\ emitted' = IF ~blocked /\ allowed /\ emits
                    THEN [emitted EXCEPT ![c] = [t \in 0 .. MaxTicks |->
                             emitted[c][t] + (IF t >= tick THEN 1 ELSE 0)]]
                    ELSE emitted
      /\ release' = IF ~blocked /\ ~allowed /\ tripped
                    THEN [release EXCEPT ![c] = grown.until] ELSE release
      /\ tick' = tick
  BY DEF Check
<1>2. /\ tick \in 0 .. MaxTicks /\ tick \in Nat /\ e \in GuardEntry /\ EntryOK(e)
      /\ Emit(e) = Emit(entry[c]) /\ (tick < release[c] => e = entry[c])
      /\ release \in [Clients -> 0 .. MaxTicks + BlockCooldown]
      /\ emitted \in [Clients -> [0 .. MaxTicks -> Nat]]
  <2>1. Swept(c) \in GuardEntry /\ EntryOK(Swept(c)) /\ Emit(Swept(c)) = Emit(entry[c])
        /\ (tick < release[c] => Swept(c) = entry[c])
    BY SweptFacts
  <2> HIDE DEF grown, after, seen, spent, sent, tripped, allowed, blocked, ok
  <2>2. tick \in 0 .. MaxTicks /\ tick \in Nat
    BY DEF GuardInv, FloodGuardTypeOK
  <2>3. release \in [Clients -> 0 .. MaxTicks + BlockCooldown]
    BY DEF GuardInv, FloodGuardTypeOK
  <2>4. emitted \in [Clients -> [0 .. MaxTicks -> Nat]]
    BY DEF GuardInv, FloodGuardTypeOK
  <2> QED BY <2>1, <2>2, <2>3, <2>4
<1>3. General(e) \in 0 .. RatePerMin /\ Emit(e) \in 0 .. EmitRatePerMin
  BY <1>2, EntryTokens
<1>4. PICK g \in 0 .. RatePerMin : g = IF ok THEN General(e) - 1 ELSE General(e)
  BY <1>3
<1>5. PICK m \in 0 .. EmitRatePerMin : m = IF Emit(e) >= 1 THEN Emit(e) - 1 ELSE Emit(e)
  BY <1>3
<1>6. /\ seen = [seen |-> tick, general |-> e.general, generalAt |-> e.generalAt, emit |-> e.emit,
                 emitAt |-> e.emitAt, hits |-> e.hits, until |-> e.until]
      /\ e.general \in 0 .. RatePerMin /\ e.generalAt \in 0 .. MaxTicks
      /\ e.emit \in 0 .. EmitRatePerMin /\ e.emitAt \in 0 .. MaxTicks
      /\ e.hits \in 0 .. BlockThreshold /\ e.until \in 0 .. MaxTicks + BlockCooldown
      /\ e.generalAt <= tick /\ e.emitAt <= tick
  <2>1. seen = [e EXCEPT !.seen = tick]
    OBVIOUS
  <2> HIDE DEF e, grown, after, seen, spent, sent, tripped, allowed, blocked, ok
  <2>2. e.generalAt <= tick /\ e.emitAt <= tick
    <3>1. CASE e = NoEntry
      BY <3>1, <1>2, NoEntryHas
    <3>2. CASE e.seen \in 0 .. tick /\ e.generalAt <= e.seen /\ e.emitAt <= e.seen
      BY <3>2, <1>2 DEF GuardEntry
    <3> QED BY <3>1, <3>2, <1>2 DEF EntryOK
  <2>3. /\ e.general \in 0 .. RatePerMin /\ e.generalAt \in 0 .. MaxTicks
        /\ e.emit \in 0 .. EmitRatePerMin /\ e.emitAt \in 0 .. MaxTicks
        /\ e.hits \in 0 .. BlockThreshold /\ e.until \in 0 .. MaxTicks + BlockCooldown
    BY <1>2 DEF GuardEntry
  <2>4. seen = [seen |-> tick, general |-> e.general, generalAt |-> e.generalAt, emit |-> e.emit,
                emitAt |-> e.emitAt, hits |-> e.hits, until |-> e.until]
    BY <2>1, <1>2 DEF GuardEntry
  <2> QED BY <2>2, <2>3, <2>4
<1>7. spent = [seen |-> tick, general |-> g, generalAt |-> tick, emit |-> e.emit,
               emitAt |-> e.emitAt, hits |-> e.hits, until |-> e.until]
  <2>1. spent = [seen EXCEPT !.general = g, !.generalAt = tick]
    BY <1>4
  <2> HIDE DEF spent, seen, e
  <2> QED BY <2>1, <1>6
<1>8. sent = [seen |-> tick, general |-> g, generalAt |-> tick, emit |-> m,
              emitAt |-> tick, hits |-> e.hits, until |-> e.until]
  <2>1. sent = [spent EXCEPT !.emit = m, !.emitAt = tick]
    BY <1>5
  <2> HIDE DEF spent, sent, e
  <2> QED BY <2>1, <1>7
<1>9. PICK em \in 0 .. EmitRatePerMin, at \in 0 .. MaxTicks :
        /\ after = [seen |-> tick, general |-> g, generalAt |-> tick, emit |-> em,
                    emitAt |-> at, hits |-> e.hits, until |-> e.until]
        /\ at <= tick
        /\ ok /\ emits => em = m /\ at = tick
        /\ ~(ok /\ emits) => em = e.emit /\ at = e.emitAt
  <2>1. CASE ok /\ emits
    <3>1. after = sent
      BY <2>1
    <3> HIDE DEF after, sent, ok, e
    <3> QED BY <2>1, <3>1, <1>2, <1>8
  <2>2. CASE ~(ok /\ emits)
    <3>1. after = spent
      BY <2>2
    <3> HIDE DEF after, spent, ok, e
    <3> QED BY <2>2, <3>1, <1>6, <1>7
  <2> QED BY <2>1, <2>2
<1>10. /\ blocked => grown = seen
       /\ ~blocked /\ allowed => grown = [after EXCEPT !.hits = 0]
       /\ ~blocked /\ ~allowed /\ tripped =>
             grown = [after EXCEPT !.hits = 0, !.until = tick + BlockCooldown]
       /\ ~blocked /\ ~allowed /\ ~tripped => grown = [after EXCEPT !.hits = @ + 1]
  OBVIOUS
<1>11. tripped <=> e.hits + 1 >= BlockThreshold
  OBVIOUS
<1>12. allowed <=> ok /\ (emits => Emit(e) >= 1)
  OBVIOUS
<1>13. blocked <=> tick < e.until
  OBVIOUS
<1> HIDE DEF grown, after, seen, spent, sent, tripped, allowed, blocked, ok, e
<1>14. /\ grown.seen = tick /\ grown \in GuardEntry
       /\ grown.generalAt <= tick /\ grown.emitAt <= tick
       /\ blocked \/ ~(ok /\ emits) => grown.emit = e.emit /\ grown.emitAt = e.emitAt
       /\ ~blocked /\ ok /\ emits => grown.emit = m /\ grown.emitAt = tick
       /\ ~blocked /\ ~allowed /\ tripped => grown.until = tick + BlockCooldown
       /\ ~(~blocked /\ ~allowed /\ tripped) => grown.until = e.until
  <2>1. CASE blocked
    BY <2>1, <1>2, <1>6, <1>10 DEF GuardEntry
  <2>2. CASE ~blocked /\ allowed
    <3>1. grown = [seen |-> tick, general |-> g, generalAt |-> tick, emit |-> em,
                 emitAt |-> at, hits |-> 0, until |-> e.until]
      BY <2>2, <1>9, <1>10
    <3> QED BY <2>2, <3>1, <1>2, <1>6, <1>9 DEF GuardEntry
  <2>3. CASE ~blocked /\ ~allowed /\ tripped
    <3>1. grown = [seen |-> tick, general |-> g, generalAt |-> tick, emit |-> em,
                 emitAt |-> at, hits |-> 0, until |-> tick + BlockCooldown]
      BY <2>3, <1>9, <1>10
    <3>2. tick + BlockCooldown \in 0 .. MaxTicks + BlockCooldown
      BY <1>2
    <3> QED BY <2>3, <3>1, <3>2, <1>2, <1>6, <1>9 DEF GuardEntry
  <2>4. CASE ~blocked /\ ~allowed /\ ~tripped
    <3>1. grown = [seen |-> tick, general |-> g, generalAt |-> tick, emit |-> em,
                 emitAt |-> at, hits |-> e.hits + 1, until |-> e.until]
      BY <2>4, <1>9, <1>10
    <3>2. e.hits + 1 \in 0 .. BlockThreshold
      BY <2>4, <1>6, <1>11
    <3>3. grown \in GuardEntry
      BY <3>1, <3>2, <1>2, <1>6, <1>9 DEF GuardEntry
    <3>4. grown.seen = tick /\ grown.generalAt = tick /\ grown.emit = em /\ grown.emitAt = at
          /\ grown.until = e.until
      BY <3>1
    <3> QED BY <2>4, <3>3, <3>4, <1>2, <1>9
  <2> QED BY <2>1, <2>2, <2>3, <2>4
<1>15. entry'[c] = grown /\ (\A d \in Clients : d # c => entry'[d] = Swept(d))
  BY <1>1
<1>16. EntryOK(grown)
  BY <1>2, <1>14 DEF EntryOK
<1>17. entry' \in [Clients -> GuardEntry]
  BY <1>1, <1>14, SweptFacts
<1>18. /\ release' \in [Clients -> 0 .. MaxTicks + BlockCooldown]
       /\ \A d \in Clients : d # c => release'[d] = release[d]
       /\ ~blocked /\ ~allowed /\ tripped => release'[c] = grown.until
       /\ ~(~blocked /\ ~allowed /\ tripped) => release'[c] = release[c]
  <2>1. grown.until \in 0 .. MaxTicks + BlockCooldown
    BY <1>14 DEF GuardEntry
  <2> QED BY <1>1, <1>2, <2>1
<1>19. tick < release'[c] => grown.until = release'[c] /\ grown.seen >= release'[c] - BlockCooldown
  <2>1. CASE ~blocked /\ ~allowed /\ tripped
    BY <2>1, <1>2, <1>14, <1>18
  <2>2. CASE ~(~blocked /\ ~allowed /\ tripped)
    <3> SUFFICES ASSUME tick < release[c]
                 PROVE  grown.until = release[c] /\ grown.seen >= release[c] - BlockCooldown
      BY <2>2, <1>18
    <3>1. entry[c].until = release[c] /\ entry[c].seen >= release[c] - BlockCooldown /\ e = entry[c]
      BY <1>2 DEF GuardInv, BlockKept
    <3>2. e.seen <= tick /\ e.seen \in Int /\ release[c] \in Nat
      BY <1>2, NoEntryHas DEF EntryOK, GuardEntry
    <3> QED BY <2>2, <3>1, <3>2, <1>2, <1>14
  <2> QED BY <2>1, <2>2
<1>20. \E cost \in {0, 1} :
          /\ Emit(grown) = Emit(entry[c]) - cost
          /\ emitted' = [emitted EXCEPT ![c] = [t \in 0 .. MaxTicks |->
                            emitted[c][t] + (IF t >= tick THEN cost ELSE 0)]]
          /\ tick < release[c] => cost = 0
  <2>0. tick < release[c] => blocked
    BY <1>2, <1>13 DEF GuardInv, BlockKept
  <2>1. CASE ~blocked /\ allowed /\ emits
    <3>1. grown.emit = m /\ grown.emitAt = tick /\ Emit(e) >= 1
      BY <2>1, <1>12, <1>14
    <3>2. Emit(grown) = m /\ m = Emit(e) - 1
      BY <3>1, <1>2, <1>5, RefilledFacts DEF Emit
    <3>3. emitted' = [emitted EXCEPT ![c] = [t \in 0 .. MaxTicks |->
                         emitted[c][t] + (IF t >= tick THEN 1 ELSE 0)]]
      BY <1>1, <2>1
    <3> QED BY <2>0, <2>1, <3>2, <3>3, <1>2
  <2>2. CASE ~(~blocked /\ allowed /\ emits)
    <3>1. emitted' = emitted
      BY <1>1, <2>2
    <3>2. emitted[c] = [t \in 0 .. MaxTicks |-> emitted[c][t] + (IF t >= tick THEN 0 ELSE 0)]
      BY <1>2
    <3>3. emitted' = [emitted EXCEPT ![c] = [t \in 0 .. MaxTicks |->
                         emitted[c][t] + (IF t >= tick THEN 0 ELSE 0)]]
      BY <3>1, <3>2, <1>2
    <3>4. Emit(grown) = Emit(e)
      <4>1. CASE blocked \/ ~(ok /\ emits)
        BY <4>1, <1>14 DEF Emit
      <4>2. CASE ~blocked /\ ok /\ emits
        <5>1. grown.emit = m /\ grown.emitAt = tick /\ ~(Emit(e) >= 1)
          BY <4>2, <2>2, <1>12, <1>14
        <5>2. Emit(grown) = m /\ m = Emit(e)
          BY <5>1, <1>2, <1>5, RefilledFacts DEF Emit
        <5> QED BY <5>2
      <4> QED BY <4>1, <4>2
    <3>5. Emit(grown) = Emit(entry[c]) - 0
      BY <3>4, <1>2, <1>3
    <3> QED BY <3>3, <3>5
  <2> QED BY <2>1, <2>2
<1> QED BY <1>14, <1>15, <1>16, <1>17, <1>18, <1>19, <1>20

LEMMA CheckInv ==
    ASSUME GuardInv, NEW c \in Clients, NEW emits \in BOOLEAN, Check(c, emits)
    PROVE  GuardInv'
<1> USE FloodGuardAssumption
<1>1. tick' = tick /\ tick \in 0 .. MaxTicks /\ tick \in Nat
      /\ emitted \in [Clients -> [0 .. MaxTicks -> Nat]]
  BY DEF Check, GuardInv, FloodGuardTypeOK
<1>2. PICK cost \in {0, 1} :
         /\ Emit(entry'[c]) = Emit(entry[c]) - cost
         /\ emitted' = [emitted EXCEPT ![c] = [t \in 0 .. MaxTicks |->
                           emitted[c][t] + (IF t >= tick THEN cost ELSE 0)]]
  BY CheckFacts
<1>3. /\ emitted' \in [Clients -> [0 .. MaxTicks -> Nat]]
      /\ \A d \in Clients : d # c => emitted'[d] = emitted[d]
      /\ \A t \in 0 .. MaxTicks : emitted'[c][t] = emitted[c][t] + (IF t >= tick THEN cost ELSE 0)
  <2> DEFINE f == [t \in 0 .. MaxTicks |-> emitted[c][t] + (IF t >= tick THEN cost ELSE 0)]
  <2>1. f \in [0 .. MaxTicks -> Nat]
    BY <1>1
  <2>2. \A t \in 0 .. MaxTicks : f[t] = emitted[c][t] + (IF t >= tick THEN cost ELSE 0)
    OBVIOUS
  <2>3. emitted' = [emitted EXCEPT ![c] = f]
    BY <1>2
  <2> HIDE DEF f
  <2> QED BY <2>1, <2>2, <2>3, <1>1
<1>4. FloodGuardTypeOK'
  BY <1>1, <1>3, CheckFacts DEF FloodGuardTypeOK, GuardEntry
<1>5. EntriesOK'
  <2> SUFFICES ASSUME NEW d \in Clients PROVE EntryOK(entry[d])'
    BY DEF EntriesOK
  <2>1. EntryOK(entry'[d])
    BY CheckFacts, SweptFacts
  <2> QED BY <2>1, <1>1 DEF EntryOK
<1>6. NothingAhead'
  <2> SUFFICES ASSUME NEW d \in Clients, NEW t \in 0 .. MaxTicks, t >= tick
               PROVE  emitted'[d][t] = emitted'[d][tick]
    BY <1>1 DEF NothingAhead
  <2>1. emitted[d][t] = emitted[d][tick]
    BY DEF GuardInv, NothingAhead
  <2>2. CASE d = c
    <3>1. t \in 0 .. MaxTicks /\ t >= tick /\ tick \in 0 .. MaxTicks /\ tick >= tick
      BY <1>1
    <3>2. emitted'[c][t] = emitted[c][t] + (IF t >= tick THEN cost ELSE 0)
      BY <3>1, <1>3
    <3>3. emitted'[c][tick] = emitted[c][tick] + (IF tick >= tick THEN cost ELSE 0)
      BY <3>1, <1>3
    <3> QED BY <3>1, <3>2, <3>3, <2>1, <2>2
  <2>3. CASE d # c
    BY <2>3, <2>1, <1>3
  <2> QED BY <2>2, <2>3
<1>7. BlockKept'
  <2> SUFFICES ASSUME NEW d \in Clients, tick < release'[d]
               PROVE  entry'[d].until = release'[d] /\ entry'[d].seen >= release'[d] - BlockCooldown
    BY <1>1 DEF BlockKept
  <2>1. CASE d = c
    BY <2>1, CheckFacts
  <2>2. CASE d # c
    <3>1. release'[d] = release[d] /\ entry'[d] = Swept(d)
      BY <2>2, CheckFacts
    <3>2. Swept(d) = entry[d]
      BY <3>1, SweptFacts
    <3> QED BY <3>1, <3>2 DEF GuardInv, BlockKept
  <2> QED BY <2>1, <2>2
\* The tokens and the count of every client move together.
<1>8. ASSUME NEW d \in Clients, NEW from \in 0 .. tick
      PROVE  /\ Between(d, from, tick)' + Emit(entry'[d]) <= EmitRatePerMin + (tick - from)
             /\ Between(d, from, tick)' \in Int /\ Emit(entry'[d]) \in Nat
  <2>1. PICK n \in Int, m \in Nat :
           /\ n = Between(d, from, tick) /\ m = Emit(entry[d])
           /\ n + m <= EmitRatePerMin + (tick - from)
    <3>1. Between(d, from, tick) \in Int
      BY <1>1 DEF Between
    <3>2. Emit(entry[d]) \in Nat
      BY <1>1, EntryTokens DEF GuardInv, FloodGuardTypeOK, EntriesOK, GuardEntry
    <3>3. Between(d, from, tick) + Emit(entry[d]) <= EmitRatePerMin + (tick - from)
      BY DEF GuardInv, TokensLeft
    <3> QED BY <3>1, <3>2, <3>3
  <2>2. CASE d = c
    <3>1. Emit(entry'[c]) = m - cost
      BY <2>1, <2>2, <1>2
    <3>2. Between(d, from, tick)' = n + cost
      <4>1. emitted'[c][tick] = emitted[c][tick] + cost
        BY <1>1, <1>3
      <4>2. CASE from = 0
        <5>1. n = emitted[c][tick] - 0
          BY <4>2, <2>1, <2>2 DEF Between
        <5>2. Between(d, from, tick)' = emitted'[c][tick] - 0
          BY <4>2, <2>2, <1>1 DEF Between
        <5> QED BY <5>1, <5>2, <4>1, <1>1
      <4>3. CASE from # 0
        <5>1. from - 1 \in 0 .. MaxTicks /\ ~(from - 1 >= tick)
          BY <4>3, <1>1
        <5>2. emitted'[c][from - 1] = emitted[c][from - 1] + 0
          BY <5>1, <1>3
        <5>3. n = emitted[c][tick] - emitted[c][from - 1]
          BY <4>3, <2>1, <2>2 DEF Between
        <5>4. Between(d, from, tick)' = emitted'[c][tick] - emitted'[c][from - 1]
          BY <4>3, <2>2, <1>1 DEF Between
        <5>5. emitted[c][tick] \in Nat /\ emitted[c][from - 1] \in Nat
          BY <5>1, <1>1
        <5> QED BY <5>2, <5>3, <5>4, <5>5, <4>1
      <4> QED BY <4>2, <4>3
    <3>3. Emit(entry'[d]) \in Nat
      BY <2>2, <1>1, EntryTokens, CheckFacts
    <3> QED BY <3>1, <3>2, <3>3, <2>1, <2>2
  <2>3. CASE d # c
    <3>1. Emit(entry'[d]) = m
      BY <2>1, <2>3, CheckFacts, SweptFacts
    <3>2. Between(d, from, tick)' = n
      BY <2>1, <2>3, <1>1, <1>3 DEF Between
    <3> QED BY <3>1, <3>2, <2>1
  <2> QED BY <2>2, <2>3
<1>9. TokensLeft'
  <2> SUFFICES ASSUME NEW d \in Clients, NEW from \in 0 .. tick
               PROVE  Between(d, from, tick)' + Emit(entry[d])' <= EmitRatePerMin + (tick - from)
    BY <1>1 DEF TokensLeft
  <2>1. Emit(entry[d])' = Emit(entry'[d])
    BY <1>1 DEF Emit
  <2> QED BY <2>1, <1>8
<1>10. EmitsPaced'
  <2> SUFFICES ASSUME NEW d \in Clients, NEW from \in 0 .. MaxTicks, NEW to \in 0 .. MaxTicks, from <= to
               PROVE  Between(d, from, to)' <= EmitRatePerMin + (to - from)
    BY DEF EmitsPaced
  <2>1. CASE to < tick
    <3>1. emitted'[d][to] = emitted[d][to]
          /\ (from # 0 => from - 1 \in 0 .. MaxTicks /\ emitted'[d][from - 1] = emitted[d][from - 1])
      <4>1. CASE d # c
        BY <4>1, <1>3
      <4>2. CASE d = c
        <5>1. \A t \in 0 .. MaxTicks : ~(t >= tick) => emitted'[c][t] = emitted[c][t]
          <6> SUFFICES ASSUME NEW t \in 0 .. MaxTicks, ~(t >= tick)
                       PROVE  emitted'[c][t] = emitted[c][t]
            OBVIOUS
          <6>1. emitted'[c][t] = emitted[c][t] + 0
            BY <1>3
          <6> QED BY <6>1, <1>1
        <5>2. ~(to >= tick) /\ (from # 0 => from - 1 \in 0 .. MaxTicks /\ ~(from - 1 >= tick))
          BY <2>1, <1>1
        <5> QED BY <5>1, <5>2, <4>2
      <4> QED BY <4>1, <4>2
    <3>2. Between(d, from, to)' = Between(d, from, to)
      BY <3>1 DEF Between
    <3> QED BY <3>2 DEF GuardInv, EmitsPaced
  <2>2. CASE to >= tick /\ from <= tick
    <3>1. Between(d, from, to)' = Between(d, from, tick)'
      BY <2>2, <1>1, <1>6 DEF NothingAhead, Between
    <3>2. from \in 0 .. tick
      BY <2>2, <1>1
    <3>3. PICK n \in Int : n = Between(d, from, tick)'
      BY <3>2, <1>8
    <3>4. PICK m \in Nat : m = Emit(entry'[d])
      BY <3>2, <1>8
    <3>5. n + m <= EmitRatePerMin + (tick - from)
      BY <3>2, <3>3, <3>4, <1>8
    <3>6. n <= EmitRatePerMin + (to - from)
      BY <3>5, <2>2, <1>1
    <3> QED BY <3>1, <3>3, <3>6
  <2>3. CASE to >= tick /\ from > tick
    <3>1. emitted'[d][to] = emitted'[d][tick] /\ emitted'[d][from - 1] = emitted'[d][tick]
      BY <2>3, <1>1, <1>6 DEF NothingAhead
    <3>2. Between(d, from, to)' = 0
      <4>1. emitted'[d][tick] \in Nat /\ from # 0
        BY <2>3, <1>1, <1>3
      <4> QED BY <3>1, <4>1 DEF Between
    <3> QED BY <3>2
  <2> QED BY <2>1, <2>2, <2>3, <1>1
<1> QED BY <1>4, <1>5, <1>6, <1>7, <1>9, <1>10 DEF GuardInv

LEMMA GuardStepInv ==
    ASSUME GuardInv, [FloodGuardNext]_guardVars
    PROVE  GuardInv'
<1>1. CASE UNCHANGED guardVars
  <2>1. UNCHANGED <<tick, entry, emitted, release>>
    BY <1>1 DEF guardVars
  <2> QED BY <2>1 DEF GuardInv, FloodGuardTypeOK, EntriesOK, EntryOK, NothingAhead, TokensLeft,
        EmitsPaced, Between, BlockKept, Emit
<1> QED BY <1>1, TickInv, CheckInv DEF FloodGuardNext

LEMMA GuardInvariant == FloodGuardSpec => []GuardInv
BY GuardInitInv, GuardStepInv, PTL DEF FloodGuardSpec

\* Types of the entries of the guard (mcpguard.Guard).
THEOREM FloodGuardTypes == FloodGuardSpec => []FloodGuardTypeOK
<1>1. GuardInv => FloodGuardTypeOK
  BY DEF GuardInv
<1> QED BY <1>1, GuardInvariant, PTL

\* In any span of time a client sends one burst and what grew back at most, and
\* a blocked client sends nothing, its entry being forgotten or not (Guard.Check).
THEOREM FloodGuardLimits == FloodGuardSpec => LimitsHold
<1>1. ASSUME GuardInv, GuardInv', [FloodGuardNext]_guardVars
      PROVE  [EmitsPaced' /\ BlockHolds]_guardVars
  <2>1. EmitsPaced'
    BY <1>1 DEF GuardInv
  <2>2. CASE Tick \/ UNCHANGED guardVars
    BY <2>2, <2>1 DEF Tick, BlockHolds, guardVars
  <2>3. ASSUME NEW c \in Clients, NEW emits \in BOOLEAN, Check(c, emits) PROVE BlockHolds
    <3> SUFFICES ASSUME NEW d \in Clients, tick < release[d] PROVE emitted'[d] = emitted[d]
      BY DEF BlockHolds
    <3>1. PICK cost \in {0, 1} :
             /\ emitted' = [emitted EXCEPT ![c] = [t \in 0 .. MaxTicks |->
                               emitted[c][t] + (IF t >= tick THEN cost ELSE 0)]]
             /\ tick < release[c] => cost = 0
      BY <1>1, <2>3, CheckFacts
    <3>2. emitted \in [Clients -> [0 .. MaxTicks -> Nat]]
      BY <1>1 DEF GuardInv, FloodGuardTypeOK
    <3>3. CASE d = c
      <4>1. emitted'[c] = [t \in 0 .. MaxTicks |-> emitted[c][t] + (IF t >= tick THEN 0 ELSE 0)]
        BY <3>1, <3>2, <3>3
      <4>2. \A t \in 0 .. MaxTicks : emitted[c][t] + (IF t >= tick THEN 0 ELSE 0) = emitted[c][t]
        <5> SUFFICES ASSUME NEW t \in 0 .. MaxTicks
                     PROVE  emitted[c][t] + (IF t >= tick THEN 0 ELSE 0) = emitted[c][t]
          OBVIOUS
        <5>1. emitted[c][t] \in Nat
          BY <3>2
        <5> QED BY <5>1
      <4> QED BY <4>1, <4>2, <3>2, <3>3
    <3>4. CASE d # c
      BY <3>1, <3>2, <3>4
    <3> QED BY <3>3, <3>4
  <2> QED BY <1>1, <2>1, <2>2, <2>3 DEF FloodGuardNext
<1> QED BY <1>1, GuardInvariant, PTL DEF FloodGuardSpec, LimitsHold
=============================================================================
