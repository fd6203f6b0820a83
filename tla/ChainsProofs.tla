---------------------------- MODULE ChainsProofs ----------------------------
(***************************************************************************)
(* Option chains and their feed, for any chains, tokens, viewers, threads  *)
(* and bounds: no viewer is cut off by another, every token of a cached    *)
(* chain is counted, and what the broker has subscribed is what the feed   *)
(* counts once nothing is under way.                                       *)
(***************************************************************************)
EXTENDS OptionChains, FiniteSetTheorems, TLAPS

Doings == {"idle", "queued", "counted", "send"}
Ops == {"ensure", "release"}
Stages == {"away", "creating", "opening", "warming", "ready", "streaming"}

\* The numbers among the constants.
LEMMA Bounds ==
  /\ MaxApis \in Nat \ {0} /\ MaxCount \in Nat \ {0} /\ MaxHolds \in Nat \ {0}
  /\ MaxCaches \in Nat \ {0}
BY FeedAssumption, ChainsAssumption

\* The tokens of a chain.
LEMMA Windows == \A k \in Chains : TokensOf[k] \in SUBSET Tokens
BY ChainsAssumption

-----------------------------------------------------------------------------
(* Types.                                                                  *)

\* A request of the given tokens.
Request(op, tokens) ==
  [op |-> op, at |-> "queued", tokens |-> tokens, on |-> 0]

\* A request goes to some thread that was free.
LEMMA AskPicks ==
  ASSUME NEW op, NEW tokens, Ask(op, tokens)
  PROVE  \E c \in Callers :
           Idle(c) /\ call' = [call EXCEPT ![c] = Request(op, tokens)]
<1> DEFINE c == CHOOSE x \in Callers : Idle(x)
<1>1. c \in Callers /\ Idle(c)
  BY DEF Ask
<1>2. call' = [call EXCEPT ![c] = Request(op, tokens)]
  BY DEF Ask, Request
<1> HIDE DEF c
<1> QED
  BY <1>1, <1>2

\* Which leaves the threads well typed.
LEMMA AskTypes ==
  ASSUME call \in [Callers -> Calls], NEW op \in Ops,
         NEW tokens \in SUBSET Tokens, Ask(op, tokens)
  PROVE  call' \in [Callers -> Calls]
<1>1. Request(op, tokens) \in Calls
  BY DEF Request, Calls, Ops
<1>2. PICK c \in Callers : call' = [call EXCEPT ![c] = Request(op, tokens)]
  BY AskPicks
<1> QED
  BY <1>1, <1>2

\* The types of the feed, of the service and of the positions.
ServiceTypeOK ==
  /\ caches \in [Chains -> Nat] /\ created \in Nat /\ holds \in [Chains -> Nat]
ViewerTypeOK == viewer \in [Viewers -> Streams]
PositionTypeOK == {positions, inherited, taken} \subseteq SUBSET Tokens

\* They make up the type invariant.
LEMMA TypeParts ==
  TypeOK <=> /\ SocketTypeOK /\ FeedTypeOK /\ ServiceTypeOK
             /\ ViewerTypeOK /\ PositionTypeOK
BY DEF TypeOK, ServiceTypeOK, ViewerTypeOK, PositionTypeOK

\* A client that is away is one of the streams.
LEMMA AwayType == Away \in Streams
<1>1. \E k \in Chains : TRUE
  BY FiniteAssumption
<1> QED
  BY <1>1 DEF Away, Streams

\* A thread at rest is one of the calls.
LEMMA RestingType == Resting \in Calls
BY DEF Resting, Calls

\* The threads.
LEMMA ThreadTypes ==
  ASSUME TypeOK, NEW c \in Callers, Thread(c)
  PROVE  TypeOK'
<1>1. call[c] \in Calls
  BY DEF TypeOK, FeedTypeOK
<1>2. SocketTypeOK' /\ ServiceTypeOK' /\ ViewerTypeOK' /\ PositionTypeOK'
  <2>1. UNCHANGED <<socketVars, serviceVars, viewer, positionVars>>
    BY DEF Thread, FeedStep, Count, Address, Send
  <2> QED
    BY <2>1 DEF TypeOK, SocketTypeOK, ServiceTypeOK, ViewerTypeOK, PositionTypeOK,
      socketVars, serviceVars, positionVars
<1>3. CASE Count(c)
  <2> DEFINE send == FirstOrLast(call[c].op, call[c].tokens)
             then == [call[c] EXCEPT !.at = "counted", !.tokens = send]
  <2>1. counts' \in [Tokens -> Nat]
    BY <1>3 DEF Count, Counted, TypeOK, FeedTypeOK
  <2>2. send \in SUBSET Tokens
    BY <1>1 DEF FirstOrLast, Calls
  <2>3. then \in Calls
    BY <1>1, <2>2 DEF Calls
  <2>4. call' \in [Callers -> Calls]
    <3>1. call' = [call EXCEPT ![c] = IF send = {} THEN Resting ELSE then]
      BY <1>3 DEF Count
    <3> HIDE DEF then
    <3> QED
      BY <3>1, <2>3, RestingType DEF TypeOK, FeedTypeOK
  <2>5. {subscribed, crossed}' \subseteq SUBSET Tokens /\ lists' \subseteq Lists
    BY <1>3, <2>2 DEF Count, TypeOK, FeedTypeOK
  <2> QED
    BY <1>2, <2>1, <2>4, <2>5 DEF TypeOK, FeedTypeOK, ServiceTypeOK, ViewerTypeOK,
      PositionTypeOK
<1>4. CASE Send(c)
  <2>1. call' \in [Callers -> Calls]
    BY <1>4, RestingType DEF Send, TypeOK, FeedTypeOK
  <2>2. counts' \in [Tokens -> Nat]
    BY <1>4 DEF Send, TypeOK, FeedTypeOK
  <2>3. {subscribed, crossed}' \subseteq SUBSET Tokens /\ lists' \subseteq Lists
    BY <1>1, <1>4 DEF Send, TypeOK, FeedTypeOK, Calls
  <2> QED
    BY <1>2, <2>1, <2>2, <2>3 DEF TypeOK, FeedTypeOK, ServiceTypeOK, ViewerTypeOK,
      PositionTypeOK
<1>5. CASE Address(c)
  <2> DEFINE then == [call[c] EXCEPT !.at = "send", !.on = api]
  <2>1. then \in Calls
    BY <1>1 DEF Calls, TypeOK, SocketTypeOK
  <2>2. call' = [call EXCEPT ![c] = IF api = 0 THEN Resting ELSE then]
    BY <1>5 DEF Address
  <2> HIDE DEF then
  <2>3. call' \in [Callers -> Calls]
    BY <2>1, <2>2, RestingType DEF TypeOK, FeedTypeOK
  <2>4. UNCHANGED <<counts, subscribed, lists, crossed>>
    BY <1>5 DEF Address
  <2> QED
    BY <1>2, <2>3, <2>4 DEF TypeOK, FeedTypeOK, ServiceTypeOK, ViewerTypeOK,
      PositionTypeOK
<1> QED
  BY <1>3, <1>4, <1>5 DEF Thread, FeedStep

\* The websocket.
LEMMA SocketTypes ==
  ASSUME TypeOK, Feed
  PROVE  TypeOK'
<1>1. ServiceTypeOK' /\ ViewerTypeOK' /\ PositionTypeOK'
  BY DEF Feed, TypeOK, ServiceTypeOK, ViewerTypeOK, PositionTypeOK, serviceVars,
    positionVars
<1>2. SocketTypeOK'
  BY DEF Feed, SocketStep, Renewed, Started, Opened, Aimed, Resubscribed, Dropped,
    Login, Start, Opens, Drops, TypeOK, SocketTypeOK, socketVars
<1>3. UNCHANGED <<counts, call>>
  BY DEF Feed, SocketStep, Renewed, Started, Opened, Aimed, Resubscribed, Dropped,
    feedVars
<1>4. {subscribed, crossed}' \subseteq SUBSET Tokens
  <2>1. \A l \in lists : l.tokens \in SUBSET Tokens
    BY DEF TypeOK, FeedTypeOK, Lists
  <2> QED
    BY <2>1 DEF Feed, SocketStep, Renewed, Started, Opened, Aimed, Resubscribed,
      Dropped, feedVars, TypeOK, FeedTypeOK
<1>5. lists' \subseteq Lists
  <2>1. [tokens |-> Held, on |-> 0] \in Lists
    BY DEF Held, Lists
  <2>2. \A l \in lists : [l EXCEPT !.on = api] \in Lists
    BY DEF TypeOK, SocketTypeOK, FeedTypeOK, Lists
  <2> QED
    BY <2>1, <2>2 DEF Feed, SocketStep, Renewed, Started, Opened, Aimed, Resubscribed,
      Dropped, feedVars, TypeOK, FeedTypeOK
<1> QED
  BY <1>1, <1>2, <1>3, <1>4, <1>5 DEF TypeOK, FeedTypeOK, ServiceTypeOK, ViewerTypeOK,
    PositionTypeOK

\* What creating a cache leaves alone, and the types of what it changes.
LEMMA CreateTypes ==
  ASSUME TypeOK, NEW k \in Chains, Create(k)
  PROVE  /\ SocketTypeOK' /\ FeedTypeOK'
         /\ caches' \in [Chains -> Nat] /\ created' \in Nat
<1>1. call' \in [Callers -> Calls]
  BY AskTypes, Windows DEF Create, TypeOK, FeedTypeOK, Ops
<1>2. caches' \in [Chains -> Nat] /\ created' \in Nat
  BY DEF Create, TypeOK
<1> QED
  BY <1>1, <1>2 DEF Create, TypeOK, FeedTypeOK, SocketTypeOK, socketVars

\* The endpoint and the client of a viewer.
LEMMA LookTypes ==
  ASSUME TypeOK, NEW v \in Viewers, NEW k \in Chains, NEW from \in Stages,
         NEW wait \in Stages, NEW to \in Stages, Look(v, k, from, wait, to)
  PROVE  TypeOK'
<1>1. PositionTypeOK'
  BY DEF Look, TypeOK, PositionTypeOK, positionVars
<1>2. CASE caches[k] # 0
  <2>1. holds' \in [Chains -> Nat]
    BY <1>2 DEF Look, Hold, TypeOK
  <2>2. viewer' \in [Viewers -> Streams]
    <3> DEFINE n == IF to = "ready" THEN caches[k] ELSE 0
               r == [at |-> to, chain |-> k, cache |-> n]
    <3>1. n \in Nat
      BY DEF TypeOK
    <3>2. r \in Streams
      BY <3>1 DEF Streams, Stages
    <3>3. viewer' = [viewer EXCEPT ![v] = r]
      BY <1>2 DEF Look, Becomes
    <3> HIDE DEF r
    <3> QED
      BY <3>2, <3>3 DEF TypeOK
  <2>3. UNCHANGED <<socketVars, feedVars, caches, created>>
    BY <1>2 DEF Look
  <2> QED
    BY <1>1, <2>1, <2>2, <2>3 DEF TypeOK, SocketTypeOK, FeedTypeOK, PositionTypeOK,
      socketVars, feedVars
<1>3. CASE caches[k] = 0
  <2>1. Create(k) /\ holds' = holds
    BY <1>3 DEF Look
  <2>2. viewer' \in [Viewers -> Streams]
    <3> DEFINE r == [at |-> wait, chain |-> k, cache |-> created + 1]
    <3>1. r \in Streams
      BY DEF Streams, Stages, TypeOK
    <3>2. viewer' = [viewer EXCEPT ![v] = r]
      BY <1>3 DEF Look, Becomes
    <3> HIDE DEF r
    <3> QED
      BY <3>1, <3>2 DEF TypeOK
  <2> QED
    BY <1>1, <2>1, <2>2, CreateTypes DEF TypeOK, PositionTypeOK
<1> QED
  BY <1>2, <1>3

\* A viewer's record.
LEMMA ViewerIs ==
  ASSUME TypeOK, NEW v \in Viewers
  PROVE  /\ viewer[v] \in Streams /\ viewer[v].at \in Stages
         /\ viewer[v].chain \in Chains /\ viewer[v].cache \in Nat
BY DEF TypeOK, Streams, Stages

\* The new record of the viewer of GoesOn.
Went(v) == [at |-> IF viewer[v].at = "creating" THEN "opening" ELSE "ready",
            chain |-> viewer[v].chain,
            cache |-> IF viewer[v].at = "creating" THEN 0 ELSE viewer[v].cache]

\* GoesOn as one assignment.
LEMMA Going ==
  ASSUME TypeOK, NEW v \in Viewers, GoesOn(v)
  PROVE  viewer' = [viewer EXCEPT ![v] = Went(v)] /\ Went(v) \in Streams
<1>1. Went(v) \in Streams
  BY ViewerIs DEF Went, Streams
<1>2. viewer' = [viewer EXCEPT ![v] = Went(v)]
  BY DEF GoesOn, Becomes, Went
<1> QED
  BY <1>1, <1>2

\* PickUp as one assignment.
LEMMA Picking ==
  ASSUME TypeOK, NEW v \in Viewers, PickUp(v)
  PROVE  LET r == [at |-> "streaming", chain |-> viewer[v].chain,
                   cache |-> viewer[v].cache]
         IN  viewer' = [viewer EXCEPT ![v] = r] /\ r \in Streams
<1> DEFINE r == [at |-> "streaming", chain |-> viewer[v].chain,
                 cache |-> viewer[v].cache]
<1>1. r \in Streams
  BY ViewerIs DEF Streams
<1>2. [viewer[v] EXCEPT !.at = "streaming"] = r
  BY ViewerIs DEF Streams
<1>3. viewer' = [viewer EXCEPT ![v] = r]
  BY <1>2 DEF PickUp, TypeOK
<1> QED
  BY <1>1, <1>3

\* A viewer that goes on, is picked up, or leaves.
LEMMA ViewerTypes ==
  ASSUME TypeOK, NEW v \in Viewers,
         GoesOn(v) \/ PickUp(v) \/ LeaveEarly(v) \/ Leave(v)
  PROVE  TypeOK'
<1>1. SocketTypeOK' /\ PositionTypeOK' /\ created' \in Nat
  BY DEF GoesOn, PickUp, LeaveEarly, Leave, TypeOK, SocketTypeOK, PositionTypeOK,
    socketVars, positionVars, serviceVars
<1>2. viewer' \in [Viewers -> Streams]
  BY Going, Picking, AwayType DEF LeaveEarly, Leave, TypeOK
<1>3. viewer[v].chain \in Chains
  BY ViewerIs
<1>4. holds' \in [Chains -> Nat] /\ caches' \in [Chains -> Nat]
  BY <1>3 DEF GoesOn, Hold, PickUp, LeaveEarly, Leave, TypeOK, serviceVars
<1>5. call' \in [Callers -> Calls]
  BY <1>3, AskTypes, Windows DEF GoesOn, PickUp, LeaveEarly, Leave, TypeOK, FeedTypeOK,
    feedVars, Ops
<1>6. UNCHANGED <<counts, subscribed, lists, crossed>>
  BY DEF GoesOn, PickUp, LeaveEarly, Leave, feedVars
<1> QED
  BY <1>1, <1>2, <1>4, <1>5, <1>6 DEF TypeOK, FeedTypeOK, PositionTypeOK

\* Fills and closes.
LEMMA PositionTypes ==
  ASSUME TypeOK, NEW t \in Tokens, Fill(t) \/ Close(t)
  PROVE  TypeOK'
<1>1. call' \in [Callers -> Calls]
  BY AskTypes DEF Fill, Close, TypeOK, FeedTypeOK, Ops
<1>2. {positions, inherited, taken}' \subseteq SUBSET Tokens
  BY DEF Fill, Close, TypeOK
<1>3. UNCHANGED <<socketVars, counts, subscribed, lists, crossed, serviceVars, viewer>>
  BY DEF Fill, Close
<1> QED
  BY <1>1, <1>2, <1>3 DEF TypeOK, SocketTypeOK, FeedTypeOK, socketVars, serviceVars

\* A restart.
LEMMA RestartTypes ==
  ASSUME TypeOK, Restart
  PROVE  TypeOK'
<1>1. call' \in [Callers -> Calls] /\ viewer' \in [Viewers -> Streams]
  BY RestingType, AwayType DEF Restart
<1> QED
  BY <1>1 DEF Restart, TypeOK, SocketTypeOK, FeedTypeOK

\* Every step.
LEMMA NextTypes ==
  ASSUME TypeOK, [Next]_vars
  PROVE  TypeOK'
<1>1. CASE UNCHANGED vars
  BY <1>1 DEF vars, socketVars, feedVars, serviceVars, positionVars, TypeOK,
    SocketTypeOK, FeedTypeOK
<1>2. ASSUME NEW v \in Viewers, Endpoint(v) \/ Client(v) PROVE TypeOK'
  <2>1. CASE LookAgain(v)
    BY <2>1, LookTypes, ViewerIs DEF LookAgain, Stages
  <2>2. ASSUME NEW k \in Chains, Visit(v, k) PROVE TypeOK'
    BY <2>2, LookTypes DEF Visit, Stages
  <2> QED
    BY <1>2, <2>1, <2>2, ViewerTypes DEF Endpoint, Client
<1>3. ASSUME NEW k \in Chains, Get(k) PROVE TypeOK'
  <2>1. UNCHANGED <<holds, viewer, positionVars>> /\ Create(k)
    BY <1>3 DEF Get
  <2> QED
    BY <2>1, CreateTypes DEF TypeOK, positionVars
<1> QED
  BY <1>1, <1>2, <1>3, ThreadTypes, SocketTypes, RestartTypes, PositionTypes DEF Next

\* The initial states.
LEMMA InitTypes ==
  ASSUME Init
  PROVE  TypeOK
<1>1. call \in [Callers -> Calls] /\ viewer \in [Viewers -> Streams]
  BY RestingType, AwayType DEF Init, FeedInit
<1> QED
  BY <1>1 DEF Init, FeedInit, TypeOK, SocketTypeOK, FeedTypeOK

\* The variables keep their types.
THEOREM ChainTypeCorrect == Spec => []TypeOK
<1>1. Init => TypeOK
  BY InitTypes
<1>2. TypeOK /\ [Next]_vars => TypeOK'
  BY NextTypes
<1> QED
  BY <1>1, <1>2, PTL DEF Spec

-----------------------------------------------------------------------------
(* Viewers.  One that streams was counted twice, before the response       *)
(* started and inside it, and releases once: so whoever leaves finds       *)
(* another holder, and no chain that somebody looks at is evicted.         *)

Within == {"opening", "warming", "ready", "streaming"}
Final == {"ready", "streaming"}

\* Viewers of a chain that were counted once, and those counted twice.
Inside(k) == {v \in Viewers : viewer[v].chain = k /\ viewer[v].at \in Within}
Seen(k) == {v \in Viewers : viewer[v].chain = k /\ viewer[v].at \in Final}

HoldsCover ==
  \A k \in Chains : holds[k] >= Cardinality(Inside(k)) + Cardinality(Seen(k))

OnTheirChain ==
  \A v \in Viewers : viewer[v].at # "away" =>
    /\ caches[viewer[v].chain] # 0
    /\ viewer[v].at \in Final \cup {"warming"} =>
         viewer[v].cache = caches[viewer[v].chain]

ViewersInv == TypeOK /\ HoldsCover /\ OnTheirChain

\* A set of viewers with one more or one less.
With(S, v, yes) == IF yes THEN S \cup {v} ELSE S \ {v}

\* How many they are then.
LEMMA WithCounts ==
  ASSUME NEW S \in SUBSET Viewers, NEW v, NEW yes \in BOOLEAN
  PROVE  /\ Cardinality(S) \in Nat /\ Cardinality(With(S, v, yes)) \in Nat
         /\ (yes /\ v \notin S => Cardinality(With(S, v, yes)) = Cardinality(S) + 1)
         /\ (yes /\ v \in S => Cardinality(With(S, v, yes)) = Cardinality(S))
         /\ (~yes /\ v \in S => Cardinality(With(S, v, yes)) = Cardinality(S) - 1)
         /\ (~yes /\ v \notin S => Cardinality(With(S, v, yes)) = Cardinality(S))
<1>1. IsFiniteSet(S)
  BY FiniteAssumption, FS_Subset
<1>2. /\ IsFiniteSet(S \cup {v})
      /\ Cardinality(S \cup {v}) =
           IF v \in S THEN Cardinality(S) ELSE Cardinality(S) + 1
  BY <1>1, FS_AddElement
<1>3. /\ IsFiniteSet(S \ {v})
      /\ Cardinality(S \ {v}) =
           IF v \in S THEN Cardinality(S) - 1 ELSE Cardinality(S)
  BY <1>1, FS_RemoveElement
<1>4. Cardinality(S) \in Nat /\ Cardinality(S \cup {v}) \in Nat
      /\ Cardinality(S \ {v}) \in Nat
  BY <1>1, <1>2, <1>3, FS_CardinalityType
<1> QED
  BY <1>2, <1>3, <1>4 DEF With

\* One viewer's move, in those sets.
LEMMA ViewerMoves ==
  ASSUME TypeOK, NEW v \in Viewers, NEW r \in Streams,
         viewer' = [viewer EXCEPT ![v] = r], NEW k \in Chains
  PROVE  /\ Inside(k)' = With(Inside(k), v, r.chain = k /\ r.at \in Within)
         /\ Seen(k)' = With(Seen(k), v, r.chain = k /\ r.at \in Final)
<1>1. viewer'[v] = r /\ \A w \in Viewers : w # v => viewer'[w] = viewer[w]
  BY DEF TypeOK
<1>2. Inside(k)' = With(Inside(k), v, r.chain = k /\ r.at \in Within)
  BY <1>1 DEF Inside, With
<1>3. Seen(k)' = With(Seen(k), v, r.chain = k /\ r.at \in Final)
  BY <1>1 DEF Seen, With
<1> QED
  BY <1>2, <1>3

\* What a move of viewer v to the record r keeps, given the new holds and
\* caches.
LEMMA MoveKeeps ==
  ASSUME ViewersInv, NEW v \in Viewers, NEW r \in Streams,
         viewer' = [viewer EXCEPT ![v] = r],
         \A k \in Chains : caches[k] # 0 => caches'[k] = caches[k],
         r.at # "away" =>
           /\ caches'[r.chain] # 0
           /\ r.at \in Final \cup {"warming"} => r.cache = caches'[r.chain]
  PROVE  OnTheirChain'
<1> SUFFICES ASSUME NEW w \in Viewers, viewer'[w].at # "away"
             PROVE  /\ caches'[viewer'[w].chain] # 0
                    /\ viewer'[w].at \in Final \cup {"warming"} =>
                         viewer'[w].cache = caches'[viewer'[w].chain]
  BY DEF OnTheirChain
<1>1. CASE w = v
  <2>1. viewer'[w] = r
    BY <1>1 DEF ViewersInv, TypeOK
  <2> QED
    BY <2>1
<1>2. CASE w # v
  <2>1. viewer'[w] = viewer[w] /\ viewer[w].chain \in Chains
    BY <1>2, ViewerIs DEF ViewersInv, TypeOK
  <2> QED
    BY <2>1 DEF ViewersInv, OnTheirChain
<1> QED
  BY <1>1, <1>2

\* How many of a chain's viewers are counted.
LEMMA ViewerCounts ==
  ASSUME NEW k \in Chains
  PROVE  /\ Inside(k) \in SUBSET Viewers /\ Seen(k) \in SUBSET Viewers
         /\ Cardinality(Inside(k)) \in Nat /\ Cardinality(Seen(k)) \in Nat
<1>1. Inside(k) \in SUBSET Viewers /\ Seen(k) \in SUBSET Viewers
  BY DEF Inside, Seen
<1> QED
  BY <1>1, WithCounts

\* A move whose new holds count the viewer's.
Weight(k, r) == IF r.chain # k THEN 0
                ELSE IF r.at \in Final THEN 2
                ELSE IF r.at \in Within THEN 1 ELSE 0

\* Holds follow the weight of the viewer that moves.
LEMMA HoldsFollow ==
  ASSUME ViewersInv, NEW v \in Viewers, NEW r \in Streams,
         viewer' = [viewer EXCEPT ![v] = r], holds' \in [Chains -> Nat],
         \A k \in Chains :
           holds'[k] + Weight(k, viewer[v]) >= holds[k] + Weight(k, r)
  PROVE  HoldsCover'
<1> SUFFICES ASSUME NEW k \in Chains
             PROVE  holds'[k] >= Cardinality(Inside(k)') + Cardinality(Seen(k)')
  BY DEF HoldsCover
<1> DEFINE I == Inside(k)
           S == Seen(k)
           in == r.chain = k /\ r.at \in Within
           on == r.chain = k /\ r.at \in Final
<1>1. /\ I \in SUBSET Viewers /\ S \in SUBSET Viewers
      /\ in \in BOOLEAN /\ on \in BOOLEAN
  BY ViewerCounts
<1>2. Inside(k)' = With(I, v, in) /\ Seen(k)' = With(S, v, on)
  BY ViewerMoves DEF ViewersInv
<1>3. holds[k] >= Cardinality(I) + Cardinality(S)
      /\ holds[k] \in Nat /\ holds'[k] \in Nat
  BY DEF ViewersInv, HoldsCover, TypeOK
<1>4. (v \in I <=> viewer[v].chain = k /\ viewer[v].at \in Within)
      /\ (v \in S <=> viewer[v].chain = k /\ viewer[v].at \in Final)
  BY DEF Inside, Seen
<1>5. /\ Weight(k, viewer[v]) =
           (IF v \in I THEN 1 ELSE 0) + (IF v \in S THEN 1 ELSE 0)
      /\ Weight(k, r) = (IF in THEN 1 ELSE 0) + (IF on THEN 1 ELSE 0)
  BY <1>4 DEF Weight, Within, Final
<1>6. holds'[k] + Weight(k, viewer[v]) >= holds[k] + Weight(k, r)
  OBVIOUS
<1>7. /\ Cardinality(I) \in Nat /\ Cardinality(With(I, v, in)) \in Nat
      /\ (in /\ v \notin I => Cardinality(With(I, v, in)) = Cardinality(I) + 1)
      /\ (in /\ v \in I => Cardinality(With(I, v, in)) = Cardinality(I))
      /\ (~in /\ v \in I => Cardinality(With(I, v, in)) = Cardinality(I) - 1)
      /\ (~in /\ v \notin I => Cardinality(With(I, v, in)) = Cardinality(I))
  <2> HIDE DEF I, in
  <2> QED BY <1>1, WithCounts
<1>8. /\ Cardinality(S) \in Nat /\ Cardinality(With(S, v, on)) \in Nat
      /\ (on /\ v \notin S => Cardinality(With(S, v, on)) = Cardinality(S) + 1)
      /\ (on /\ v \in S => Cardinality(With(S, v, on)) = Cardinality(S))
      /\ (~on /\ v \in S => Cardinality(With(S, v, on)) = Cardinality(S) - 1)
      /\ (~on /\ v \notin S => Cardinality(With(S, v, on)) = Cardinality(S))
  <2> HIDE DEF S, on
  <2> QED BY <1>1, WithCounts
<1> HIDE DEF I, S, in, on
<1> QED
  BY <1>1, <1>2, <1>3, <1>5, <1>6, <1>7, <1>8

\* The first look-up and the one inside the stream.
LEMMA LookKeeps ==
  ASSUME ViewersInv, TypeOK', NEW v \in Viewers, NEW k \in Chains,
         \/ Look(v, k, "away", "creating", "opening")
         \/ /\ Look(v, k, "opening", "warming", "ready") /\ k = viewer[v].chain
  PROVE  HoldsCover' /\ OnTheirChain'
<1>1. caches[k] \in Nat /\ created \in Nat /\ caches \in [Chains -> Nat]
      /\ holds \in [Chains -> Nat]
  BY DEF ViewersInv, TypeOK
<1>2. CASE Look(v, k, "away", "creating", "opening") /\ caches[k] # 0
  <2> DEFINE r == [at |-> "opening", chain |-> k, cache |-> 0]
  <2>1. r \in Streams
    BY DEF Streams
  <2>2. viewer' = [viewer EXCEPT ![v] = r] /\ caches' = caches
        /\ viewer[v].at = "away" /\ holds' = [holds EXCEPT ![k] = @ + 1]
    BY <1>2 DEF Look, Becomes, Hold
  <2>3. OnTheirChain'
    BY <1>2, <2>1, <2>2, MoveKeeps DEF Final
  <2>4. \A j \in Chains : Weight(j, viewer[v]) = 0
                          /\ Weight(j, r) = IF j = k THEN 1 ELSE 0
    BY <2>2 DEF Weight, Final, Within
  <2>5. \A j \in Chains : holds'[j] = (IF j = k THEN holds[j] + 1 ELSE holds[j])
                          /\ holds[j] \in Nat
    BY <1>1, <2>2
  <2>6. holds' \in [Chains -> Nat]
    BY DEF TypeOK
  <2> HIDE DEF r
  <2>7. \A j \in Chains : holds'[j] + Weight(j, viewer[v]) >= holds[j] + Weight(j, r)
    BY <2>4, <2>5
  <2> QED
    BY <2>1, <2>2, <2>3, <2>6, <2>7, HoldsFollow
<1>3. CASE Look(v, k, "away", "creating", "opening") /\ caches[k] = 0
  <2> DEFINE r == [at |-> "creating", chain |-> k, cache |-> created + 1]
  <2>1. r \in Streams
    BY <1>1 DEF Streams
  <2>2. viewer' = [viewer EXCEPT ![v] = r] /\ holds' = holds
        /\ caches' = [caches EXCEPT ![k] = created + 1] /\ viewer[v].at = "away"
    BY <1>3 DEF Look, Becomes, Create
  <2>3. caches'[k] = created + 1 /\ \A j \in Chains : caches[j] # 0 => caches'[j] = caches[j]
    BY <1>1, <1>3, <2>2
  <2>4. OnTheirChain'
    <3>1. r.at = "creating" /\ caches'[r.chain] # 0
      BY <1>1, <2>3
    <3>2. r.at \notin Final \cup {"warming"}
      BY <3>1 DEF Final
    <3> HIDE DEF r
    <3> QED
      BY <2>1, <2>2, <2>3, <3>1, <3>2, MoveKeeps
  <2>5. \A j \in Chains : Weight(j, viewer[v]) = 0 /\ Weight(j, r) = 0
    BY <2>2 DEF Weight, Final, Within
  <2> HIDE DEF r
  <2>6. \A j \in Chains : holds'[j] + Weight(j, viewer[v]) >= holds[j] + Weight(j, r)
    BY <1>1, <2>2, <2>5
  <2> QED
    BY <1>1, <2>1, <2>2, <2>4, <2>6, HoldsFollow
<1>4. CASE Look(v, k, "opening", "warming", "ready") /\ k = viewer[v].chain
  <2> DEFINE r == [at |-> "ready", chain |-> k, cache |-> caches[k]]
  <2>1. r \in Streams
    BY <1>1 DEF Streams
  <2>2. viewer[v].at = "opening"
    BY <1>4 DEF Look
  <2>3. caches[k] # 0
    BY <1>4, <2>2 DEF ViewersInv, OnTheirChain
  <2>4. viewer' = [viewer EXCEPT ![v] = r] /\ caches' = caches
        /\ holds' = [holds EXCEPT ![k] = @ + 1]
    BY <1>4, <2>3 DEF Look, Becomes, Hold
  <2>5. OnTheirChain'
    BY <2>1, <2>3, <2>4, MoveKeeps
  <2>6. \A j \in Chains : /\ Weight(j, viewer[v]) = IF j = k THEN 1 ELSE 0
                          /\ Weight(j, r) = IF j = k THEN 2 ELSE 0
    BY <1>4, <2>2 DEF Weight, Final, Within
  <2>7. \A j \in Chains : holds'[j] = (IF j = k THEN holds[j] + 1 ELSE holds[j])
                          /\ holds[j] \in Nat
    BY <1>1, <2>4
  <2>8. holds' \in [Chains -> Nat]
    BY DEF TypeOK
  <2> HIDE DEF r
  <2>9. \A j \in Chains : holds'[j] + Weight(j, viewer[v]) >= holds[j] + Weight(j, r)
    BY <2>6, <2>7
  <2> QED
    BY <2>1, <2>4, <2>5, <2>8, <2>9, HoldsFollow
<1> QED
  BY <1>2, <1>3, <1>4

\* The stream's own steps: it goes on, and is picked up.
LEMMA StreamKeeps ==
  ASSUME ViewersInv, TypeOK', NEW v \in Viewers, GoesOn(v) \/ PickUp(v)
  PROVE  HoldsCover' /\ OnTheirChain'
<1> DEFINE k == viewer[v].chain
<1>1. /\ caches \in [Chains -> Nat] /\ holds \in [Chains -> Nat]
      /\ holds' \in [Chains -> Nat] /\ k \in Chains
  BY ViewerIs DEF ViewersInv, TypeOK
<1>2. CASE GoesOn(v)
  <2> DEFINE r == Went(v)
  <2>1. viewer' = [viewer EXCEPT ![v] = r] /\ r \in Streams
    BY <1>2, Going DEF ViewersInv
  <2>2. /\ viewer[v].at \in {"creating", "warming"} /\ caches' = caches
        /\ holds' = [holds EXCEPT ![k] = @ + 1]
    BY <1>2 DEF GoesOn, Hold
  <2>3. caches[k] # 0 /\ (viewer[v].at = "warming" => viewer[v].cache = caches[k])
    BY <2>2 DEF ViewersInv, OnTheirChain
  <2>4. r.chain = k /\ r.at \in {"opening", "ready"}
        /\ (r.at = "ready" => viewer[v].at = "warming" /\ r.cache = viewer[v].cache)
    BY <2>2 DEF Went
  <2>5. OnTheirChain'
    <3>1. r.at # "away" =>
            /\ caches'[r.chain] # 0
            /\ r.at \in Final \cup {"warming"} => r.cache = caches'[r.chain]
      BY <2>2, <2>3, <2>4 DEF Final
    <3> HIDE DEF r
    <3> QED
      BY <2>1, <2>2, <3>1, MoveKeeps
  <2>6. \A j \in Chains : Weight(j, r) = Weight(j, viewer[v]) + IF j = k THEN 1 ELSE 0
    BY <2>2 DEF Weight, Final, Within, Went
  <2>7. \A j \in Chains : holds'[j] = (IF j = k THEN holds[j] + 1 ELSE holds[j])
                          /\ holds[j] \in Nat /\ Weight(j, viewer[v]) \in Nat
    BY <1>1, <2>2 DEF Weight
  <2> HIDE DEF r, k
  <2>8. \A j \in Chains : holds'[j] + Weight(j, viewer[v]) >= holds[j] + Weight(j, r)
    BY <2>6, <2>7
  <2> QED
    BY <1>1, <2>1, <2>5, <2>8, HoldsFollow
<1>3. CASE PickUp(v)
  <2> DEFINE r == [at |-> "streaming", chain |-> k, cache |-> viewer[v].cache]
  <2>1. viewer' = [viewer EXCEPT ![v] = r] /\ r \in Streams
    BY <1>3, Picking DEF ViewersInv
  <2>2. viewer[v].at = "ready" /\ UNCHANGED <<caches, holds>>
    BY <1>3 DEF PickUp, serviceVars
  <2>3. caches[k] # 0 /\ viewer[v].cache = caches[k]
    BY <2>2 DEF ViewersInv, OnTheirChain, Final
  <2>4. OnTheirChain'
    <3>1. caches'[r.chain] # 0 /\ r.cache = caches'[r.chain]
      BY <2>2, <2>3
    <3> HIDE DEF r
    <3> QED
      BY <2>1, <2>2, <3>1, MoveKeeps
  <2>5. \A j \in Chains : Weight(j, r) = Weight(j, viewer[v]) /\ Weight(j, r) \in Nat
    BY <2>2 DEF Weight, Final, Within
  <2> HIDE DEF r, k
  <2>6. \A j \in Chains : holds'[j] + Weight(j, viewer[v]) >= holds[j] + Weight(j, r)
    BY <1>1, <2>2, <2>5
  <2> QED
    BY <1>1, <2>1, <2>4, <2>6, HoldsFollow
<1> QED
  BY <1>2, <1>3

\* Who leaves a stream is not the last holder.
LEMMA AnotherHolds ==
  ASSUME ViewersInv, NEW v \in Viewers, viewer[v].at = "streaming"
  PROVE  holds[viewer[v].chain] > 1
<1> DEFINE k == viewer[v].chain
<1>1. k \in Chains /\ holds[k] \in Nat
  BY ViewerIs DEF ViewersInv, TypeOK
<1>2. v \in Inside(k) /\ v \in Seen(k)
  BY DEF Inside, Seen, Within, Final
<1>3. \A S \in SUBSET Viewers : v \in S => Cardinality(S) \in Nat /\ Cardinality(S) # 0
  <2>1. \A S \in SUBSET Viewers : IsFiniteSet(S) /\ Cardinality(S) \in Nat
    BY FiniteAssumption, FS_Subset, FS_CardinalityType
  <2> QED
    BY <2>1, FS_EmptySet
<1>4. holds[k] >= Cardinality(Inside(k)) + Cardinality(Seen(k))
  BY <1>1 DEF ViewersInv, HoldsCover
<1>5. Inside(k) \in SUBSET Viewers /\ Seen(k) \in SUBSET Viewers
  BY DEF Inside, Seen
<1> HIDE DEF k
<1>6. /\ Cardinality(Inside(k)) \in Nat /\ Cardinality(Inside(k)) # 0
      /\ Cardinality(Seen(k)) \in Nat /\ Cardinality(Seen(k)) # 0
  BY <1>2, <1>3, <1>5
<1>7. holds[k] > 1
  BY <1>1, <1>4, <1>6
<1> QED
  BY <1>7 DEF k

\* So nothing is evicted.
LEMMA LeavesQuietly ==
  ASSUME ViewersInv, NEW v \in Viewers, Leave(v)
  PROVE  /\ holds' = [holds EXCEPT ![viewer[v].chain] = @ - 1]
         /\ UNCHANGED <<socketVars, feedVars, caches, created, positionVars>>
BY AnotherHolds DEF Leave

\* A client that leaves, early or not.
LEMMA ClientKeeps ==
  ASSUME ViewersInv, TypeOK', NEW v \in Viewers, LeaveEarly(v) \/ Leave(v)
  PROVE  HoldsCover' /\ OnTheirChain'
<1> DEFINE k == viewer[v].chain
           r == Away
<1>1. /\ caches \in [Chains -> Nat] /\ holds \in [Chains -> Nat]
      /\ holds' \in [Chains -> Nat] /\ k \in Chains
  BY ViewerIs DEF ViewersInv, TypeOK
<1>2. viewer' = [viewer EXCEPT ![v] = r] /\ r \in Streams /\ r.at = "away"
  BY AwayType DEF LeaveEarly, Leave, Away
<1>3. caches' = caches
  BY LeavesQuietly DEF LeaveEarly, serviceVars
<1>4. OnTheirChain'
  <2> HIDE DEF r
  <2> QED
    BY <1>2, <1>3, MoveKeeps
<1>5. \A j \in Chains : Weight(j, r) = 0 /\ Weight(j, viewer[v]) \in Nat
  BY <1>2 DEF Weight, Final, Within
<1>6. \A j \in Chains : holds[j] \in Nat
  BY <1>1
<1>7. \A j \in Chains : holds'[j] + Weight(j, viewer[v]) >= holds[j] + Weight(j, r)
  <2>1. CASE LeaveEarly(v)
    <3>1. holds' = holds
      BY <2>1 DEF LeaveEarly, serviceVars
    <3> HIDE DEF r
    <3> QED
      BY <1>5, <1>6, <3>1
  <2>2. CASE Leave(v)
    <3>1. viewer[v].at = "streaming" /\ holds' = [holds EXCEPT ![k] = @ - 1]
      BY <2>2, LeavesQuietly DEF Leave
    <3>2. Weight(k, viewer[v]) = 2
      BY <3>1 DEF Weight, Final
    <3>3. \A j \in Chains : holds'[j] = IF j = k THEN holds[j] - 1 ELSE holds[j]
      BY <1>1, <3>1
    <3> HIDE DEF r, k
    <3> QED
      BY <1>5, <1>6, <3>2, <3>3
  <2> QED
    BY <2>1, <2>2
<1> HIDE DEF r
<1> QED
  BY <1>1, <1>2, <1>4, <1>7, HoldsFollow

\* Nothing else moves a viewer, or a cache that one looks at.
LEMMA OthersKeepViewers ==
  ASSUME ViewersInv, UNCHANGED <<holds, viewer>>,
         \A k \in Chains : caches[k] # 0 => caches'[k] = caches[k]
  PROVE  HoldsCover' /\ OnTheirChain'
<1>1. HoldsCover'
  BY DEF ViewersInv, HoldsCover, Inside, Seen
<1>2. OnTheirChain'
  BY ViewerIs DEF ViewersInv, OnTheirChain
<1> QED
  BY <1>1, <1>2

\* Every step.
LEMMA NextViewers ==
  ASSUME ViewersInv, [Next]_vars
  PROVE  ViewersInv'
<1>1. TypeOK'
  BY NextTypes DEF ViewersInv
<1>2. ASSUME NEW v \in Viewers, Endpoint(v) \/ Client(v)
      PROVE  HoldsCover' /\ OnTheirChain'
  <2>1. CASE LookAgain(v)
    BY <1>1, <2>1, LookKeeps, ViewerIs DEF LookAgain, ViewersInv
  <2>2. ASSUME NEW k \in Chains, Visit(v, k) PROVE HoldsCover' /\ OnTheirChain'
    BY <1>1, <2>2, LookKeeps DEF Visit
  <2> QED
    BY <1>1, <1>2, <2>1, <2>2, StreamKeeps, ClientKeeps DEF Endpoint, Client
<1>3. ASSUME NEW k \in Chains, Get(k) PROVE HoldsCover' /\ OnTheirChain'
  <2>1. \A j \in Chains : caches[j] # 0 => caches'[j] = caches[j]
    BY <1>3 DEF Get, Create, ViewersInv, TypeOK
  <2>2. UNCHANGED <<holds, viewer>>
    BY <1>3 DEF Get
  <2> QED
    BY <2>1, <2>2, OthersKeepViewers
<1>4. CASE Restart
  <2>1. \A v \in Viewers : viewer'[v] = Away
    BY <1>4 DEF Restart
  <2>2. Away.at = "away"
    BY DEF Away
  <2>3. \A k \in Chains : Inside(k)' = {} /\ Seen(k)' = {} /\ holds'[k] = 0
    BY <1>4, <2>1, <2>2 DEF Restart, Inside, Seen, Within, Final
  <2>4. HoldsCover'
    BY <2>3, FS_EmptySet DEF HoldsCover
  <2> QED
    BY <1>1, <2>1, <2>2, <2>4 DEF OnTheirChain, ViewersInv
<1>5. CASE \/ Feed \/ \E c \in Callers : Thread(c)
           \/ \E t \in Tokens : Fill(t) \/ Close(t)
           \/ UNCHANGED vars
  <2>1. UNCHANGED <<holds, viewer, caches>>
    BY <1>5 DEF Feed, Thread, Fill, Close, vars, serviceVars
  <2> QED
    BY <1>1, <2>1, OthersKeepViewers DEF ViewersInv
<1> QED
  BY <1>1, <1>2, <1>3, <1>4, <1>5 DEF ViewersInv, Next

\* The initial states.
LEMMA InitViewers ==
  ASSUME Init
  PROVE  ViewersInv
<1>1. \A v \in Viewers : viewer[v].at = "away"
  BY DEF Init, Away
<1>2. \A k \in Chains : Inside(k) = {} /\ Seen(k) = {} /\ holds[k] = 0
  BY <1>1 DEF Init, Inside, Seen, Within, Final
<1>3. HoldsCover
  BY <1>2, FS_EmptySet DEF HoldsCover
<1> QED
  BY <1>1, <1>3, InitTypes DEF ViewersInv, OnTheirChain

\* The inductive invariant of the viewers.
LEMMA ViewersInvariant == Spec => []ViewersInv
<1>1. Init => ViewersInv
  BY InitViewers
<1>2. ViewersInv /\ [Next]_vars => ViewersInv'
  BY NextViewers
<1> QED
  BY <1>1, <1>2, PTL DEF Spec

\* A viewer that streams looks at the cache that gets the ticks, however many
\* others come, wait and leave meanwhile (OptionChainService._release).
THEOREM StreamsStayLive == Spec => []ViewersKeepTheirChain
<1>1. ViewersInv => ViewersKeepTheirChain
  BY DEF ViewersInv, OnTheirChain, ViewersKeepTheirChain, Final
<1> QED
  BY <1>1, ViewersInvariant, PTL
-----------------------------------------------------------------------------
(* Counts.  What a token's count has and will have covers the chains that  *)
(* are cached, the position of this process and the releases on their way. *)

Asked(op, t) ==
  {c \in Callers : /\ call[c].at = "queued" /\ call[c].op = op
                   /\ t \in call[c].tokens}
CachedBy(t) == {k \in Chains : caches[k] # 0 /\ t \in TokensOf[k]}
OwnPosition(t) == IF t \in positions \ inherited THEN 1 ELSE 0

Covered(t) ==
  counts[t] + Cardinality(Asked("ensure", t))
    >= Cardinality(CachedBy(t)) + OwnPosition(t) + Cardinality(Asked("release", t))
CountsCover == \A t \in Tokens \ taken : Covered(t)

CountsInv == ViewersInv /\ CountsCover

\* The numbers that are compared.
LEMMA Amounts ==
  ASSUME TypeOK, NEW t \in Tokens
  PROVE  /\ counts[t] \in Nat /\ OwnPosition(t) \in {0, 1}
         /\ \A op \in Ops : IsFiniteSet(Asked(op, t)) /\ Cardinality(Asked(op, t)) \in Nat
         /\ IsFiniteSet(CachedBy(t)) /\ Cardinality(CachedBy(t)) \in Nat
<1>1. counts[t] \in Nat /\ OwnPosition(t) \in {0, 1}
  BY DEF TypeOK, FeedTypeOK, OwnPosition
<1>2. ASSUME NEW op \in Ops
      PROVE  IsFiniteSet(Asked(op, t)) /\ Cardinality(Asked(op, t)) \in Nat
  <2>1. Asked(op, t) \in SUBSET Callers
    BY DEF Asked
  <2> QED
    BY <2>1, FiniteAssumption, FS_Subset, FS_CardinalityType
<1>3. CachedBy(t) \in SUBSET Chains
  BY DEF CachedBy
<1>4. IsFiniteSet(CachedBy(t)) /\ Cardinality(CachedBy(t)) \in Nat
  BY <1>3, FiniteAssumption, FS_Subset, FS_CardinalityType
<1> QED
  BY <1>1, <1>2, <1>4

\* A request adds its thread to those asked for its tokens.
LEMMA AskAdds ==
  ASSUME TypeOK, NEW op \in Ops, NEW tokens \in SUBSET Tokens, Ask(op, tokens),
         NEW t \in Tokens
  PROVE  \A o \in Ops :
           Cardinality(Asked(o, t)') =
             Cardinality(Asked(o, t)) + IF o = op /\ t \in tokens THEN 1 ELSE 0
<1>1. PICK c \in Callers :
        Idle(c) /\ call' = [call EXCEPT ![c] = Request(op, tokens)]
  BY AskPicks
<1>2. call'[c] = Request(op, tokens) /\ \A d \in Callers : d # c => call'[d] = call[d]
  BY <1>1 DEF TypeOK, FeedTypeOK
<1> SUFFICES ASSUME NEW o \in Ops
             PROVE  Cardinality(Asked(o, t)') =
               Cardinality(Asked(o, t)) + IF o = op /\ t \in tokens THEN 1 ELSE 0
  OBVIOUS
<1>3. c \notin Asked(o, t)
  BY <1>1 DEF Idle, Asked
<1>4. IsFiniteSet(Asked(o, t)) /\ Cardinality(Asked(o, t)) \in Nat
  BY Amounts
<1>5. CASE o = op /\ t \in tokens
  <2>1. Asked(o, t)' = Asked(o, t) \cup {c}
    BY <1>2, <1>5 DEF Asked, Request
  <2>2. Cardinality(Asked(o, t) \cup {c}) = Cardinality(Asked(o, t)) + 1
    BY <1>3, <1>4, FS_AddElement
  <2> QED
    BY <1>5, <2>1, <2>2
<1>6. CASE ~(o = op /\ t \in tokens)
  <2>1. Asked(o, t)' = Asked(o, t)
    BY <1>2, <1>3, <1>6 DEF Asked, Request
  <2> QED
    BY <1>4, <1>6, <2>1
<1> QED
  BY <1>5, <1>6

\* The request of a thread that had asked is taken off when it is counted.
LEMMA CountTakesOff ==
  ASSUME TypeOK, NEW c \in Callers, Count(c), NEW t \in Tokens
  PROVE  \A o \in Ops :
           /\ Cardinality(Asked(o, t)') \in Nat
           /\ Cardinality(Asked(o, t)') = Cardinality(Asked(o, t))
                - IF o = call[c].op /\ t \in call[c].tokens THEN 1 ELSE 0
<1>1. call'[c].at # "queued" /\ \A d \in Callers : d # c => call'[d] = call[d]
  <2> DEFINE send == FirstOrLast(call[c].op, call[c].tokens)
             then == [call[c] EXCEPT !.at = "counted", !.tokens = send]
  <2>1. then.at = "counted"
    BY DEF TypeOK, FeedTypeOK, Calls
  <2>2. call' = [call EXCEPT ![c] = IF send = {} THEN Resting ELSE then]
    BY DEF Count
  <2> HIDE DEF then
  <2> QED
    BY <2>1, <2>2 DEF TypeOK, FeedTypeOK, Resting
<1>2. call[c].at = "queued"
  BY DEF Count
<1> SUFFICES ASSUME NEW o \in Ops
             PROVE  /\ Cardinality(Asked(o, t)') \in Nat
                    /\ Cardinality(Asked(o, t)') = Cardinality(Asked(o, t))
                         - IF o = call[c].op /\ t \in call[c].tokens THEN 1 ELSE 0
  OBVIOUS
<1>3. IsFiniteSet(Asked(o, t)) /\ Cardinality(Asked(o, t)) \in Nat
  BY Amounts
<1>4. Asked(o, t)' = Asked(o, t) \ {c}
  BY <1>1 DEF Asked
<1>5. c \in Asked(o, t) <=> o = call[c].op /\ t \in call[c].tokens
  BY <1>2 DEF Asked
<1>6. /\ Cardinality(Asked(o, t) \ {c}) \in Nat
      /\ Cardinality(Asked(o, t) \ {c}) =
           IF c \in Asked(o, t) THEN Cardinality(Asked(o, t)) - 1
           ELSE Cardinality(Asked(o, t))
  BY <1>3, FS_RemoveElement, FS_CardinalityType
<1> QED
  BY <1>3, <1>4, <1>5, <1>6

\* Counting a request.
LEMMA CountCovers ==
  ASSUME CountsInv, NEW c \in Callers, Thread(c)
  PROVE  CountsCover'
<1> SUFFICES ASSUME NEW t \in Tokens \ taken PROVE Covered(t)'
  <2>1. taken' = taken
    BY DEF Thread, positionVars
  <2> QED
    BY <2>1 DEF CountsCover
<1>1. TypeOK /\ Covered(t)
  BY DEF CountsInv, ViewersInv, CountsCover
<1>2. CachedBy(t)' = CachedBy(t) /\ OwnPosition(t)' = OwnPosition(t)
  BY DEF Thread, serviceVars, positionVars, CachedBy, OwnPosition
<1>3. call[c].op \in Ops
  BY <1>1 DEF TypeOK, FeedTypeOK, Calls, Ops
<1> DEFINE e == Cardinality(Asked("ensure", t))
           r == Cardinality(Asked("release", t))
           h == Cardinality(CachedBy(t))
           o == OwnPosition(t)
<1>4. counts[t] \in Nat /\ e \in Nat /\ r \in Nat /\ h \in Nat /\ o \in Nat
  BY <1>1, Amounts DEF Ops
<1>5. counts[t] + e >= h + o + r
  BY <1>1 DEF Covered
<1>6. CASE Count(c)
  <2> DEFINE mine == t \in call[c].tokens
  <2>1. /\ e' = e - IF "ensure" = call[c].op /\ mine THEN 1 ELSE 0
        /\ r' = r - IF "release" = call[c].op /\ mine THEN 1 ELSE 0
    BY <1>1, <1>6, CountTakesOff DEF Ops
  <2>2. counts'[t] = IF ~mine THEN counts[t]
                     ELSE IF call[c].op = "ensure" THEN counts[t] + 1
                     ELSE IF counts[t] = 0 THEN 0 ELSE counts[t] - 1
    BY <1>6 DEF Count, Counted
  <2>3. e' \in Nat
    BY <1>1, <1>6, CountTakesOff DEF Ops
  <2>4. counts'[t] + e' >= h + o + r'
    <3> HIDE DEF e, r, h, o, mine
    <3> QED
      BY <1>3, <1>4, <1>5, <2>1, <2>2, <2>3 DEF Ops
  <2> QED
    BY <1>2, <2>4 DEF Covered
<1>7. CASE Send(c)
  <2>1. \A op \in Ops : Asked(op, t)' = Asked(op, t)
    BY <1>1, <1>7 DEF Send, Asked, Resting, TypeOK, FeedTypeOK
  <2>2. counts' = counts
    BY <1>7 DEF Send
  <2> QED
    BY <1>2, <1>5, <2>1, <2>2 DEF Covered, Ops
<1>8. CASE Address(c)
  <2> DEFINE then == IF api = 0 THEN Resting ELSE [call[c] EXCEPT !.at = "send", !.on = api]
  <2>1. then.at # "queued" /\ call[c].at # "queued"
    BY <1>1, <1>8 DEF Address, Resting, TypeOK, FeedTypeOK, Calls
  <2>2. call' = [call EXCEPT ![c] = then] /\ counts' = counts
    BY <1>8 DEF Address
  <2> HIDE DEF then
  <2>3. \A op \in Ops : Asked(op, t)' = Asked(op, t)
    BY <1>1, <2>1, <2>2 DEF Asked, TypeOK, FeedTypeOK
  <2> QED
    BY <1>2, <1>5, <2>2, <2>3 DEF Covered, Ops
<1> QED
  BY <1>6, <1>7, <1>8 DEF Thread, FeedStep

\* Creating a cache asks for its tokens.
LEMMA CreateCovers ==
  ASSUME CountsInv, NEW k \in Chains, Create(k), UNCHANGED positionVars
  PROVE  CountsCover'
<1> SUFFICES ASSUME NEW t \in Tokens \ taken PROVE Covered(t)'
  BY DEF CountsCover, positionVars
<1>1. TypeOK /\ Covered(t)
  BY DEF CountsInv, ViewersInv, CountsCover
<1>2. counts' = counts /\ OwnPosition(t)' = OwnPosition(t)
  BY DEF Create, OwnPosition, positionVars
<1>3. \A o \in Ops : Cardinality(Asked(o, t)') = Cardinality(Asked(o, t))
        + IF o = "ensure" /\ t \in TokensOf[k] THEN 1 ELSE 0
  BY <1>1, AskAdds, Windows DEF Create, Ops
<1>4. k \notin CachedBy(t)
  BY DEF Create, CachedBy
<1>5. caches' = [caches EXCEPT ![k] = created + 1] /\ created + 1 # 0
  BY <1>1 DEF Create, TypeOK
<1>6. CachedBy(t)' = IF t \in TokensOf[k] THEN CachedBy(t) \cup {k} ELSE CachedBy(t)
  <2>1. caches'[k] # 0 /\ \A j \in Chains : j # k => caches'[j] = caches[j]
    BY <1>1, <1>5 DEF TypeOK
  <2> QED
    BY <1>4, <2>1 DEF CachedBy
<1>7. Cardinality(CachedBy(t) \cup {k}) = Cardinality(CachedBy(t)) + 1
  BY <1>1, <1>4, Amounts, FS_AddElement
<1> DEFINE e == Cardinality(Asked("ensure", t))
           r == Cardinality(Asked("release", t))
           h == Cardinality(CachedBy(t))
           o == OwnPosition(t)
<1>8. counts[t] \in Nat /\ e \in Nat /\ r \in Nat /\ h \in Nat /\ o \in Nat
  BY <1>1, Amounts DEF Ops
<1>9. counts[t] + e >= h + o + r
  BY <1>1 DEF Covered
<1>10. /\ e' = e + IF t \in TokensOf[k] THEN 1 ELSE 0
       /\ h' = h + IF t \in TokensOf[k] THEN 1 ELSE 0
       /\ r' = r
  BY <1>3, <1>6, <1>7, <1>8 DEF Ops
<1>11. counts'[t] + e' >= h' + o' + r'
  <2> HIDE DEF e, r, h, o
  <2>1. o' = o
    BY <1>2 DEF o
  <2> QED
    BY <1>2, <1>8, <1>9, <1>10, <2>1
<1> QED
  BY <1>11 DEF Covered

\* Fills ask for the token of their position, a close releases it.
LEMMA PositionsCover ==
  ASSUME CountsInv, NEW s \in Tokens, Fill(s) \/ Close(s)
  PROVE  CountsCover'
<1> SUFFICES ASSUME NEW t \in Tokens \ taken' PROVE Covered(t)'
  BY DEF CountsCover
<1>1. t \notin taken
  BY DEF Fill, Close
<1>2. TypeOK /\ Covered(t)
  BY <1>1 DEF CountsInv, ViewersInv, CountsCover
<1>3. counts' = counts /\ CachedBy(t)' = CachedBy(t)
  BY DEF Fill, Close, CachedBy, serviceVars
<1> DEFINE e == Cardinality(Asked("ensure", t))
           r == Cardinality(Asked("release", t))
           h == Cardinality(CachedBy(t))
           o == OwnPosition(t)
<1>4. counts[t] \in Nat /\ e \in Nat /\ r \in Nat /\ h \in Nat /\ o \in {0, 1}
  BY <1>2, Amounts DEF Ops
<1>5. counts[t] + e >= h + o + r
  BY <1>2 DEF Covered
<1>6. CASE Fill(s)
  <2>1. e' = e + (IF t = s THEN 1 ELSE 0) /\ r' = r
    BY <1>2, <1>4, <1>6, AskAdds DEF Fill, Ops
  <2>2. t # s => o' = o
    BY <1>6 DEF Fill, OwnPosition
  <2>3. o' \in {0, 1}
    BY DEF OwnPosition
  <2>4. counts'[t] + e' >= h' + o' + r'
    <3> HIDE DEF e, r, o
    <3> QED
      BY <1>3, <1>4, <1>5, <2>1, <2>2, <2>3
  <2> QED
    BY <2>4 DEF Covered
<1>7. CASE Close(s)
  <2>1. r' = r + (IF t = s THEN 1 ELSE 0) /\ e' = e
    BY <1>2, <1>4, <1>7, AskAdds DEF Close, Ops
  <2>2. t # s => o' = o
    BY <1>7 DEF Close, OwnPosition
  <2>3. t = s => o = 1 /\ o' = 0
    BY <1>7 DEF Close, Closes, OwnPosition
  <2>4. counts'[t] + e' >= h' + o' + r'
    <3> HIDE DEF e, r, o
    <3> QED
      BY <1>3, <1>4, <1>5, <2>1, <2>2, <2>3
  <2> QED
    BY <2>4 DEF Covered
<1> QED
  BY <1>6, <1>7

\* Other steps.
LEMMA OthersCover ==
  ASSUME CountsInv, UNCHANGED <<counts, call, caches, positionVars>>
  PROVE  CountsCover'
BY DEF CountsInv, CountsCover, Covered, Asked, CachedBy, OwnPosition, positionVars

\* A new process has cached and counted nothing, and owns no position.
LEMMA RestartCovers ==
  ASSUME Restart
  PROVE  CountsCover'
<1> SUFFICES ASSUME NEW t \in Tokens PROVE Covered(t)'
  BY DEF CountsCover
<1>1. CachedBy(t)' = {} /\ OwnPosition(t)' = 0 /\ counts'[t] = 0
  BY DEF Restart, CachedBy, OwnPosition
<1>2. Asked("ensure", t)' = {} /\ Asked("release", t)' = {}
  BY DEF Restart, Asked, Resting
<1> QED
  BY <1>1, <1>2, FS_EmptySet DEF Covered

\* Every step.
LEMMA NextCovers ==
  ASSUME CountsInv, [Next]_vars
  PROVE  CountsInv'
<1>1. ViewersInv'
  BY NextViewers DEF CountsInv
<1>2. ASSUME NEW v \in Viewers, Endpoint(v) \/ Client(v) PROVE CountsCover'
  <2>1. ASSUME NEW k \in Chains, NEW from, NEW wait, NEW to, Look(v, k, from, wait, to)
        PROVE  CountsCover'
    <3>1. CASE caches[k] # 0
      BY <2>1, <3>1, OthersCover DEF Look, feedVars
    <3>2. CASE caches[k] = 0
      BY <2>1, <3>2, CreateCovers DEF Look
    <3> QED
      BY <3>1, <3>2
  <2>2. CASE LookAgain(v)
    BY <2>1, <2>2, ViewerIs DEF LookAgain, CountsInv, ViewersInv
  <2>3. ASSUME NEW k \in Chains, Visit(v, k) PROVE CountsCover'
    BY <2>1, <2>3 DEF Visit
  <2>4. CASE GoesOn(v) \/ PickUp(v) \/ LeaveEarly(v)
    BY <2>4, OthersCover DEF GoesOn, PickUp, LeaveEarly, feedVars, serviceVars
  <2>5. CASE Leave(v)
    BY <2>5, LeavesQuietly, OthersCover DEF CountsInv, feedVars
  <2> QED
    BY <1>2, <2>2, <2>3, <2>4, <2>5 DEF Endpoint, Client
<1>3. ASSUME NEW k \in Chains, Get(k) PROVE CountsCover'
  BY <1>3, CreateCovers DEF Get
<1>4. CASE Feed
  <2>1. UNCHANGED <<counts, call>>
    BY <1>4 DEF Feed, SocketStep, Renewed, Started, Opened, Aimed, Resubscribed,
      Dropped, feedVars
  <2>2. UNCHANGED <<caches, positionVars>>
    BY <1>4 DEF Feed, serviceVars
  <2> QED
    BY <1>1, <2>1, <2>2, OthersCover DEF CountsInv
<1>5. CASE UNCHANGED vars
  BY <1>1, <1>5, OthersCover DEF vars, feedVars, serviceVars, CountsInv
<1> QED
  BY <1>1, <1>2, <1>3, <1>4, <1>5, CountCovers, PositionsCover, RestartCovers
    DEF CountsInv, Next

\* The initial states.
LEMMA InitCovers ==
  ASSUME Init
  PROVE  CountsInv
<1> SUFFICES ASSUME NEW t \in Tokens PROVE Covered(t)
  BY InitViewers DEF CountsInv, CountsCover
<1>1. CachedBy(t) = {} /\ OwnPosition(t) = 0 /\ counts[t] = 0
  BY DEF Init, FeedInit, CachedBy, OwnPosition
<1>2. Asked("ensure", t) = {} /\ Asked("release", t) = {}
  BY DEF Init, FeedInit, Asked, Resting
<1> QED
  BY <1>1, <1>2, FS_EmptySet DEF Covered

\* What it means for a chain that is cached.
LEMMA CoverIsEnough ==
  ASSUME CountsInv
  PROVE  CachedIsCounted
<1> SUFFICES ASSUME NEW k \in Chains, caches[k] # 0, NEW t \in TokensOf[k] \ taken,
                    ~(counts[t] > 0), ~Queued("ensure", t)
             PROVE  FALSE
  BY DEF CachedIsCounted
<1>1. t \in Tokens /\ TypeOK /\ Covered(t)
  BY Windows DEF CountsInv, ViewersInv, CountsCover
<1>2. Asked("ensure", t) = {}
  BY DEF Asked, Queued
<1>3. k \in CachedBy(t)
  BY DEF CachedBy
<1>4. /\ counts[t] = 0 /\ Cardinality(Asked("ensure", t)) = 0
      /\ Cardinality(Asked("release", t)) \in Nat /\ OwnPosition(t) \in {0, 1}
  BY <1>1, <1>2, Amounts, FS_EmptySet DEF Ops
<1>5. IsFiniteSet(CachedBy(t)) /\ Cardinality(CachedBy(t)) \in Nat
  BY <1>1, Amounts
<1>6. Cardinality(CachedBy(t)) # 0
  BY <1>3, <1>5, FS_EmptySet
<1> QED
  BY <1>1, <1>4, <1>5, <1>6 DEF Covered

\* The feed counts every token of a cached chain, or is about to, however the
\* calls of chains and positions overlap (ensure_subscribed and release of
\* ShoonyaOptionFeed), but for tokens released for an inherited position.
THEOREM CachedStayCounted == Spec => []CachedIsCounted
<1>1. Init => CountsInv
  BY InitCovers
<1>2. CountsInv /\ [Next]_vars => CountsInv'
  BY NextCovers
<1>3. CountsInv => CachedIsCounted
  BY CoverIsEnough
<1> QED
  BY <1>1, <1>2, <1>3, PTL DEF Spec
-----------------------------------------------------------------------------
(* The feed and the broker.  A token that is counted is subscribed, will   *)
(* be by a call under way, or by _on_open; one that is not counted is not, *)
(* or a call is under way to end it.                                       *)

NotAhead == api # 0 /\ feedApi <= api
ClosedIsEmpty == socket # "open" => subscribed = {}

Kept(t) == ~Sending("release", t) /\ (t \in Listed \/ Sending("ensure", t) \/ t \in subscribed)
Gone(t) == /\ ~Sending("ensure", t) /\ t \notin Listed
           /\ Sending("release", t) \/ t \notin subscribed
Settled(t) == IF counts[t] > 0 THEN Kept(t) ELSE Gone(t)
AllSettled == socket = "open" => \A t \in Tokens \ crossed : Settled(t)

FeedInv == TypeOK /\ NotAhead /\ ClosedIsEmpty /\ AllSettled

\* What one thread sends.
SendsFrom(c, op, t) ==
  /\ call[c].op = op /\ t \in call[c].tokens
  /\ call[c].at = "counted" \/ (call[c].at = "send" /\ call[c].on >= feedApi)

\* Sending is what some thread sends.
LEMMA SendingIs ==
  ASSUME NEW op, NEW t
  PROVE  Sending(op, t) <=> \E c \in Callers : SendsFrom(c, op, t)
BY DEF Sending, SendsFrom

\* As long as no thread starts or ends a call, nothing else is sent.
LEMMA SameSending ==
  ASSUME feedApi' = feedApi,
         \A c \in Callers : {call[c].at, call'[c].at} \cap {"counted", "send"} # {}
                              => call'[c] = call[c]
  PROVE  \A op, t : Sending(op, t)' <=> Sending(op, t)
BY DEF Sending

\* What threads of websockets have listed.
LEMMA ListedIs ==
  ASSUME NEW t
  PROVE  t \in Listed <=> \E l \in lists : t \in l.tokens /\ (l.on = 0 \/ l.on >= feedApi)
BY DEF Listed

\* Asking starts no call yet.
LEMMA AskSendsNothing ==
  ASSUME TypeOK, NEW op, NEW tokens, Ask(op, tokens), feedApi' = feedApi
  PROVE  \A o, t : Sending(o, t)' <=> Sending(o, t)
<1>1. PICK c \in Callers :
        Idle(c) /\ call' = [call EXCEPT ![c] = Request(op, tokens)]
  BY AskPicks
<1>2. call'[c].at = "queued" /\ call[c].at = "idle"
      /\ \A d \in Callers : d # c => call'[d] = call[d]
  BY <1>1 DEF TypeOK, FeedTypeOK, Request, Idle
<1>3. \A d \in Callers : {call[d].at, call'[d].at} \cap {"counted", "send"} # {}
                            => call'[d] = call[d]
  BY <1>2
<1> QED
  BY <1>3, SameSending

\* Steps that change neither the counts nor the broker's side.
LEMMA FeedStays ==
  ASSUME FeedInv, \A op, t : Sending(op, t)' <=> Sending(op, t),
         UNCHANGED <<socketVars, counts, subscribed, lists, crossed>>
  PROVE  NotAhead' /\ ClosedIsEmpty' /\ AllSettled'
<1>1. NotAhead' /\ ClosedIsEmpty'
  BY DEF FeedInv, NotAhead, ClosedIsEmpty, socketVars
<1>2. Listed' = Listed
  BY DEF Listed, socketVars
<1>3. ASSUME NEW t PROVE Settled(t) => Settled(t)'
  BY <1>2 DEF Settled, Kept, Gone
<1> QED
  BY <1>1, <1>3 DEF FeedInv, AllSettled, socketVars

\* What a thread is doing after Count.
LEMMA CountStarts ==
  ASSUME TypeOK, NEW c \in Callers, Count(c)
  PROVE  LET send == FirstOrLast(call[c].op, call[c].tokens)
         IN  /\ \A d \in Callers : d # c => call'[d] = call[d]
             /\ call[c].at = "queued"
             /\ send = {} => call'[c].at = "idle"
             /\ send # {} => /\ call'[c].at = "counted" /\ call'[c].op = call[c].op
                             /\ call'[c].tokens = send
<1> DEFINE send == FirstOrLast(call[c].op, call[c].tokens)
           then == [call[c] EXCEPT !.at = "counted", !.tokens = send]
<1>1. then.at = "counted" /\ then.op = call[c].op /\ then.tokens = send
  BY DEF TypeOK, FeedTypeOK, Calls
<1>2. /\ call[c].at = "queued"
      /\ call' = [call EXCEPT ![c] = IF send = {} THEN Resting ELSE then]
  BY DEF Count
<1> HIDE DEF then, send
<1>3. \A d \in Callers : d # c => call'[d] = call[d]
  BY <1>2 DEF TypeOK, FeedTypeOK
<1>4. call'[c] = IF send = {} THEN Resting ELSE then
  BY <1>2 DEF TypeOK, FeedTypeOK
<1>5. /\ call[c].at = "queued"
      /\ send = {} => call'[c].at = "idle"
      /\ send # {} => /\ call'[c].at = "counted" /\ call'[c].op = call[c].op
                      /\ call'[c].tokens = send
  BY <1>1, <1>2, <1>4 DEF Resting
<1> USE DEF send
<1> QED
  BY <1>3, <1>5

\* Counting a request: its tokens that change sides are sent for by it alone.
LEMMA CountSettles ==
  ASSUME FeedInv, NEW c \in Callers, Count(c)
  PROVE  NotAhead' /\ ClosedIsEmpty' /\ AllSettled'
<1> DEFINE op == call[c].op
           tokens == call[c].tokens
           send == FirstOrLast(op, tokens)
<1>1. TypeOK /\ api \in Nat /\ feedApi \in Nat /\ api # 0 /\ feedApi <= api /\ op \in Ops
  BY DEF FeedInv, NotAhead, TypeOK, SocketTypeOK, FeedTypeOK, Calls, Ops
<1>2. /\ \A d \in Callers : d # c => call'[d] = call[d]
      /\ call[c].at = "queued"
      /\ send = {} => call'[c].at = "idle"
      /\ send # {} => /\ call'[c].at = "counted" /\ call'[c].op = op
                      /\ call'[c].tokens = send
  BY <1>1, CountStarts
<1>3. /\ UNCHANGED <<subscribed, lists, api, feedApi, socket>>
      /\ counts' = Counted(op, tokens)
      /\ crossed' = crossed \cup
           {t \in send : Sending("ensure", t) \/ Sending("release", t) \/ t \in Listed}
  BY DEF Count, socketVars
<1>4. NotAhead' /\ ClosedIsEmpty'
  BY <1>3 DEF FeedInv, NotAhead, ClosedIsEmpty
<1>5. ASSUME NEW o, NEW t
      PROVE  Sending(o, t)' <=> Sending(o, t) \/ (o = op /\ t \in send)
  <2>1. ~SendsFrom(c, o, t)
    BY <1>2 DEF SendsFrom
  <2>2. SendsFrom(c, o, t)' <=> o = op /\ t \in send
    <3> HIDE DEF send, op
    <3> QED
      BY <1>1, <1>2, <1>3 DEF SendsFrom
  <2>3. \A d \in Callers : d # c => (SendsFrom(d, o, t)' <=> SendsFrom(d, o, t))
    BY <1>2, <1>3 DEF SendsFrom
  <2>4. Sending(o, t)' <=> \E d \in Callers : SendsFrom(d, o, t)'
    BY <1>3 DEF Sending, SendsFrom
  <2> HIDE DEF send, op
  <2> QED
    BY <2>1, <2>2, <2>3, <2>4, SendingIs
<1>6. ASSUME socket = "open", NEW t \in Tokens \ crossed'
      PROVE  Settled(t)'
  <2>1. Settled(t) /\ counts[t] \in Nat
    BY <1>1, <1>3, <1>6 DEF FeedInv, AllSettled, TypeOK, FeedTypeOK
  <2>2. /\ Sending("ensure", t)' <=> Sending("ensure", t) \/ (op = "ensure" /\ t \in send)
        /\ Sending("release", t)' <=> Sending("release", t) \/ (op = "release" /\ t \in send)
    BY <1>5
  <2>3. counts'[t] = IF t \notin tokens THEN counts[t]
                     ELSE IF op = "ensure" THEN counts[t] + 1
                     ELSE IF counts[t] = 0 THEN 0 ELSE counts[t] - 1
    BY <1>3 DEF Counted
  <2>4. t \in send <=> t \in tokens /\ (IF op = "ensure" THEN counts[t] = 0 ELSE counts[t] <= 1)
    BY DEF FirstOrLast
  <2>5. t \in send => ~Sending("ensure", t) /\ ~Sending("release", t) /\ t \notin Listed
    BY <1>3
  <2>6. Listed' = Listed /\ subscribed' = subscribed
    BY <1>3 DEF Listed
  <2>7. /\ t \in send /\ op = "ensure" => counts[t] = 0 /\ counts'[t] > 0
        /\ t \in send /\ op = "release" => counts'[t] = 0
        /\ t \notin send => (counts'[t] > 0 <=> counts[t] > 0)
    <3> HIDE DEF send, tokens, op
    <3> QED
      BY <1>1, <2>1, <2>3, <2>4 DEF Ops
  <2>8. counts'[t] \in Nat
    BY <2>1, <2>3
  <2>9. CASE t \in send /\ op = "ensure"
    <3>1. Sending("ensure", t)' /\ ~Sending("release", t)'
      BY <2>2, <2>5, <2>9
    <3> HIDE DEF send, op
    <3> QED
      BY <2>7, <2>9, <3>1 DEF Settled, Kept
  <2>10. CASE t \in send /\ op = "release"
    <3>1. Sending("release", t)' /\ ~Sending("ensure", t)' /\ t \notin Listed'
      BY <2>2, <2>5, <2>6, <2>10
    <3>2. ~(counts'[t] > 0)
      BY <2>7, <2>10
    <3> HIDE DEF send, op
    <3> QED
      BY <3>1, <3>2 DEF Settled, Gone
  <2>11. CASE t \notin send
    <3>1. (Sending("ensure", t)' <=> Sending("ensure", t))
          /\ (Sending("release", t)' <=> Sending("release", t))
      BY <2>2, <2>11
    <3>2. counts'[t] > 0 <=> counts[t] > 0
      BY <2>7, <2>11
    <3> HIDE DEF send, op
    <3> QED
      BY <2>1, <2>6, <3>1, <3>2 DEF Settled, Kept, Gone
  <2> HIDE DEF send, op
  <2> QED
    BY <1>1, <2>9, <2>10, <2>11 DEF Ops
<1> QED
  BY <1>3, <1>4, <1>6 DEF AllSettled

\* A call that is addressed is under way as before.
LEMMA AddressSettles ==
  ASSUME FeedInv, NEW c \in Callers, Address(c)
  PROVE  NotAhead' /\ ClosedIsEmpty' /\ AllSettled'
<1>1. TypeOK /\ api \in Nat /\ feedApi \in Nat /\ api # 0 /\ feedApi <= api
  BY DEF FeedInv, NotAhead, TypeOK, SocketTypeOK
<1> DEFINE then == [call[c] EXCEPT !.at = "send", !.on = api]
<1>2. /\ then.at = "send" /\ then.op = call[c].op
      /\ then.tokens = call[c].tokens /\ then.on = api
  BY <1>1 DEF TypeOK, FeedTypeOK, Calls
<1>3. /\ call[c].at = "counted" /\ call' = [call EXCEPT ![c] = then]
      /\ UNCHANGED <<socketVars, counts, subscribed, lists, crossed>>
  BY <1>1 DEF Address
<1> HIDE DEF then
<1>4. call'[c] = then /\ \A d \in Callers : d # c => call'[d] = call[d]
  BY <1>1, <1>3 DEF TypeOK, FeedTypeOK
<1>5. ASSUME NEW op, NEW t, NEW d \in Callers
      PROVE  SendsFrom(d, op, t)' <=> SendsFrom(d, op, t)
  BY <1>1, <1>2, <1>3, <1>4 DEF SendsFrom, socketVars
<1>6. \A op, t : Sending(op, t)' <=> Sending(op, t)
  BY <1>5 DEF Sending, SendsFrom
<1> QED
  BY <1>3, <1>6, FeedStays

\* A call that is sent moves its tokens to the side that they are counted on.
LEMMA SendSettles ==
  ASSUME FeedInv, NEW c \in Callers, Send(c)
  PROVE  NotAhead' /\ ClosedIsEmpty' /\ AllSettled'
<1> DEFINE op == call[c].op
           tokens == call[c].tokens
<1>1. TypeOK /\ op \in Ops /\ feedApi \in Nat
  BY DEF FeedInv, TypeOK, FeedTypeOK, SocketTypeOK, Calls, Ops
<1>2. /\ UNCHANGED <<counts, lists, crossed, api, feedApi, socket>>
      /\ subscribed' = IF op = "ensure" THEN subscribed \cup tokens ELSE subscribed \ tokens
      /\ call[c].at = "send" /\ call[c].on = feedApi /\ socket = "open"
  BY DEF Send, Connected, socketVars
<1>3. call'[c].at = "idle" /\ \A d \in Callers : d # c => call'[d] = call[d]
  BY <1>1 DEF Send, Resting, TypeOK, FeedTypeOK
<1>4. NotAhead' /\ ClosedIsEmpty'
  BY <1>2 DEF FeedInv, NotAhead, ClosedIsEmpty
<1>5. ASSUME NEW t \in tokens PROVE Sending(op, t)
  <2>1. SendsFrom(c, op, t)
    BY <1>1, <1>2 DEF SendsFrom
  <2> QED
    BY <2>1, SendingIs
<1>6. ASSUME NEW o, NEW t
      PROVE  /\ Sending(o, t)' => Sending(o, t)
             /\ Sending(o, t) /\ ~(o = op /\ t \in tokens) => Sending(o, t)'
  <2>1. ~SendsFrom(c, o, t)'
    BY <1>3 DEF SendsFrom
  <2>2. SendsFrom(c, o, t) => o = op /\ t \in tokens
    BY DEF SendsFrom
  <2>3. \A d \in Callers : d # c => (SendsFrom(d, o, t)' <=> SendsFrom(d, o, t))
    BY <1>2, <1>3 DEF SendsFrom
  <2>4. Sending(o, t)' <=> \E d \in Callers : SendsFrom(d, o, t)'
    BY <1>2 DEF Sending, SendsFrom
  <2> HIDE DEF op, tokens
  <2> QED
    BY <2>1, <2>2, <2>3, <2>4, SendingIs
<1>7. ASSUME NEW t \in Tokens \ crossed PROVE Settled(t)'
  <2>1. Settled(t)
    BY <1>2 DEF FeedInv, AllSettled
  <2>2. counts' = counts /\ Listed' = Listed
    BY <1>2 DEF Listed
  <2>3. CASE t \in tokens /\ op = "ensure"
    <3>1. Sending("ensure", t)
      BY <1>5, <2>3
    <3>2. counts[t] > 0 /\ ~Sending("release", t)
      BY <2>1, <3>1 DEF Settled, Kept, Gone
    <3>3. t \in subscribed'
      BY <1>2, <2>3
    <3>4. ~Sending("release", t)'
      BY <1>6, <3>2
    <3> QED
      BY <2>2, <3>2, <3>3, <3>4 DEF Settled, Kept
  <2>4. CASE t \in tokens /\ op = "release"
    <3>1. Sending("release", t)
      BY <1>5, <2>4
    <3>2. ~(counts[t] > 0) /\ ~Sending("ensure", t) /\ t \notin Listed
      BY <2>1, <3>1 DEF Settled, Kept, Gone
    <3>3. t \notin subscribed'
      BY <1>2, <2>4
    <3>4. ~Sending("ensure", t)'
      BY <1>6, <3>2
    <3> QED
      BY <2>2, <3>2, <3>3, <3>4 DEF Settled, Gone
  <2>5. CASE t \notin tokens
    <3>1. \A o : Sending(o, t)' <=> Sending(o, t)
      BY <1>6, <2>5
    <3>2. t \in subscribed' <=> t \in subscribed
      BY <1>2, <2>5
    <3> QED
      BY <2>1, <2>2, <3>1, <3>2 DEF Settled, Kept, Gone
  <2> HIDE DEF op, tokens
  <2> QED
    BY <1>1, <2>3, <2>4, <2>5 DEF Ops
<1> QED
  BY <1>2, <1>4, <1>7 DEF AllSettled

\* The websocket's own steps.
LEMMA SocketSettles ==
  ASSUME FeedInv, SocketStep
  PROVE  NotAhead' /\ ClosedIsEmpty' /\ AllSettled'
<1>1. TypeOK /\ api \in Nat /\ feedApi \in Nat /\ api # 0 /\ feedApi <= api
  BY DEF FeedInv, NotAhead, TypeOK, SocketTypeOK
<1>2. CASE Renewed
  <2>1. feedApi' = feedApi /\ call' = call /\ api' = api + 1
        /\ UNCHANGED <<socket, counts, subscribed, lists, crossed>>
    BY <1>2 DEF Renewed, Login, feedVars
  <2>2. \A op, t : Sending(op, t)' <=> Sending(op, t)
    BY <2>1, SameSending
  <2>3. NotAhead' /\ ClosedIsEmpty'
    BY <1>1, <2>1 DEF FeedInv, NotAhead, ClosedIsEmpty
  <2>4. ASSUME NEW t PROVE Settled(t) => Settled(t)'
    BY <2>1, <2>2 DEF Settled, Kept, Gone, Listed
  <2> QED
    BY <2>1, <2>3, <2>4 DEF FeedInv, AllSettled
<1>3. CASE Started
  <2>1. socket' # "open" /\ subscribed' = {} /\ api' = api /\ feedApi' = api
    BY <1>3 DEF Started, Start
  <2> QED
    BY <1>1, <2>1 DEF NotAhead, ClosedIsEmpty, AllSettled
<1>4. CASE Opened
  <2>1. /\ socket' = "open" /\ UNCHANGED <<api, feedApi, counts, call, subscribed>>
        /\ subscribed = {}
        /\ lists' = lists \cup (IF Held = {} THEN {} ELSE {[tokens |-> Held, on |-> 0]})
        /\ crossed' = {t \in Tokens : IF t \in Held THEN Sending("release", t)
                                      ELSE Sending("ensure", t) \/ t \in Listed}
    BY <1>4 DEF Opened, Opens, FeedInv, ClosedIsEmpty
  <2>2. \A op, t : Sending(op, t)' <=> Sending(op, t)
    BY <2>1, SameSending
  <2>3. ASSUME NEW t PROVE t \in Listed' <=> t \in Listed \/ t \in Held
    <3> DEFINE l == [tokens |-> Held, on |-> 0]
    <3>1. l.tokens = Held /\ l.on = 0
      OBVIOUS
    <3>2. CASE Held = {}
      BY <2>1, <3>2 DEF Listed
    <3>3. CASE Held # {}
      <4>1. lists' = lists \cup {l}
        BY <2>1, <3>3
      <4> HIDE DEF l
      <4> QED
        BY <2>1, <3>1, <4>1, ListedIs DEF Listed
    <3> QED
      BY <3>2, <3>3
  <2>4. ASSUME NEW t \in Tokens \ crossed' PROVE Settled(t)'
    <3>1. t \in Held <=> counts[t] > 0
      BY DEF Held
    <3>2. IF counts[t] > 0 THEN ~Sending("release", t)
          ELSE ~Sending("ensure", t) /\ t \notin Listed
      BY <2>1, <2>4 DEF Held
    <3> QED
      BY <2>1, <2>2, <2>3, <3>1, <3>2 DEF Settled, Kept, Gone
  <2> QED
    BY <1>1, <2>1, <2>4 DEF NotAhead, ClosedIsEmpty, AllSettled
<1>5. ASSUME NEW l \in lists, Aimed(l)
      PROVE  NotAhead' /\ ClosedIsEmpty' /\ AllSettled'
  <2> DEFINE aimed == [l EXCEPT !.on = api]
  <2>1. l.on = 0 /\ lists' = (lists \ {l}) \cup {aimed}
        /\ UNCHANGED <<api, feedApi, socket, counts, call, subscribed, crossed>>
    BY <1>5 DEF Aimed, socketVars
  <2>2. aimed.tokens = l.tokens /\ aimed.on = api
    BY <1>1 DEF TypeOK, FeedTypeOK, Lists
  <2> HIDE DEF aimed
  <2>3. ASSUME NEW t PROVE t \in Listed' <=> t \in Listed
    BY <1>1, <2>1, <2>2 DEF Listed
  <2>4. \A op, t : Sending(op, t)' <=> Sending(op, t)
    BY <2>1, SameSending
  <2>5. ASSUME NEW t PROVE Settled(t) => Settled(t)'
    BY <2>1, <2>3, <2>4 DEF Settled, Kept, Gone
  <2> QED
    BY <1>1, <2>1, <2>5 DEF FeedInv, NotAhead, ClosedIsEmpty, AllSettled
<1>6. ASSUME NEW l \in lists, Resubscribed(l)
      PROVE  NotAhead' /\ ClosedIsEmpty' /\ AllSettled'
  <2>1. /\ UNCHANGED <<api, feedApi, socket, counts, call, crossed>>
        /\ subscribed' = subscribed \cup l.tokens /\ lists' = lists \ {l}
        /\ socket = "open" /\ l.on = feedApi
    BY <1>6 DEF Resubscribed, Connected, socketVars
  <2>2. \A op, t : Sending(op, t)' <=> Sending(op, t)
    BY <2>1, SameSending
  <2>3. ASSUME NEW t \in Tokens \ crossed PROVE Settled(t)'
    <3>1. Settled(t)
      BY <2>1 DEF FeedInv, AllSettled
    <3>2. t \in Listed' => t \in Listed
      BY <2>1 DEF Listed
    <3>3. CASE t \in l.tokens
      <4>1. t \in Listed /\ t \in subscribed'
        BY <1>1, <2>1, <3>3, ListedIs
      <4> QED
        BY <2>1, <2>2, <3>1, <4>1 DEF Settled, Kept, Gone
    <3>4. CASE t \notin l.tokens
      <4>1. t \in Listed' <=> t \in Listed
        BY <2>1, <3>4 DEF Listed
      <4>2. t \in subscribed' <=> t \in subscribed
        BY <2>1, <3>4
      <4> QED
        BY <2>1, <2>2, <3>1, <4>1, <4>2 DEF Settled, Kept, Gone
    <3> QED
      BY <3>3, <3>4
  <2> QED
    BY <1>1, <2>1, <2>3 DEF NotAhead, ClosedIsEmpty, AllSettled
<1>7. CASE Dropped
  <2>1. socket' = "off" /\ UNCHANGED <<api, feedApi>> /\ subscribed' = {}
    BY <1>7 DEF Dropped, Drops
  <2> QED
    BY <1>1, <2>1 DEF NotAhead, ClosedIsEmpty, AllSettled
<1> QED
  BY <1>2, <1>3, <1>4, <1>5, <1>6, <1>7 DEF SocketStep

\* Every step.
LEMMA NextSettles ==
  ASSUME FeedInv, [Next]_vars
  PROVE  FeedInv'
<1> DEFINE Goal == NotAhead' /\ ClosedIsEmpty' /\ AllSettled'
<1>1. TypeOK /\ TypeOK'
  BY NextTypes DEF FeedInv
<1>2. ASSUME NEW op, NEW tokens, Ask(op, tokens),
             UNCHANGED <<socketVars, counts, subscribed, lists, crossed>>
      PROVE  Goal
  BY <1>1, <1>2, AskSendsNothing, FeedStays DEF socketVars
<1>3. ASSUME UNCHANGED <<socketVars, feedVars>> PROVE Goal
  <2>1. \A op, t : Sending(op, t)' <=> Sending(op, t)
    BY <1>3, SameSending DEF feedVars, socketVars
  <2> QED
    BY <1>3, <2>1, FeedStays DEF feedVars
<1>4. ASSUME NEW k \in Chains, Create(k) PROVE Goal
  BY <1>2, <1>4 DEF Create
<1>5. ASSUME NEW v \in Viewers, Endpoint(v) \/ Client(v) PROVE Goal
  <2>1. ASSUME NEW k \in Chains, NEW from, NEW wait, NEW to, Look(v, k, from, wait, to)
        PROVE  Goal
    BY <1>3, <1>4, <2>1 DEF Look
  <2>2. CASE LookAgain(v)
    BY <1>1, <2>1, <2>2, ViewerIs DEF LookAgain
  <2>3. ASSUME NEW k \in Chains, Visit(v, k) PROVE Goal
    BY <2>1, <2>3 DEF Visit
  <2>4. CASE GoesOn(v) \/ PickUp(v) \/ LeaveEarly(v)
    BY <1>3, <2>4 DEF GoesOn, PickUp, LeaveEarly
  <2>5. CASE Leave(v)
    BY <1>2, <1>3, <2>5 DEF Leave
  <2> QED
    BY <1>5, <2>2, <2>3, <2>4, <2>5 DEF Endpoint, Client
<1>6. CASE Restart
  <2>1. socket' = "opening" /\ api' = 1 /\ feedApi' = 1 /\ subscribed' = {}
    BY <1>6 DEF Restart
  <2>2. Goal
    BY <1>1, <2>1 DEF NotAhead, ClosedIsEmpty, AllSettled, TypeOK, SocketTypeOK
  <2> QED
    BY <1>1, <2>2 DEF FeedInv
<1>7. ASSUME NEW t \in Tokens, Fill(t) \/ Close(t) PROVE Goal
  BY <1>2, <1>7 DEF Fill, Close
<1>8. ASSUME NEW c \in Callers, Thread(c) PROVE Goal
  BY <1>8, CountSettles, AddressSettles, SendSettles DEF Thread, FeedStep
<1>9. ASSUME Feed PROVE Goal
  BY <1>9, SocketSettles DEF Feed
<1>10. ASSUME UNCHANGED vars PROVE Goal
  BY <1>3, <1>10 DEF vars
<1>11. ASSUME NEW k \in Chains, Get(k) PROVE Goal
  BY <1>4, <1>11 DEF Get
<1> HIDE DEF Goal
<1>12. Goal \/ FeedInv'
  BY <1>5, <1>6, <1>7, <1>8, <1>9, <1>10, <1>11 DEF Next
<1> USE DEF Goal
<1> QED
  BY <1>1, <1>12 DEF FeedInv

\* The initial states.
LEMMA InitSettles ==
  ASSUME Init
  PROVE  FeedInv
BY InitTypes DEF Init, FeedInit, FeedInv, NotAhead, ClosedIsEmpty, AllSettled

\* When nothing is under way for a token, the broker sends its ticks exactly
\* if it is counted, through renewed logins, reconnections and calls that wait
\* for a websocket (ShoonyaOptionFeed._on_open), unless two calls for it were
\* under way at once.
THEOREM QuietStaysSubscribed == Spec => []QuietIsSubscribed
<1>1. Init => FeedInv
  BY InitSettles
<1>2. FeedInv /\ [Next]_vars => FeedInv'
  BY NextSettles
<1>3. FeedInv => QuietIsSubscribed
  BY DEF FeedInv, AllSettled, Settled, Kept, Gone, QuietIsSubscribed
<1> QED
  BY <1>1, <1>2, <1>3, PTL DEF Spec
=============================================================================
