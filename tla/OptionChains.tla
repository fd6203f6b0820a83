----------------------------- MODULE OptionChains -----------------------------
(***************************************************************************)
(* Live option chains and positions, the two users of the option feed.  A  *)
(* viewer is a client of the stream of a chain: its endpoint looks the     *)
(* chain up once before the response starts and once more inside it; the   *)
(* first look-up of a chain creates its cache and subscribes its tokens.   *)
(* Fills of a position subscribe its token, its close releases it.         *)
(***************************************************************************)
EXTENDS OptionFeed

CONSTANTS
  Chains,      \* (underlying, expiry)
  TokensOf,    \* tokens of the window of strikes of each chain
  Viewers,
  InPosition,  \* tokens the user trades
  MaxHolds,    \* bound: _refcounts
  MaxCaches,   \* bound: caches created by a process
  Restarts     \* whether the process may restart

ASSUME ChainsAssumption ==
  /\ TokensOf \in [Chains -> SUBSET Tokens] /\ InPosition \subseteq Tokens
  /\ MaxHolds \in Nat \ {0} /\ MaxCaches \in Nat \ {0} /\ Restarts \in BOOLEAN
ASSUME FiniteAssumption ==
  /\ IsFiniteSet(Chains) /\ Chains # {}
  /\ IsFiniteSet(Viewers) /\ IsFiniteSet(Callers)

VARIABLES
  caches,     \* _caches: the cache of each chain, 0 when there is none
  created,    \* how many caches have been created
  holds,      \* _refcounts
  viewer,     \* what each viewer's endpoint is doing
  positions,  \* tokens of open positions, in Redis
  inherited,  \* those opened before the process started, and not filled since
  taken       \* history: tokens released for inherited positions

serviceVars == <<caches, created, holds>>
positionVars == <<positions, inherited, taken>>
vars == <<socketVars, feedVars, serviceVars, viewer, positionVars>>

Streams == [at : {"away", "creating", "opening", "warming", "ready", "streaming"},
            chain : Chains, cache : Nat]
Away == [at |-> "away", chain |-> CHOOSE k \in Chains : TRUE, cache |-> 0]

TypeOK ==
  /\ SocketTypeOK /\ FeedTypeOK
  /\ caches \in [Chains -> Nat] /\ created \in Nat /\ holds \in [Chains -> Nat]
  /\ viewer \in [Viewers -> Streams]
  /\ {positions, inherited, taken} \subseteq SUBSET Tokens

\* The feed is created and started at start-up, when the session is there.
Init ==
  /\ api = 1 /\ feedApi = 1 /\ socket = "opening" /\ FeedInit
  /\ caches = [k \in Chains |-> 0] /\ created = 0
  /\ holds = [k \in Chains |-> 0]
  /\ viewer = [v \in Viewers |-> Away]
  /\ positions = {} /\ inherited = {} /\ taken = {}

-----------------------------------------------------------------------------
\* OptionChainService

\* _get_or_create_cache for a chain that has none: the cache is there before
\* its tokens are subscribed, which a thread is asked to do.
Create(k) ==
  /\ caches[k] = 0 /\ created < MaxCaches
  /\ created' = created + 1
  /\ caches' = [caches EXCEPT ![k] = created + 1]
  /\ Ask("ensure", TokensOf[k])
  /\ UNCHANGED <<socketVars, counts, subscribed, lists, crossed>>

\* A slip: the endpoint's own look-up is not counted.
HoldInStream(k, first) ==
  holds' = IF first THEN holds ELSE [holds EXCEPT ![k] = @ + 1]

\* _acquire, at the end of get_cache_for_stream, both times.
Hold(k, first) == holds' = [holds EXCEPT ![k] = @ + 1]

Becomes(v, at, k, cache) ==
  viewer' = [viewer EXCEPT ![v] = [at |-> at, chain |-> k, cache |-> cache]]

\* GET creates a cache, and holds nothing.
Get(k) == Create(k) /\ UNCHANGED <<holds, viewer, positionVars>>

\* get_cache_for_stream of the endpoint (from "away"), and again of the task
\* inside the stream: a chain that is cached is held at once.
Look(v, k, from, wait, to) ==
  /\ viewer[v].at = from
  /\ IF caches[k] # 0
     THEN /\ Hold(k, from = "away")
          /\ Becomes(v, to, k, IF to = "ready" THEN caches[k] ELSE 0)
          /\ UNCHANGED <<socketVars, feedVars, caches, created>>
     ELSE Create(k) /\ Becomes(v, wait, k, created + 1) /\ UNCHANGED holds
  /\ UNCHANGED positionVars

\* The cache was created by this look-up: it is held now, be it evicted.
\* wait_for gives up after FEED_SUBSCRIBE_TIMEOUT_SECS, and every quote of
\* _seed_from_rest after eight seconds, so that waiting ends in any state.
GoesOn(v) == LET k == viewer[v].chain
                 first == viewer[v].at = "creating"
  IN
  /\ viewer[v].at \in {"creating", "warming"}
  /\ Hold(k, first)
  /\ IF first THEN Becomes(v, "opening", k, 0)
     ELSE Becomes(v, "ready", k, viewer[v].cache)
  /\ UNCHANGED <<socketVars, feedVars, caches, created, positionVars>>

\* Every viewer on its way in adds two holders at most.
Room(k) ==
  holds[k] + 2 * Cardinality({v \in Viewers : viewer[v].chain = k /\
    viewer[v].at \notin {"away", "streaming"}}) + 2 <= MaxHolds

Visit(v, k) == Room(k) /\ Look(v, k, "away", "creating", "opening")
LookAgain(v) == Look(v, viewer[v].chain, "opening", "warming", "ready")

\* The stream picks up the result of the task at its next poll.
PickUp(v) ==
  /\ viewer[v].at = "ready" /\ viewer' = [viewer EXCEPT ![v].at = "streaming"]
  /\ UNCHANGED <<socketVars, feedVars, serviceVars, positionVars>>

\* The client leaves before: the task is cancelled, nothing is released.
LeaveEarly(v) ==
  /\ viewer[v].at \in {"opening", "warming", "ready"}
  /\ viewer' = [viewer EXCEPT ![v] = Away]
  /\ UNCHANGED <<socketVars, feedVars, serviceVars, positionVars>>

\* release_chain; whoever lets the count reach zero evicts the chain.
Leave(v) == LET k == viewer[v].chain IN
  /\ viewer[v].at = "streaming"
  /\ viewer' = [viewer EXCEPT ![v] = Away]
  /\ IF holds[k] > 1
     THEN /\ holds' = [holds EXCEPT ![k] = @ - 1]
          /\ UNCHANGED <<feedVars, caches>>
     ELSE /\ holds' = [holds EXCEPT ![k] = 0]
          /\ caches' = [caches EXCEPT ![k] = 0]
          /\ IF caches[k] = 0 THEN UNCHANGED feedVars
             ELSE /\ Ask("release", TokensOf[k])
                  /\ UNCHANGED <<counts, subscribed, lists, crossed>>
  /\ UNCHANGED <<socketVars, created, positionVars>>

-----------------------------------------------------------------------------
\* PositionTickService, as apply_fill calls it

\* Every fill that leaves the position open counts once more.
Fill(t) ==
  /\ t \in InPosition /\ counts[t] < MaxCount
  /\ Ask("ensure", {t})
  /\ positions' = positions \cup {t} /\ inherited' = inherited \ {t}
  /\ UNCHANGED <<socketVars, counts, subscribed, lists, crossed, serviceVars,
                 viewer, taken>>

\* A fill that closes it.  The executor has two threads: this job may take the
\* lock before one that was submitted earlier.
Closes(t) == t \in positions

Close(t) ==
  /\ Closes(t)
  /\ Ask("release", {t})
  /\ positions' = positions \ {t} /\ inherited' = inherited \ {t}
  /\ taken' = IF t \in inherited THEN taken \cup {t} ELSE taken
  /\ UNCHANGED <<socketVars, counts, subscribed, lists, crossed, serviceVars,
                 viewer>>

-----------------------------------------------------------------------------
\* A new process, logged in: positions are in Redis, everything else is gone.
Restart ==
  /\ Restarts /\ positions # {}
  /\ api' = 1 /\ feedApi' = 1 /\ socket' = "opening"
  /\ counts' = [t \in Tokens |-> 0] /\ call' = [c \in Callers |-> Resting]
  /\ subscribed' = {} /\ lists' = {} /\ crossed' = {}
  /\ caches' = [k \in Chains |-> 0] /\ holds' = [k \in Chains |-> 0]
  /\ viewer' = [v \in Viewers |-> Away]
  /\ created' = 0 /\ inherited' = positions /\ taken' = {}
  /\ UNCHANGED positions

Feed == SocketStep /\ UNCHANGED <<serviceVars, viewer, positionVars>>
Thread(c) == FeedStep(c) /\ UNCHANGED <<serviceVars, viewer, positionVars>>

Endpoint(v) == GoesOn(v) \/ LookAgain(v) \/ PickUp(v)
Client(v) == LeaveEarly(v) \/ Leave(v) \/ \E k \in Chains : Visit(v, k)

Next ==
  \/ Feed \/ Restart
  \/ \E c \in Callers : Thread(c)
  \/ \E v \in Viewers : Endpoint(v) \/ Client(v)
  \/ \E k \in Chains : Get(k)
  \/ \E t \in Tokens : Fill(t) \/ Close(t)

Spec == Init /\ [][Next]_vars

-----------------------------------------------------------------------------
\* A viewer that streams looks at the cache that gets the ticks: no viewer is
\* cut off by another that leaves, whatever awaits lie between the look-up of
\* a cache and the count of its holders (_release).
ViewersKeepTheirChain ==
  \A v \in Viewers :
    viewer[v].at = "streaming" => viewer[v].cache = caches[viewer[v].chain]

\* The feed counts every token of a cached chain, however its calls and those
\* for positions overlap, except for tokens released for a position that was
\* opened in an earlier process.
CachedIsCounted ==
  \A k \in Chains : caches[k] # 0 =>
    \A t \in TokensOf[k] \ taken : counts[t] > 0 \/ Queued("ensure", t)

\* The same without the exception (ShoonyaOptionFeed.py, lines 10 to 13: a
\* token is unsubscribed once no active cache references it anymore).
NeverTaken ==
  \A k \in Chains : caches[k] # 0 =>
    \A t \in TokensOf[k] : counts[t] > 0 \/ Queued("ensure", t)

\* When nothing is under way for a token, the broker sends its ticks exactly
\* if somebody holds it, through reconnections and renewed sessions; not so
\* once two calls for it were under way at the same time.
QuietIsSubscribed ==
  socket = "open" =>
    \A t \in Tokens \ crossed :
      \/ Sending("ensure", t) \/ Sending("release", t) \/ t \in Listed
      \/ t \in subscribed <=> counts[t] > 0
=============================================================================
