---------------------------- MODULE SessionProofs ----------------------------
(***************************************************************************)
(* The session with the broker, for any number of days, failures, pasted   *)
(* codes and lost websockets: its type, the refinement of FeedSocket, on   *)
(* which the option feed is modelled, and that a feed without a websocket  *)
(* is not forgotten.                                                       *)
(***************************************************************************)
EXTENDS BrokerSession, TLAPS

\* The owners of connections are three, and None is none of them.
LEMMA ActorNames == Actors = {"boot", "loop", "admin"} /\ None \notin Actors
BY SessionAssumption DEF Actors

-----------------------------------------------------------------------------
(* The invariant.                                                          *)

\* There is a websocket, or any trace of one, only where a login has built an
\* instance to open it on.
Traces == feed \/ socket # "off" \/ scheduled # 0 \/ late # 0
OnAnInstance == Traces => api["boot"] # 0

\* A login that has got as far as its test quote has built an instance.
BuiltOne ==
  \A a \in Actors :
    login[a].at \in {"built", "ok"} /\ login[a].on = "boot" => api["boot"] # 0

\* The start-up logs in on the connection of its own.
BootIsItsOwn == login["boot"].at # "idle" => login["boot"].on = "boot"

\* The flag is only set while a reconnect loop is there to reset it.
FlagHasALoop == reconnecting => scheduled # 0

SessionInv ==
  /\ TypeOK /\ OnAnInstance /\ BuiltOne /\ BootIsItsOwn /\ FlagHasALoop
  /\ ReconnectIsDue

\* There is room for a reconnect loop or there is not.
LEMMA LoopsBound == MaxLoops \in Nat
BY SessionAssumption DEF Bounds

-----------------------------------------------------------------------------
(* The type.                                                                *)

\* Using up a bound keeps the counters natural numbers.
LEMMA SpendTyped ==
  ASSUME TypeOK, NEW what \in Counters, NEW bound, Spend(what, bound)
  PROVE  spent' \in [Counters -> Nat]
  BY DEF TypeOK, Spend, Counters

\* A failure uses one up.
LEMMA FailsTyped ==
  ASSUME TypeOK, Fails
  PROVE  spent' \in [Counters -> Nat]
  BY SpendTyped DEF Fails, Counters

\* Scheduling a reconnection sets the flag, and leaves a loop to reset it
\* unless the flag was set without one.
LEMMA ScheduleEffect ==
  ASSUME NEW flag \in BOOLEAN, NEW n \in 0 .. MaxLoops, Schedule(flag, n)
  PROVE  /\ reconnecting' = TRUE /\ scheduled' \in 0 .. MaxLoops
         /\ ~flag \/ n # 0 => scheduled' # 0
  BY LoopsBound DEF Schedule

\* start() opens on the newest instance, and sets the flag only with a loop.
LEMMA StartEffect ==
  ASSUME TypeOK, NEW n \in 0 .. MaxLoops, StartFeed(n)
  PROVE  /\ feedApi' = api["boot"] /\ feedApi' \in Nat
         /\ reconnecting' \in BOOLEAN /\ scheduled' \in 0 .. MaxLoops /\ late' \in Nat
         /\ stuck' \in Nat
         /\ reconnecting' => scheduled' # 0
<1>1. feedApi' = api["boot"] /\ api["boot"] \in Nat
  BY ActorNames DEF StartFeed, Newest, TypeOK
<1>2. stuck' \in Nat
  BY DEF StartFeed, StillStuck, TypeOK
<1>3. CASE reconnecting' = FALSE /\ scheduled' = n /\ late' = late
  BY <1>1, <1>3, <1>2 DEF TypeOK
<1>4. CASE Schedule(FALSE, n) /\ late' = late
  BY <1>1, <1>4, <1>2, ScheduleEffect DEF TypeOK
<1>5. CASE late' = late + 1 /\ reconnecting' = FALSE /\ scheduled' = n
  <2>1. late \in Nat /\ late' \in Nat
    BY <1>5 DEF TypeOK
  <2> QED
    BY <1>1, <1>5, <1>2, <2>1
<1> QED
  BY <1>3, <1>4, <1>5 DEF StartFeed, Superseded

\* Every action keeps the type.
LEMMA TypeStep == TypeOK /\ [Next]_vars => TypeOK'
<1> SUFFICES ASSUME TypeOK, [Next]_vars PROVE TypeOK'
  OBVIOUS
<1> USE ActorNames
<1>1. CASE BootAsks
  BY <1>1 DEF BootAsks, Asks, TypeOK, Owners, Logins, sessionVars, actorVars,
      feedVars
<1>2. CASE BootLogsIn
  BY <1>2 DEF BootLogsIn, Asks, TypeOK, Owners, Logins, sessionVars,
      actorVars, feedVars
<1>3. CASE BootSucceeds
  <2>1. /\ login' \in [Actors -> Logins] /\ boot' = "done" /\ loop' = "pick"
        /\ current' = "boot" /\ UNCHANGED <<api, connected, mine>>
    BY <1>3 DEF BootSucceeds, Serves, Idle, TypeOK, Owners, Logins
  <2>2. CASE feed' = TRUE /\ Starts(scheduled) /\ UNCHANGED spent
    BY <2>1, <2>2, StartEffect DEF Starts, TypeOK, Owners
  <2>3. CASE Fails /\ UNCHANGED feedVars
    BY <2>1, <2>3, FailsTyped DEF Counters, TypeOK, Owners, feedVars
  <2> QED
    BY <1>3, <2>2, <2>3 DEF BootSucceeds
<1>4. CASE BootFails
  BY <1>4 DEF BootFails, Serves, Idle, TypeOK, Owners, Logins, sessionVars,
      actorVars, feedVars
<1>5. CASE TimesOut
  BY <1>5, FailsTyped DEF TimesOut, Counters, Serves, Idle, TypeOK, Owners,
      Logins, sessionVars, actorVars, feedVars
<1>6. CASE Picks
  BY <1>6 DEF Picks, TypeOK, Owners, Logins, sessionVars, actorVars, feedVars
<1>7. CASE Crashes
  BY <1>7, FailsTyped DEF Crashes, Supervised, Counters, TypeOK, Owners,
      Logins, sessionVars, actorVars, feedVars
<1>8. CASE Retries
  BY <1>8 DEF Retries, Asks, TypeOK, Owners, Logins, sessionVars, actorVars,
      feedVars
<1>9. CASE Rests
  BY <1>9 DEF Rests, TypeOK, Owners, Logins, sessionVars, actorVars, feedVars
<1>10. CASE Refreshes
  <2>1. connected' \in [Actors -> BOOLEAN]
    BY <1>10, Zenon DEF Refreshes, TypeOK
  <2>2. spent' \in [Counters -> Nat]
    BY <1>10, SpendTyped DEF Refreshes, Counters, TypeOK
  <2>3. login' \in [Actors -> Logins]
    BY <1>10 DEF Refreshes, Asks, TypeOK, Logins
  <2> QED
    BY <1>10, <2>1, <2>2, <2>3 DEF Refreshes, Counters, TypeOK, feedVars
<1>11. CASE LoopSucceeds
  <2>1. /\ login' \in [Actors -> Logins] /\ loop' \in {"sleep", "pick"}
        /\ current' = mine /\ UNCHANGED <<api, connected, boot, mine>>
    BY <1>11 DEF LoopSucceeds, Idle, TypeOK, Owners, Logins
  <2>2. CASE UNCHANGED <<feedVars, spent>>
    BY <2>1, <2>2 DEF TypeOK, feedVars
  <2>3. CASE UNCHANGED feed /\ Starts(scheduled) /\ UNCHANGED spent
    BY <2>1, <2>3, StartEffect DEF Starts, TypeOK
  <2>4. CASE /\ UNCHANGED feed /\ StartFeed(scheduled) /\ socket' = "off"
             /\ lost' = TRUE /\ Fails
    BY <2>1, <2>4, StartEffect, FailsTyped DEF Counters, TypeOK
  <2> QED
    BY <1>11, <2>2, <2>3, <2>4 DEF LoopSucceeds, RestartFeed
<1>12. CASE LoopFails
  BY <1>12 DEF LoopFails, Idle, TypeOK, Owners, Logins, sessionVars,
      actorVars, feedVars
<1>13. CASE Pastes
  <2>1. spent' \in [Counters -> Nat]
    BY <1>13, SpendTyped DEF Pastes, Counters
  <2>2. connected' \in [Actors -> BOOLEAN]
    <3>1. CASE current # None
      BY <1>13, <3>1 DEF Pastes, TypeOK
    <3>2. CASE current = None
      BY <1>13, <3>2, Zenon DEF Pastes, TypeOK
    <3> QED
      BY <3>1, <3>2
  <2>3. login' \in [Actors -> Logins]
    BY <1>13 DEF Pastes, Asks, TypeOK, Owners, Logins
  <2> QED
    BY <1>13, <2>1, <2>2, <2>3 DEF Pastes, Counters, TypeOK, feedVars
<1>14. CASE Answers
  BY <1>14 DEF Answers, Idle, TypeOK, Owners, Logins, sessionVars, actorVars,
      feedVars
<1>15. ASSUME NEW a \in Actors, Refused(a) PROVE TypeOK'
  BY <1>15, FailsTyped DEF Refused, Counters, TypeOK, Owners, Logins,
      sessionVars, actorVars, feedVars
<1>16. ASSUME NEW a \in Actors, Built(a) PROVE TypeOK'
  <2>1. login' \in [Actors -> Logins]
    BY <1>16 DEF Built, TypeOK, Logins
  <2>2. api' \in [Actors -> Nat]
    <3> DEFINE o == login[a].on
    <3>1. /\ api' = [api EXCEPT ![o] = api[o] + 1] /\ api \in [Actors -> Nat]
      BY <1>16 DEF Built, TypeOK
    <3> HIDE DEF o
    <3>2. CASE o \in Actors
      <4>1. api[o] + 1 \in Nat
        BY <3>1, <3>2
      <4> QED
        BY <3>1, <3>2, <4>1
    <3>3. CASE o \notin Actors
      BY <3>1, <3>3
    <3> QED
      BY <3>2, <3>3
  <2>3. connected' \in [Actors -> BOOLEAN]
    BY <1>16, Zenon DEF Built, TypeOK
  <2>4. lost' \in BOOLEAN
    BY <1>16, Zenon DEF Built
  <2> QED
    BY <1>16, <2>1, <2>2, <2>3, <2>4 DEF Built, TypeOK
<1>17. ASSUME NEW a \in Actors, Verified(a) PROVE TypeOK'
  <2>1. login' \in [Actors -> Logins]
    BY <1>17 DEF Verified, TypeOK, Logins
  <2>2. connected' \in [Actors -> BOOLEAN]
    BY <1>17, Zenon DEF Verified, TypeOK
  <2> QED
    BY <1>17, <2>1, <2>2 DEF Verified, TypeOK, feedVars
<1>18. ASSUME NEW a \in Actors, Rejected(a) PROVE TypeOK'
  BY <1>18, FailsTyped DEF Rejected, Counters, TypeOK, Owners, Logins,
      sessionVars, actorVars, feedVars
<1>19. CASE Closed
  <2>1. late' \in Nat
    BY <1>19 DEF Closed, TypeOK
  <2>2. reconnecting' \in BOOLEAN /\ scheduled' \in 0 .. MaxLoops
    BY <1>19, ScheduleEffect DEF Closed, TypeOK
  <2> QED
    BY <1>19, <2>1, <2>2 DEF Closed, TypeOK, sessionVars, actorVars
<1>20. CASE Reconnected
  <2>1. scheduled - 1 \in 0 .. MaxLoops /\ Starts(scheduled - 1)
    BY <1>20, LoopsBound DEF Reconnected, TypeOK
  <2> QED
    BY <1>20, <2>1, StartEffect DEF Reconnected, Starts, TypeOK, sessionVars,
        actorVars
<1>21. CASE NotReconnected
  <2>1. scheduled' \in 0 .. MaxLoops /\ late' \in Nat
    BY <1>21, LoopsBound DEF NotReconnected, TypeOK
  <2>2. spent' \in [Counters -> Nat]
    BY <1>21, FailsTyped DEF NotReconnected
  <2>3. stuck' \in Nat /\ feedApi' \in Nat
    BY <1>21 DEF NotReconnected, StillStuck, Newest, TypeOK
  <2> QED
    BY <1>21, <2>1, <2>2, <2>3 DEF NotReconnected, TypeOK, sessionVars, actorVars
<1>22. CASE Opened
  <2>1. late' \in Nat /\ stuck' \in Nat
    BY <1>22 DEF Opened, TypeOK
  <2> QED
    BY <1>22, <2>1 DEF Opened, TypeOK, sessionVars, actorVars
<1>23. CASE Dropped
  <2>1. late' \in Nat
    BY <1>23 DEF Dropped, TypeOK
  <2>2. spent' \in [Counters -> Nat]
    BY <1>23, SpendTyped DEF Dropped, Counters
  <2> QED
    BY <1>23, <2>1, <2>2 DEF Dropped, TypeOK, sessionVars, actorVars
<1>24. CASE UNCHANGED vars
  BY <1>24 DEF TypeOK, vars, sessionVars, actorVars, feedVars
<1> QED
  BY <1>1, <1>2, <1>3, <1>4, <1>5, <1>6, <1>7, <1>8, <1>9, <1>10, <1>11,
      <1>12, <1>13, <1>14, <1>15, <1>16, <1>17, <1>18, <1>19, <1>20, <1>21,
      <1>22, <1>23, <1>24 DEF Next, Boot, Loop, Thread, Feed

-----------------------------------------------------------------------------
(* What a step does to the session and the feed.                           *)

Quiet == UNCHANGED <<api, feedVars>>
Restarts ==
  /\ api["boot"] # 0 /\ UNCHANGED api
  /\ \E n \in 0 .. MaxLoops : Starts(n)
Raises ==
  /\ api["boot"] # 0 /\ UNCHANGED api
  /\ \E n \in 0 .. MaxLoops : StartFeed(n)
  /\ socket' = "off" /\ lost' = TRUE

\* Most actions leave both alone; those that start the feed do so on an
\* instance that was built.
LEMMA Moves ==
  ASSUME SessionInv, [Next]_vars
  PROVE  \/ Quiet \/ Restarts \/ Raises
         \/ \E a \in Actors : Built(a)
         \/ Opened \/ Dropped \/ Closed \/ NotReconnected
<1>1. TypeOK /\ OnAnInstance /\ BuiltOne /\ BootIsItsOwn
  BY DEF SessionInv
<1>2. scheduled \in 0 .. MaxLoops /\ "boot" \in Actors
  BY <1>1, ActorNames DEF TypeOK
<1>3. CASE BootSucceeds
  <2>1. api["boot"] # 0 /\ UNCHANGED api
    BY <1>1, <1>2, <1>3 DEF BootSucceeds, BuiltOne, BootIsItsOwn
  <2>2. (\E n \in 0 .. MaxLoops : Starts(n)) \/ UNCHANGED feedVars
    BY <1>2, <1>3 DEF BootSucceeds
  <2> QED
    BY <2>1, <2>2 DEF Quiet, Restarts
<1>4. CASE LoopSucceeds
  <2>1. UNCHANGED api
    BY <1>4 DEF LoopSucceeds
  <2>2. CASE ~feed
    BY <1>4, <2>1, <2>2 DEF LoopSucceeds, RestartFeed, Quiet
  <2>3. CASE feed
    <3>1. api["boot"] # 0
      BY <1>1, <2>3 DEF OnAnInstance, Traces
    <3>2. \/ Starts(scheduled)
          \/ StartFeed(scheduled) /\ socket' = "off" /\ lost' = TRUE
      BY <1>4, <2>3 DEF LoopSucceeds, RestartFeed
    <3> QED
      BY <1>2, <2>1, <3>1, <3>2 DEF Restarts, Raises
  <2> QED
    BY <2>2, <2>3
<1>5. CASE Reconnected
  <2>1. scheduled - 1 \in 0 .. MaxLoops /\ Starts(scheduled - 1) /\ UNCHANGED api
    BY <1>2, <1>5, LoopsBound DEF Reconnected, sessionVars
  <2>2. api["boot"] # 0
    BY <1>1, <1>2, <1>5 DEF Reconnected, OnAnInstance, Traces
  <2> QED
    BY <2>1, <2>2 DEF Restarts
<1>6. CASE BootAsks \/ BootLogsIn \/ BootFails \/ TimesOut
  BY <1>6 DEF BootAsks, BootLogsIn, BootFails, TimesOut, Quiet, sessionVars
<1>7. CASE Picks \/ Crashes \/ Retries \/ Rests \/ Refreshes \/ LoopFails
  BY <1>7 DEF Picks, Crashes, Retries, Rests, Refreshes, LoopFails, Quiet,
      sessionVars
<1>8. CASE Pastes \/ Answers \/ UNCHANGED vars
  BY <1>8 DEF Pastes, Answers, Quiet, vars, sessionVars
<1>9. ASSUME NEW a \in Actors, Refused(a) \/ Verified(a) \/ Rejected(a)
      PROVE  Quiet
  BY <1>9 DEF Refused, Verified, Rejected, Quiet, sessionVars
<1> QED
  BY <1>3, <1>4, <1>5, <1>6, <1>7, <1>8, <1>9 DEF Next, Boot, Loop, Thread, Feed

\* An instance once built is replaced, never taken away.
LEMMA ApiStays ==
  ASSUME SessionInv, [Next]_vars
  PROVE  /\ api["boot"] # 0 => api'["boot"] # 0
         /\ api'["boot"] = api["boot"] \/ api'["boot"] = api["boot"] + 1
<1>1. api \in [Actors -> Nat] /\ "boot" \in Actors /\ api["boot"] \in Nat
  BY ActorNames DEF SessionInv, TypeOK
<1>2. ASSUME NEW a \in Actors, Built(a)
      PROVE  api'["boot"] = api["boot"] \/ api'["boot"] = api["boot"] + 1
  BY <1>1, <1>2 DEF Built
<1>3. api'["boot"] = api["boot"] \/ api'["boot"] = api["boot"] + 1
  BY Moves, <1>2 DEF Quiet, Restarts, Raises, Opened, Dropped, Closed,
      NotReconnected, sessionVars
<1> QED
  BY <1>1, <1>3

\* A step of the session is a step of the socket, or none.
LEMMA StepImplements ==
  ASSUME SessionInv, [Next]_vars
  PROVE  [Socket!SocketNext]_(Socket!socketVars)
<1> USE DEF Socket!SocketNext, Socket!socketVars
<1>1. TypeOK /\ OnAnInstance
  BY DEF SessionInv
<1>2. CASE Quiet
  BY <1>2 DEF Quiet, feedVars
<1>3. CASE Restarts
  BY <1>1, <1>3, StartEffect DEF Restarts, Starts, Socket!Start
<1>4. CASE Raises
  BY <1>1, <1>4, StartEffect DEF Raises, Socket!Start
<1>5. ASSUME NEW a \in Actors, Built(a)
      PROVE  Socket!Login \/ UNCHANGED Socket!socketVars
  <2>1. UNCHANGED <<feedApi, socket>>
    BY <1>5 DEF Built
  <2> QED
    BY <2>1, ApiStays DEF Socket!Login
<1>6. CASE Opened
  BY <1>6 DEF Opened, sessionVars, Socket!Opens
<1>7. CASE Dropped
  BY <1>7 DEF Dropped, sessionVars, Socket!Drops
<1>8. CASE Closed
  BY <1>8 DEF Closed, sessionVars, Socket!Drops
<1>9. CASE NotReconnected
  <2>1. api["boot"] # 0
    BY <1>1, <1>9 DEF NotReconnected, OnAnInstance, Traces, TypeOK
  <2> QED
    BY <1>9, <2>1 DEF NotReconnected, Newest, sessionVars, Socket!Start
<1> QED
  BY Moves, <1>2, <1>3, <1>4, <1>5, <1>6, <1>7, <1>8, <1>9

-----------------------------------------------------------------------------
(* The invariant is inductive.                                             *)

\* Before anybody has logged in it holds.
LEMMA InitInv == Init => SessionInv
<1> SUFFICES ASSUME Init PROVE SessionInv
  OBVIOUS
<1>1. Idle \in Logins /\ "boot" \in Actors
  BY ActorNames DEF Idle, Logins, Owners
<1>2. TypeOK
  <2>1. api \in [Actors -> Nat] /\ spent \in [Counters -> Nat]
    BY DEF Init, NoneSpent
  <2>2. connected \in [Actors -> BOOLEAN]
    BY Zenon DEF Init
  <2>3. login \in [Actors -> Logins]
    BY <1>1 DEF Init
  <2>4. feed \in BOOLEAN /\ reconnecting \in BOOLEAN /\ lost \in BOOLEAN
    BY Zenon DEF Init
  <2>5. scheduled \in 0 .. MaxLoops /\ late \in Nat /\ feedApi \in Nat /\ stuck \in Nat
    BY LoopsBound DEF Init
  <2>6. current \in Owners /\ mine \in Owners
    BY DEF Init, Owners
  <2> QED
    BY <2>1, <2>2, <2>3, <2>4, <2>5, <2>6 DEF Init, TypeOK
<1>3. OnAnInstance /\ FlagHasALoop /\ ReconnectIsDue
  BY DEF Init, OnAnInstance, Traces, FlagHasALoop, ReconnectIsDue
<1>4. BuiltOne /\ BootIsItsOwn
  BY <1>1 DEF Init, Idle, BuiltOne, BootIsItsOwn
<1> QED
  BY <1>2, <1>3, <1>4 DEF SessionInv

\* Logins and starts keep the order: first the instance, then its websocket.
LEMMA OnAnInstanceStep ==
  ASSUME SessionInv, [Next]_vars
  PROVE  OnAnInstance'
<1>1. TypeOK /\ OnAnInstance /\ (api["boot"] # 0 => api'["boot"] # 0)
  BY ApiStays DEF SessionInv
<1>2. CASE Quiet
  BY <1>1, <1>2 DEF Quiet, feedVars, OnAnInstance, Traces
<1>3. CASE Restarts \/ Raises
  BY <1>1, <1>3 DEF Restarts, Raises, OnAnInstance
<1>4. ASSUME NEW a \in Actors, Built(a) PROVE OnAnInstance'
  BY <1>1, <1>4 DEF Built, OnAnInstance, Traces
<1>5. CASE Opened \/ Dropped \/ Closed \/ NotReconnected
  <2>1. Traces /\ UNCHANGED api
    BY <1>1, <1>5 DEF Opened, Dropped, Closed, NotReconnected, Traces, TypeOK,
        sessionVars
  <2> QED
    BY <1>1, <2>1 DEF OnAnInstance
<1> QED
  BY Moves, <1>2, <1>3, <1>4, <1>5

\* Whoever sets the flag leaves a loop behind; only a start takes one away.
LEMMA FlagStep ==
  ASSUME SessionInv, [Next]_vars
  PROVE  FlagHasALoop'
<1>1. TypeOK /\ FlagHasALoop /\ reconnecting \in BOOLEAN /\ scheduled \in 0 .. MaxLoops
  BY DEF SessionInv, TypeOK
<1>2. CASE Quiet
  BY <1>1, <1>2 DEF Quiet, feedVars, FlagHasALoop
<1>3. CASE Restarts \/ Raises
  BY <1>1, <1>3, StartEffect DEF Restarts, Raises, Starts, FlagHasALoop
<1>4. ASSUME NEW a \in Actors, Built(a) PROVE FlagHasALoop'
  BY <1>1, <1>4 DEF Built, FlagHasALoop
<1>5. CASE Opened \/ Dropped \/ NotReconnected
  <2>1. CASE Opened
    BY <2>1 DEF Opened, FlagHasALoop
  <2>2. CASE Dropped
    BY <1>1, <2>2 DEF Dropped, FlagHasALoop
  <2>3. CASE NotReconnected
    BY <1>1, <2>3 DEF NotReconnected, FlagHasALoop
  <2> QED
    BY <1>5, <2>1, <2>2, <2>3
<1>6. CASE Closed
  BY <1>1, <1>6, ScheduleEffect DEF Closed, FlagHasALoop
<1> QED
  BY Moves, <1>2, <1>3, <1>4, <1>5, <1>6

\* A websocket that goes leaves a close, a close leaves a loop.
LEMMA DueStep ==
  ASSUME SessionInv, [Next]_vars
  PROVE  ReconnectIsDue'
<1>1. /\ TypeOK /\ FlagHasALoop /\ ReconnectIsDue
      /\ reconnecting \in BOOLEAN /\ scheduled \in 0 .. MaxLoops /\ late \in Nat
  BY DEF SessionInv, TypeOK
<1>2. CASE Quiet
  BY <1>1, <1>2 DEF Quiet, feedVars, ReconnectIsDue, OpenIsStuck
<1>3. CASE Restarts \/ Raises
  BY <1>3 DEF Restarts, Raises, Starts, ReconnectIsDue
<1>4. ASSUME NEW a \in Actors, Built(a) PROVE ReconnectIsDue'
  <2>1. UNCHANGED <<feed, socket, late, scheduled, stuck, feedApi>> /\ (lost => lost')
    BY <1>4, Zenon DEF Built
  <2> QED
    BY <1>1, <2>1 DEF ReconnectIsDue, OpenIsStuck
<1>5. CASE Opened \/ Dropped \/ NotReconnected
  <2>1. CASE Opened
    BY <2>1 DEF Opened, ReconnectIsDue
  <2>2. CASE Dropped
    BY <1>1, <2>2 DEF Dropped, ReconnectIsDue, OpenIsStuck
  <2>3. CASE NotReconnected
    BY <1>1, <2>3 DEF NotReconnected, ReconnectIsDue
  <2> QED
    BY <1>5, <2>1, <2>2, <2>3
<1>6. CASE Closed
  <2>1. scheduled' \in 0 .. MaxLoops /\ scheduled' # 0
    BY <1>1, <1>6, ScheduleEffect DEF Closed, FlagHasALoop
  <2> QED
    BY <2>1 DEF ReconnectIsDue
<1> QED
  BY Moves, <1>2, <1>3, <1>4, <1>5, <1>6

\* A thread gets to its test quote through Built alone.
LEMMA LoginStep ==
  ASSUME SessionInv, [Next]_vars
  PROVE  BuiltOne' /\ BootIsItsOwn'
<1> USE ActorNames
<1>1. /\ login \in [Actors -> Logins] /\ BuiltOne /\ BootIsItsOwn
      /\ api["boot"] # 0 => api'["boot"] # 0
  BY ApiStays DEF SessionInv, TypeOK
<1>2. CASE BootAsks
  BY <1>1, <1>2 DEF BootAsks, Asks, BuiltOne, BootIsItsOwn, Logins
<1>3. CASE BootLogsIn
  BY <1>1, <1>3 DEF BootLogsIn, Asks, BuiltOne, BootIsItsOwn, Logins
<1>4. CASE BootSucceeds
  BY <1>1, <1>4 DEF BootSucceeds, Serves, Idle, BuiltOne, BootIsItsOwn, Logins
<1>5. CASE BootFails
  BY <1>1, <1>5 DEF BootFails, Serves, Idle, BuiltOne, BootIsItsOwn, Logins
<1>6. CASE TimesOut
  BY <1>1, <1>6 DEF TimesOut, Serves, Idle, BuiltOne, BootIsItsOwn, Logins
<1>7. CASE Retries
  BY <1>1, <1>7 DEF Retries, Asks, BuiltOne, BootIsItsOwn, Logins
<1>8. CASE Refreshes
  BY <1>1, <1>8 DEF Refreshes, Asks, BuiltOne, BootIsItsOwn, Logins
<1>9. CASE LoopSucceeds
  BY <1>1, <1>9 DEF LoopSucceeds, Idle, BuiltOne, BootIsItsOwn, Logins
<1>10. CASE LoopFails
  BY <1>1, <1>10 DEF LoopFails, Idle, BuiltOne, BootIsItsOwn, Logins
<1>11. CASE Pastes
  BY <1>1, <1>11 DEF Pastes, Asks, BuiltOne, BootIsItsOwn, Logins
<1>12. CASE Answers
  BY <1>1, <1>12 DEF Answers, Idle, BuiltOne, BootIsItsOwn, Logins
<1>13. ASSUME NEW a \in Actors, Refused(a) PROVE BuiltOne' /\ BootIsItsOwn'
  BY <1>1, <1>13 DEF Refused, BuiltOne, BootIsItsOwn, Logins
<1>14. ASSUME NEW a \in Actors, Verified(a) PROVE BuiltOne' /\ BootIsItsOwn'
  BY <1>1, <1>14 DEF Verified, BuiltOne, BootIsItsOwn, Logins
<1>15. ASSUME NEW a \in Actors, Rejected(a) PROVE BuiltOne' /\ BootIsItsOwn'
  BY <1>1, <1>15 DEF Rejected, BuiltOne, BootIsItsOwn, Logins
<1>16. ASSUME NEW a \in Actors, Built(a) PROVE BuiltOne' /\ BootIsItsOwn'
  <2>1. login' = [login EXCEPT ![a].at = "built"] /\ login[a].at = "asked"
    BY <1>16 DEF Built
  <2>2. login[a].on = "boot" => api'["boot"] # 0
    <3>1. api \in [Actors -> Nat]
      BY DEF SessionInv, TypeOK
    <3> QED
      BY <1>16, <3>1 DEF Built
  <2> QED
    BY <1>1, <2>1, <2>2 DEF BuiltOne, BootIsItsOwn, Logins
<1>17. CASE UNCHANGED login
  BY <1>1, <1>17 DEF BuiltOne, BootIsItsOwn
<1> QED
  BY <1>2, <1>3, <1>4, <1>5, <1>6, <1>7, <1>8, <1>9, <1>10, <1>11, <1>12,
      <1>13, <1>14, <1>15, <1>16, <1>17 DEF Next, Boot, Loop, Thread, Feed,
      Picks, Crashes, Rests, Opened, Dropped, Closed, Reconnected,
      NotReconnected, vars, actorVars

\* The conjuncts together.
LEMMA InvStep == SessionInv /\ [Next]_vars => SessionInv'
  BY TypeStep, OnAnInstanceStep, LoginStep, FlagStep, DueStep DEF SessionInv

LEMMA InvHolds == Spec => []SessionInv
  BY InitInv, InvStep, PTL DEF Spec

-----------------------------------------------------------------------------
(* The theorems.                                                           *)

\* The types hold throughout (ShoonyaConnection, ShoonyaOptionFeed, lifespan).
THEOREM SessionTypeCorrect == Spec => []TypeOK
<1>1. SessionInv => TypeOK
  BY DEF SessionInv
<1> QED
  BY <1>1, InvHolds, PTL

\* Logins of anybody, starts, callbacks and reconnect loops, in whatever
\* order, do no more to the websocket than FeedSocket says: it is opened on
\* the newest instance of the session, and only after one was built.
THEOREM SessionImplementsSocket == Spec => ImplementsSocket
<1>1. Init => Socket!SocketInit
  BY ActorNames DEF Init, Socket!SocketInit
<1>2. SessionInv /\ [Next]_vars => [Socket!SocketNext]_(Socket!socketVars)
  BY StepImplements
<1> QED
  BY <1>1, <1>2, InvHolds, PTL DEF Spec, ImplementsSocket, Socket!SocketSpec

\* A feed without a websocket has a close to be reported or a reconnect loop
\* asleep, unless a start that raised or a pasted code has left it behind
\* (_schedule_reconnect, _reconnect_loop, start).
THEOREM ReconnectionIsDue == Spec => []ReconnectIsDue
<1>1. SessionInv => ReconnectIsDue
  BY DEF SessionInv
<1> QED
  BY <1>1, InvHolds, PTL
=============================================================================
