---------------------------- MODULE BrokerSession ----------------------------
(***************************************************************************)
(* The session with the broker: the start-up of the application, the loop  *)
(* that renews the session, the administrator who pastes a code, all of    *)
(* them logging in on a ShoonyaConnection, and the websocket of the option *)
(* feed, which is opened on what the last login has built and reconnects   *)
(* by itself.                                                              *)
(***************************************************************************)
EXTENDS Naturals

CONSTANTS
  None,         \* app.state.shoonya before anybody has logged in
  MaxDays,      \* bound: refreshes of a session that is connected
  MaxFailures,  \* bound: logins that fail, starts and loops that raise
  MaxRequests,  \* bound: codes the administrator pastes
  MaxDrops,     \* bound: websockets lost, and closes that are reported late
  MaxLoops      \* bound: reconnect loops asleep at the same time

Bounds == {MaxDays, MaxFailures, MaxRequests, MaxDrops, MaxLoops}
ASSUME SessionAssumption ==
  Bounds \subseteq Nat /\ None \notin {"boot", "loop", "admin"}

\* Who logs in; each may have a ShoonyaConnection of its own, with its name.
Actors == {"boot", "loop", "admin"}

VARIABLES
  api,           \* _api of every connection, counted from 1; 0: None
  connected,     \* _connected of every connection
  current,       \* app.state.shoonya
  login,         \* what every actor's thread is doing, and on which connection
  boot,          \* where the start-up is
  loop,          \* where schedule_daily_refresh is
  mine,          \* its local variable shoonya
  feed,          \* is there an app.state.option_feed? it is on the first connection
  feedApi,       \* _api_instance
  socket,        \* its websocket
  reconnecting,  \* _reconnecting
  scheduled,     \* reconnect loops that sleep
  late,          \* close callbacks that are due
  stuck,         \* the instance for which a thread of a websocket waits in
                 \* _on_open; 0: none
  lost,          \* history: since the feed was last started, a login passed it
                 \* by, or a start raised
  spent          \* how much of each bound is used up

sessionVars == <<api, connected, current>>
actorVars == <<login, boot, loop, mine>>
feedVars == <<feed, feedApi, socket, reconnecting, scheduled, late, stuck, lost>>
vars == <<sessionVars, actorVars, feedVars, spent>>

Counters == {"days", "failures", "requests", "drops"}
Owners == Actors \cup {None}
Logins == [at : {"idle", "asked", "built", "ok", "failed"}, on : Owners]

TypeOK ==
  /\ api \in [Actors -> Nat] /\ connected \in [Actors -> BOOLEAN]
  /\ current \in Owners /\ mine \in Owners
  /\ login \in [Actors -> Logins]
  /\ boot \in {"connect", "login", "done"}
  /\ loop \in {"off", "pick", "check", "retry", "sleep", "refresh"}
  /\ feed \in BOOLEAN /\ feedApi \in Nat /\ socket \in {"off", "opening", "open"}
  /\ reconnecting \in BOOLEAN /\ scheduled \in 0 .. MaxLoops
  /\ late \in Nat /\ stuck \in Nat /\ lost \in BOOLEAN
  /\ spent \in [Counters -> Nat]

Idle == [at |-> "idle", on |-> None]
NoneSpent == [what \in Counters |-> 0]

Init ==
  /\ api = [o \in Actors |-> 0] /\ connected = [o \in Actors |-> FALSE]
  /\ current = None
  /\ login = [a \in Actors |-> Idle]
  /\ boot = "connect" /\ loop = "off" /\ mine = None
  /\ feed = FALSE /\ feedApi = 0 /\ socket = "off"
  /\ reconnecting = FALSE /\ scheduled = 0 /\ late = 0 /\ stuck = 0 /\ lost = FALSE
  /\ spent = NoneSpent

Spend(what, bound) ==
  /\ spent[what] < bound /\ spent' = [spent EXCEPT ![what] = @ + 1]
Fails == Spend("failures", MaxFailures)

-----------------------------------------------------------------------------
\* Logging in, on a thread of the executor

Asks(a, o) == login' = [login EXCEPT ![a] = [at |-> "asked", on |-> o]]

\* Whatever comes before connect(): a stored token that is missing, the
\* browser that finds no code, the code that cannot be exchanged.
Refused(a) ==
  /\ login[a].at = "asked" /\ Fails
  /\ login' = [login EXCEPT ![a].at = "failed"]
  /\ UNCHANGED <<sessionVars, boot, loop, mine, feedVars>>

\* The feed is not told of a login of the administrator, nor of the failure
\* of one that overlaps it, which connects the session all the same.
PassedBy(a) == a = "admin" \/ login["admin"] = [at |-> "built", on |-> "boot"]

\* connect() up to its test quote; exchange_code and connect_with_token before.
Built(a) == LET o == login[a].on IN
  /\ login[a].at = "asked"
  /\ login' = [login EXCEPT ![a].at = "built"]
  /\ api' = [api EXCEPT ![o] = @ + 1]
  /\ connected' = [connected EXCEPT ![o] = FALSE]
  /\ lost' = (lost \/ (feed /\ o = "boot" /\ PassedBy(a)))
  /\ UNCHANGED <<current, boot, loop, mine, feed, feedApi, socket,
                 reconnecting, scheduled, late, stuck, spent>>

\* The test quote answers.  Another login on the same connection may have
\* replaced the instance meanwhile: nothing tells them apart.
Verified(a) ==
  /\ login[a].at = "built"
  /\ login' = [login EXCEPT ![a].at = "ok"]
  /\ connected' = [connected EXCEPT ![login[a].on] = TRUE]
  /\ UNCHANGED <<api, current, boot, loop, mine, feedVars, spent>>

Rejected(a) ==
  /\ login[a].at = "built" /\ Fails
  /\ login' = [login EXCEPT ![a].at = "failed"]
  /\ UNCHANGED <<sessionVars, boot, loop, mine, feedVars>>

-----------------------------------------------------------------------------
\* ShoonyaOptionFeed: start and its callbacks

\* A slip: the feed is started on the instance it had before.
StillTheOld == IF feedApi = 0 THEN api["boot"] ELSE feedApi

\* The instance of the last login, whether or not that login succeeded.
Newest == api["boot"]

\* A slip: start() leaves _reconnecting as it was.
Unchanged(flag) == flag

\* start() supersedes the reconnect loop, by the flag alone.
Superseded(flag) == FALSE

Schedule(flag, n) ==
  /\ reconnecting' = TRUE
  /\ IF flag THEN scheduled' = n ELSE n < MaxLoops /\ scheduled' = n + 1

\* The thread of the websocket of now calls subscribe() on an instance that is
\* not connected: it serves no other callback.
OpenIsStuck == stuck > feedApi

\* Whoever waits for an instance that was never started waits for ever.
StillStuck == IF stuck = Newest THEN stuck ELSE 0

\* start(), with n reconnect loops asleep.  Closing the old websocket may call
\* _on_close: not at all, while its thread is joined, or later than that.
StartFeed(n) == LET flag == Superseded(reconnecting)
                    reports == socket # "off" /\ ~OpenIsStuck
  IN
  /\ feedApi' = Newest /\ stuck' = StillStuck
  /\ \/ reconnecting' = flag /\ scheduled' = n /\ late' = late
     \/ reports /\ Schedule(flag, n) /\ late' = late
     \/ /\ reports /\ late < MaxDrops /\ late' = late + 1
        /\ reconnecting' = flag /\ scheduled' = n

Starts(n) == StartFeed(n) /\ socket' = "opening" /\ lost' = FALSE

\* _on_open: the websocket is connected and the tokens, if there are any, are
\* subscribed again, on the instance of the session: a newer one is not
\* connected.  Who waited for this one goes on, and may report its own close.
Opened ==
  /\ socket = "opening" /\ socket' = "open" /\ reconnecting' = FALSE
  /\ stuck' \in {0, IF api["boot"] = feedApi THEN 0 ELSE api["boot"]}
  /\ \/ late' = late
     \/ stuck = feedApi /\ late < MaxDrops /\ late' = late + 1
  /\ UNCHANGED <<sessionVars, actorVars, feed, feedApi, scheduled, lost, spent>>

\* The connection breaks, or was never made; a thread that is stuck does not
\* notice.
Dropped ==
  /\ socket # "off" /\ Spend("drops", MaxDrops) /\ socket' = "off"
  /\ IF OpenIsStuck THEN late' = late ELSE late < MaxDrops /\ late' = late + 1
  /\ UNCHANGED <<sessionVars, actorVars, feed, feedApi, reconnecting, scheduled,
                 stuck, lost>>

\* _on_close and _on_error stop the instance of now, be it another one.
Closed ==
  /\ late > 0 /\ late' = late - 1 /\ socket' = "off"
  /\ Schedule(reconnecting, scheduled)
  /\ UNCHANGED <<sessionVars, actorVars, feed, feedApi, stuck, lost, spent>>

\* _reconnect_loop after its five seconds.
Reconnected ==
  /\ scheduled > 0 /\ Starts(scheduled - 1)
  /\ UNCHANGED <<sessionVars, actorVars, feed, spent>>

\* A start that raises is repeated: the loop resets the flag and schedules
\* another one, beside that of a close reported meanwhile.
NotReconnected ==
  /\ scheduled > 0 /\ Fails
  /\ feedApi' = Newest /\ stuck' = StillStuck /\ socket' = "off"
  /\ reconnecting' = TRUE
  /\ \/ UNCHANGED <<scheduled, late>>
     \/ /\ socket # "off" /\ ~OpenIsStuck
        /\ \/ scheduled < MaxLoops /\ scheduled' = scheduled + 1 /\ UNCHANGED late
           \/ late < MaxDrops /\ late' = late + 1 /\ UNCHANGED scheduled
  /\ UNCHANGED <<sessionVars, actorVars, feed, lost>>

-----------------------------------------------------------------------------
\* lifespan

BootAsks ==
  /\ boot = "connect" /\ login["boot"] = Idle /\ Asks("boot", "boot")
  /\ UNCHANGED <<sessionVars, boot, loop, mine, feedVars, spent>>

\* The stored token is no good: auto_login, with a timeout of its own.
BootLogsIn ==
  /\ boot = "connect" /\ login["boot"].at = "failed"
  /\ boot' = "login" /\ Asks("boot", "boot")
  /\ UNCHANGED <<sessionVars, loop, mine, feedVars, spent>>

\* The refresh loop is started in any case, the feed only with a session.
Serves == boot' = "done" /\ loop' = "pick" /\ login' = [login EXCEPT !["boot"] = Idle]

\* The feed is there only if its first start() has not raised.
BootSucceeds ==
  /\ login["boot"].at = "ok" /\ Serves /\ current' = "boot"
  /\ \/ feed' = TRUE /\ Starts(scheduled) /\ UNCHANGED spent
     \/ Fails /\ UNCHANGED feedVars
  /\ UNCHANGED <<api, connected, mine>>

BootFails ==
  /\ boot = "login" /\ login["boot"].at = "failed" /\ Serves
  /\ UNCHANGED <<sessionVars, mine, feedVars, spent>>

\* The thread runs on, on a connection that nobody else sees.
TimesOut ==
  /\ login["boot"].at \in {"asked", "built"} /\ Fails /\ Serves
  /\ UNCHANGED <<sessionVars, mine, feedVars>>

-----------------------------------------------------------------------------
\* schedule_daily_refresh, under its supervisor

Picks ==
  /\ loop = "pick" /\ loop' = "check"
  /\ mine' = IF current = None THEN "loop" ELSE current
  /\ UNCHANGED <<sessionVars, login, boot, feedVars, spent>>

\* A slip: a task of its own, which nobody starts again.
Naked == loop = "pick" /\ loop' = "dead"

\* The supervisor runs it again after half a minute.
Supervised == loop = "pick" /\ loop' = "pick"

\* Making a ShoonyaConnection reads the environment, and may raise.
Crashes ==
  /\ current = None /\ Fails /\ Supervised
  /\ UNCHANGED <<sessionVars, login, boot, mine, feedVars>>

\* while not shoonya.is_connected
Retries ==
  /\ loop = "check" /\ ~connected[mine]
  /\ loop' = "retry" /\ Asks("loop", mine)
  /\ UNCHANGED <<sessionVars, boot, mine, feedVars, spent>>

Rests ==
  /\ loop = "check" /\ connected[mine] /\ loop' = "sleep"
  /\ UNCHANGED <<sessionVars, login, boot, mine, feedVars, spent>>

\* Half past eight: the session is given up whatever it is worth.
Refreshes ==
  /\ loop = "sleep" /\ loop' = "refresh" /\ Asks("loop", mine)
  /\ connected' = [connected EXCEPT ![mine] = FALSE]
  /\ IF connected[current] THEN Spend("days", MaxDays) ELSE UNCHANGED spent
  /\ UNCHANGED <<api, current, boot, mine, feedVars>>

\* A slip: what was open goes on, on the instance of before.
LeaveFeed == UNCHANGED <<feedVars, spent>>

\* An exception of start() is printed, and no more.
RestartFeed ==
  IF ~feed THEN UNCHANGED <<feedVars, spent>>
  ELSE /\ UNCHANGED feed
       /\ \/ Starts(scheduled) /\ UNCHANGED spent
          \/ StartFeed(scheduled) /\ socket' = "off" /\ lost' = TRUE /\ Fails

\* _auto_login of the loop has succeeded; the retry loop ends.
LoopSucceeds ==
  /\ login["loop"].at = "ok" /\ login' = [login EXCEPT !["loop"] = Idle]
  /\ loop' = IF loop = "retry" THEN "sleep" ELSE "pick"
  /\ current' = mine
  /\ RestartFeed
  /\ UNCHANGED <<api, connected, boot, mine>>

\* It has failed: again after five minutes, or at once after the refresh.
LoopFails ==
  /\ login["loop"].at = "failed" /\ login' = [login EXCEPT !["loop"] = Idle]
  /\ loop' = IF loop = "retry" THEN "check" ELSE "pick"
  /\ UNCHANGED <<sessionVars, boot, mine, feedVars, spent>>

-----------------------------------------------------------------------------
\* POST /admin/shoonya/exchange-code, on a thread of the server

\* A new connection is made when there is none yet.
Pastes ==
  /\ boot = "done" /\ login["admin"] = Idle /\ Spend("requests", MaxRequests)
  /\ IF current # None
     THEN Asks("admin", current) /\ UNCHANGED connected
     ELSE /\ Asks("admin", "admin")
          /\ connected' = [connected EXCEPT !["admin"] = FALSE]
  /\ UNCHANGED <<api, current, boot, loop, mine, feedVars>>

\* The feed is not told.
Answers ==
  /\ login["admin"].at \in {"ok", "failed"}
  /\ login' = [login EXCEPT !["admin"] = Idle]
  /\ current' = IF login["admin"].at = "ok" THEN login["admin"].on ELSE current
  /\ UNCHANGED <<api, connected, boot, loop, mine, feedVars, spent>>

-----------------------------------------------------------------------------
Thread(a) == Refused(a) \/ Built(a) \/ Verified(a) \/ Rejected(a)
Boot == BootAsks \/ BootLogsIn \/ BootSucceeds \/ BootFails \/ TimesOut
Loop == Picks \/ Crashes \/ Retries \/ Rests \/ Refreshes \/ LoopSucceeds \/ LoopFails
Feed == Closed \/ Reconnected \/ NotReconnected

Next ==
  \/ Boot \/ Loop \/ Pastes \/ Answers
  \/ \E a \in Actors : Thread(a)
  \/ Feed \/ Opened \/ Dropped

Spec == Init /\ [][Next]_vars

\* Threads and coroutines run on, the next morning comes, and the broker
\* accepts a websocket that is tried again and again; logins fail only as
\* often as the bounds say.
FairSpec ==
  /\ Spec
  /\ WF_vars(Boot) /\ WF_vars(Loop) /\ WF_vars(Answers)
  /\ \A a \in Actors : WF_vars(Thread(a))
  /\ WF_vars(Feed) /\ SF_vars(Opened)

-----------------------------------------------------------------------------
Socket == INSTANCE FeedSocket WITH api <- api["boot"]

\* The session keeps the promise the option feed is modelled on: one
\* websocket, opened on what the newest login has built (start, connect).
ImplementsSocket == Socket!SocketSpec

\* Whatever fails, at the start, in the morning or at the administrator's
\* hand, some later login connects the session (schedule_daily_refresh).
SessionComesBack == []<>(current # None /\ connected[current])

\* The feed follows the session: once connected, its websocket is opened on
\* the instance of the session, unless a start raised after a login, or a
\* login of the administrator passed it by (_auto_login, _reconnect_loop).
FeedFollowsSession ==
  feed /\ connected["boot"] ~> lost \/ (socket = "open" /\ feedApi = api["boot"])

\* A feed without a websocket is never forgotten: its close is still to be
\* reported, or a reconnect loop sleeps, however closes, starts, logins and
\* the flag overlap (_schedule_reconnect, start); or _on_open waits for an
\* instance that a login has built, on which the feed is still to be started.
ReconnectIsDue ==
  feed /\ socket = "off" /\ ~lost => late > 0 \/ scheduled > 0 \/ OpenIsStuck
=============================================================================
