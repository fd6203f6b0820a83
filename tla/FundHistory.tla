----------------------------- MODULE FundHistory -----------------------------
(***************************************************************************)
(* The NAV history of mutual funds.  A daily job lists the schemes, looks  *)
(* at those nobody has judged yet and stores the history of the live ones, *)
(* then appends the latest NAV of every stored one.  A user who opens a    *)
(* chart writes what it fetched through to the same rows and files.  Every *)
(* scheme has a row, a file that is read, merged and written as a whole,   *)
(* and a row of returns; no transaction joins them.                        *)
(***************************************************************************)
EXTENDS Naturals, FiniteSets, Sequences

CONSTANTS
  Schemes,      \* scheme codes
  Viewers,      \* users who look at charts at the same time
  Quoted,       \* schemes mfapi.in may have a NAV of
  Charted,      \* schemes whose charts are opened
  Batch,        \* _BACKFILL_BATCH_SIZE
  Stale,        \* staleness_threshold_days
  Lookback,     \* the longest period of returns, in days
  Buffer,       \* _BOUNDARY_BUFFER_DAYS
  MaxDay,       \* bound: days
  MaxFailures   \* bound: steps that raise, and restarts of the process

ASSUME FundAssumption ==
  /\ Schemes \subseteq Nat /\ Viewers \cap Schemes = {}
  /\ Quoted \subseteq Schemes /\ Charted \subseteq Schemes
  /\ {Batch, Lookback, MaxDay} \subseteq Nat \ {0}
  /\ {Stale, Buffer, MaxFailures} \subseteq Nat

VARIABLES
  day,
  published,   \* dates of the NAVs mfapi.in has of every scheme
  active,      \* is_active; "absent" when there is no row
  backfilled,  \* is_backfilled
  file,        \* dates in the scheme's Parquet file
  returns,     \* the scheme's row of mf_scheme_returns
  job,         \* where run_once is
  task,        \* the coroutine of the job for each scheme, and of each viewer
  mixed,       \* history: schemes two tasks of which overlap, until all end
  torn,        \* history: schemes whose returns no task has recomputed alone
               \* since one of its tasks failed or two of them overlapped
  failures

sourceVars == <<day, published>>
rowVars == <<active, backfilled, returns>>
historyVars == <<mixed, torn>>
vars == <<sourceVars, rowVars, file, job, task, historyVars, failures>>

Days == 1 .. MaxDay
Coroutines == Schemes \cup Viewers

\* What every task has to do, each step behind an await of its own.
Program ==
  [backfill |-> <<"latest", "history", "read", "write", "returns", "mark">>,
   daily    |-> <<"latest", "read", "write", "series", "returns">>,
   chart    |-> <<"fetch", "row", "mark", "read", "write", "returns">>]

Resting == [kind |-> "none", scheme |-> 0, left |-> <<>>, points |-> {},
            merged |-> {}]

Latest(points) ==
  IF points = {} THEN 0 ELSE CHOOSE d \in points : \A e \in points : e <= d

\* What compute_trailing_returns makes of a series: its last NAV, the one it
\* is compared with, and the one before the last; 0: None.
Returns(points) == LET last == Latest(points) IN
  [latest   |-> last,
   back     |-> Latest({d \in points : d + Lookback <= last}),
   previous |-> Latest(points \ {last})]

\* MFNavHistoryCapper.cap
Capped(points) == {d \in points : d + Lookback + Buffer >= Latest(points)}

Init ==
  /\ day = 1
  /\ published \in {p \in [Schemes -> SUBSET {1}] :
                      \A s \in Schemes \ Quoted : p[s] = {}}
  /\ active = [s \in Schemes |-> "absent"]
  /\ backfilled = [s \in Schemes |-> FALSE]
  /\ file = [s \in Schemes |-> {}] /\ returns = [s \in Schemes |-> Returns({})]
  /\ job = "sync"
  /\ task = [c \in Coroutines |-> Resting]
  /\ mixed = {} /\ torn = {} /\ failures = 0

-----------------------------------------------------------------------------
\* mfapi.in: gaps in a series are no longer than the buffer allows for

Publish ==
  /\ day < MaxDay /\ day' = day + 1
  /\ \E S \in SUBSET {s \in Quoted :
       published[s] = {} \/ Latest(published[s]) + Buffer >= day} :
       published' = [s \in Schemes |->
         IF s \in S THEN published[s] \cup {day + 1} ELSE published[s]]
  /\ UNCHANGED <<rowVars, file, job, task, historyVars, failures>>

-----------------------------------------------------------------------------
\* Tasks

On(s) == {c \in Coroutines : task[c].left # <<>> /\ task[c].scheme = s}
AtStep(c, step) == task[c].left # <<>> /\ Head(task[c].left) = step

Begun(kind, s) ==
  [Resting EXCEPT !.kind = kind, !.scheme = s, !.left = Program[kind]]

\* Tasks that begin, by what they are; overlaps are remembered.
Begin(new) ==
  LET met == {s \in Schemes :
                On(s) # {} /\ \E c \in DOMAIN new : new[c].scheme = s}
  IN
  /\ task' = [c \in Coroutines |-> IF c \in DOMAIN new THEN new[c] ELSE task[c]]
  /\ mixed' = mixed \cup met /\ torn' = torn \cup met

\* A task ends, and with the last one of its scheme what they did together.
Ends(c) ==
  /\ task' = [task EXCEPT ![c] = Resting]
  /\ mixed' = IF On(task[c].scheme) = {c} THEN mixed \ {task[c].scheme}
              ELSE mixed

\* The step is done; the last one leaves nothing behind.
Goes(c, points, merged) ==
  IF Len(task[c].left) = 1 THEN Ends(c)
  ELSE /\ task' = [task EXCEPT ![c].left = Tail(@), ![c].points = points,
                                ![c].merged = merged]
       /\ UNCHANGED mixed
GoesOn(c) == Goes(c, task[c].points, task[c].merged)

\* What is left of a backfill without a recent NAV.
GivesUp == <<"dormant">>

\* get_latest_nav: backfill_one gives up a scheme without a recent NAV, while
\* _sync_scheme passes over one without any.
LatestNav(c) == LET s == task[c].scheme
                    nav == Latest(published[s])
                    dormant == nav = 0 \/ day > nav + Stale
  IN
  /\ AtStep(c, "latest")
  /\ \/ /\ task[c].kind = "backfill" /\ dormant
        /\ task' = [task EXCEPT ![c].left = GivesUp] /\ UNCHANGED mixed
     \/ task[c].kind = "backfill" /\ ~dormant /\ GoesOn(c)
     \/ task[c].kind = "daily" /\ nav = 0 /\ Ends(c)
     \/ task[c].kind = "daily" /\ nav # 0 /\ Goes(c, {nav}, {})
  /\ UNCHANGED <<sourceVars, rowVars, file, job, torn, failures>>

\* mark_inactive.
MarkInactive(c) ==
  /\ AtStep(c, "dormant") /\ GoesOn(c)
  /\ active' = [active EXCEPT ![task[c].scheme] = "dormant"]
  /\ UNCHANGED <<sourceVars, backfilled, returns, file, job, torn, failures>>

\* fetch_scheme_with_history of the backfill.
History(c) ==
  /\ AtStep(c, "history") /\ Goes(c, Capped(published[task[c].scheme]), {})
  /\ UNCHANGED <<sourceVars, rowVars, file, job, torn, failures>>

\* ... and of a chart, which keeps the points uncapped.
Fetch(c) ==
  /\ AtStep(c, "fetch") /\ Goes(c, published[task[c].scheme], {})
  /\ UNCHANGED <<sourceVars, rowVars, file, job, torn, failures>>

\* upsert_schemes of a chart: the row may be there already.
Row(c) == LET s == task[c].scheme IN
  /\ AtStep(c, "row") /\ GoesOn(c)
  /\ active' = [active EXCEPT ![s] = IF @ = "absent" THEN "null" ELSE @]
  /\ UNCHANGED <<sourceVars, backfilled, returns, file, job, torn, failures>>

\* mark_active_and_backfilled.
Mark(c) == LET s == task[c].scheme IN
  /\ AtStep(c, "mark") /\ GoesOn(c)
  /\ active' = [active EXCEPT ![s] = "live"]
  /\ backfilled' = [backfilled EXCEPT ![s] = TRUE]
  /\ UNCHANGED <<sourceVars, returns, file, job, torn, failures>>

\* A slip: a backfill replaces the file, as bulk_insert's docstring says.
Replaced(c) ==
  IF task[c].kind = "daily" THEN file[task[c].scheme] \cup task[c].points
  ELSE Capped(task[c].points)

\* _merge_and_write: the file as it is read now, with the new points.
Merged(c) == file[task[c].scheme] \cup Capped(task[c].points)

\* Nothing is read, nor written, when there is no point.
Read(c) ==
  /\ AtStep(c, "read")
  /\ Goes(c, task[c].points, IF task[c].points = {} THEN {} ELSE Merged(c))
  /\ UNCHANGED <<sourceVars, rowVars, file, job, torn, failures>>

Write(c) == LET s == task[c].scheme IN
  /\ AtStep(c, "write") /\ Goes(c, task[c].points, {})
  /\ file' = [file EXCEPT ![s] =
                IF task[c].points = {} THEN @ ELSE task[c].merged]
  /\ UNCHANGED <<sourceVars, rowVars, job, torn, failures>>

\* A slip: the returns of the day are computed from the NAV of the day.
OfTheDay(c) == task[c].points

\* get_series, after the NAV of the day has been appended.
SeriesOf(c) == file[task[c].scheme]

Series(c) ==
  /\ AtStep(c, "series") /\ Goes(c, SeriesOf(c), {})
  /\ UNCHANGED <<sourceVars, rowVars, file, job, torn, failures>>

\* upsert_returns; the capped points of a backfill, all those of a chart.
Upsert(c) == LET s == task[c].scheme IN
  /\ AtStep(c, "returns") /\ GoesOn(c)
  /\ returns' = [returns EXCEPT ![s] = Returns(task[c].points)]
  /\ torn' = IF s \in mixed THEN torn ELSE torn \ {s}
  /\ UNCHANGED <<sourceVars, active, backfilled, file, job, failures>>

\* The file is written, the returns are not.
Halfway(c) == AtStep(c, "series") \/ AtStep(c, "returns")

\* A step raises, after all the retries below it: the task is given up.  That
\* a write is reported as failed and was made is this at the next step.
Fails(c) ==
  /\ task[c].left # <<>> /\ failures < MaxFailures /\ failures' = failures + 1
  /\ Ends(c)
  /\ torn' = IF Halfway(c) THEN torn \cup {task[c].scheme} ELSE torn
  /\ UNCHANGED <<sourceVars, rowVars, file, job>>

Step(c) ==
  \/ LatestNav(c) \/ MarkInactive(c) \/ History(c) \/ Fetch(c)
  \/ Row(c) \/ Mark(c) \/ Read(c) \/ Write(c) \/ Series(c) \/ Upsert(c)

-----------------------------------------------------------------------------
\* run_once, and schedule_daily_refresh around it

\* upsert_schemes, for one batch of the list after the other; it leaves what
\* is known of a scheme.  With the last batch all schemes have been listed.
Sync ==
  /\ job = "sync"
  /\ \E S \in SUBSET Schemes :
       /\ active' = [s \in Schemes |->
            IF s \in S /\ active[s] = "absent" THEN "null" ELSE active[s]]
       /\ job' = IF S = Schemes THEN "pending" ELSE "sync"
  /\ UNCHANGED <<sourceVars, backfilled, returns, file, task, historyVars,
                 failures>>

\* A slip: schemes without a history are pending, the dormant ones too.
NotBackfilled == {s \in Schemes : active[s] # "absent" /\ ~backfilled[s]}

\* is_active IS NULL
Unjudged == {s \in Schemes : active[s] = "null"}

\* ORDER BY scheme_code LIMIT batch_size
FirstOf(S) == {s \in S : Cardinality({r \in S : r < s}) < Batch}

StartAll(kind, S, phase) ==
  /\ job' = phase /\ Begin([s \in S |-> Begun(kind, s)])
  /\ UNCHANGED <<sourceVars, rowVars, file, failures>>

Backfill ==
  job = "pending" /\ StartAll("backfill", FirstOf(Unjudged), "backfill")
Daily ==
  /\ job = "stored"
  /\ StartAll("daily", {s \in Schemes : backfilled[s] /\ active[s] = "live"},
              "daily")

\* gather returns when every coroutine has ended, one way or the other.
Gathered ==
  /\ job \in {"backfill", "daily"} /\ \A s \in Schemes : task[s].left = <<>>
  /\ job' = IF job = "backfill" THEN "stored" ELSE "sleep"
  /\ UNCHANGED <<sourceVars, rowVars, file, task, historyVars, failures>>

\* The list or a query fails: the rest of the sequence waits for tomorrow.
Aborts ==
  /\ job \in {"sync", "pending", "stored"} /\ failures < MaxFailures
  /\ failures' = failures + 1 /\ job' = "sleep"
  /\ UNCHANGED <<sourceVars, rowVars, file, task, historyVars>>

Wakes ==
  /\ job = "sleep" /\ job' = "sync"
  /\ UNCHANGED <<sourceVars, rowVars, file, task, historyVars, failures>>

-----------------------------------------------------------------------------
\* GET /{scheme_code}/nav-chart: what is cached is shown and goes no further,
\* but the entry may have expired, or been swept, at any time.

Open(v, s) ==
  /\ task[v].left = <<>> /\ Begin([c \in {v} |-> Begun("chart", s)])
  /\ UNCHANGED <<sourceVars, rowVars, file, job, failures>>

\* The process dies; the next one begins with a run of the job.
Restart ==
  /\ failures < MaxFailures /\ failures' = failures + 1
  /\ task' = [c \in Coroutines |-> Resting] /\ mixed' = {}
  /\ torn' = torn \cup {s \in Schemes : \E c \in On(s) : Halfway(c)}
  /\ job' = "sync"
  /\ UNCHANGED <<sourceVars, rowVars, file>>

Job == Sync \/ Backfill \/ Daily \/ Gathered \/ Wakes

Next ==
  \/ Publish \/ Job \/ Aborts \/ Restart
  \/ \E c \in Coroutines : Step(c) \/ Fails(c)
  \/ \E s \in Charted, v \in Viewers : Open(v, s)

Spec == Init /\ [][Next]_vars

\* The event loop runs on, threads answer, and the next day comes.
FairSpec == Spec /\ WF_vars(Job) /\ \A c \in Coroutines : WF_vars(Step(c))

-----------------------------------------------------------------------------
\* No date that is in a file is ever lost, unless two tasks of the scheme
\* overlap: each reads, merges and writes the whole file (_merge_and_write).
PointsKept ==
  [][\A s \in Schemes :
       s \notin mixed => file[s] \subseteq file'[s]]_vars

\* The returns that lists and rankings are made of are those of the stored
\* series, whoever wrote last, the job or a chart, capped or not, once a task
\* that met no other has recomputed them (upsert_returns, cap).
ReturnsMatch ==
  \A s \in Schemes \ torn : On(s) = {} => returns[s] = Returns(file[s])

\* Every scheme that was listed is judged in the end, dormant or live, however
\* many others wait before it: a batch that fails is tried again on the next
\* day (get_schemes_pending_backfill, backfill_batch, schedule_daily_refresh).
EveryoneIsJudged ==
  \A s \in Schemes : active[s] = "null" ~> active[s] \in {"live", "dormant"}

\* A scheme that counts as backfilled has its history.
BackfilledHasHistory ==
  \A s \in Schemes :
    backfilled[s] /\ On(s) = {} /\ published[s] # {} => file[s] # {}
=============================================================================
