-------------------------- MODULE FundHistoryProofs --------------------------
(***************************************************************************)
(* The history of mutual funds, for any number of schemes, viewers, days   *)
(* and failures: no point of a file is lost by a task that met no other,   *)
(* and the returns of a scheme are those of its file, although a backfill  *)
(* computes them from a capped series and a chart from a longer one.       *)
(***************************************************************************)
EXTENDS FundHistory, WellFoundedInduction, TLAPS

\* The numbers among the constants.
LEMMA Numbers ==
  /\ Batch \in Nat /\ MaxDay \in Nat \ {0} /\ Lookback \in Nat \ {0}
  /\ Stale \in Nat /\ Buffer \in Nat /\ MaxFailures \in Nat
BY FundAssumption

-----------------------------------------------------------------------------
(* Series of points.                                                       *)

\* A set of dates has a last one.
LEMMA LastExists ==
  ASSUME NEW Q \in SUBSET Days, Q # {}
  PROVE  \E d \in Q : \A e \in Q : e <= d
<1> DEFINE T == {MaxDay - d : d \in Q}
<1>0. \A d \in Q : d \in 1 .. MaxDay
  BY DEF Days
<1>1. T \subseteq Nat /\ T # {}
  BY <1>0, Numbers
<1>2. PICK x \in T : \A y \in T : ~(<<y, x>> \in OpToRel(<, Nat))
  <2> HIDE DEF T
  <2> QED BY <1>1, NatLessThanWellFounded, WFMin
<1>3. PICK d \in Q : x = MaxDay - d
  BY <1>2
<1>4. \A y \in T : ~(y < x)
  BY <1>1, <1>2 DEF OpToRel
<1>5. ASSUME NEW e \in Q PROVE e <= d
  <2>1. ~(MaxDay - e < MaxDay - d)
    BY <1>3, <1>4
  <2> QED
    BY <2>1, <1>0, Numbers
<1> QED
  BY <1>5

\* Latest is the last date.
LEMMA LatestIsLast ==
  ASSUME NEW Q \in SUBSET Days, Q # {}
  PROVE  Latest(Q) \in Q /\ \A e \in Q : e <= Latest(Q)
BY LastExists DEF Latest

\* Nothing else is.
LEMMA LatestIs ==
  ASSUME NEW Q \in SUBSET Days, NEW d \in Q, \A e \in Q : e <= d
  PROVE  Latest(Q) = d
<1>1. Latest(Q) \in Q /\ \A e \in Q : e <= Latest(Q)
  BY LatestIsLast
<1>2. \A e \in Q : e \in Nat
  BY Numbers DEF Days
<1> QED
  BY <1>1, <1>2

\* Its type.
LEMMA LatestType ==
  ASSUME NEW Q \in SUBSET Days
  PROVE  Latest(Q) \in Nat /\ (Q # {} => Latest(Q) \in Days)
         /\ (Latest(Q) = 0 <=> Q = {})
<1>1. CASE Q = {}
  BY <1>1 DEF Latest
<1>2. CASE Q # {}
  <2>1. Latest(Q) \in Days
    BY <1>2, LatestIsLast
  <2>2. Latest(Q) \in Nat /\ Latest(Q) # 0
    BY <2>1, Numbers DEF Days
  <2> QED
    BY <1>2, <2>1, <2>2
<1> QED
  BY <1>1, <1>2

\* A series without a gap that the buffer does not allow for.
Dense(Q) ==
  \A d \in Q : d = Latest(Q) \/ \E e \in Q : d < e /\ e <= d + Buffer + 1

\* What a day's publication does to one.
LEMMA PublishedStaysDense ==
  ASSUME NEW Q \in SUBSET Days, Dense(Q), NEW today \in Days,
         \A d \in Q : d <= today, today + 1 \in Days,
         Q = {} \/ Latest(Q) + Buffer >= today
  PROVE  Dense(Q \cup {today + 1})
<1> DEFINE R == Q \cup {today + 1}
<1>1. today \in Nat /\ Buffer \in Nat /\ \A d \in Q : d \in Nat
  BY Numbers DEF Days
<1>2. Latest(R) = today + 1
  <2>1. R \in SUBSET Days /\ \A e \in R : e <= today + 1
    BY <1>1
  <2> QED
    BY <2>1, LatestIs
<1>3. ASSUME NEW d \in R
      PROVE  d = Latest(R) \/ \E e \in R : d < e /\ e <= d + Buffer + 1
  <2>1. CASE d = today + 1
    BY <1>2, <2>1
  <2>2. CASE d \in Q /\ d = Latest(Q)
    <3>1. today + 1 \in R /\ d < today + 1 /\ today + 1 <= d + Buffer + 1
      BY <1>1, <2>2
    <3> QED
      BY <3>1
  <2>3. CASE d \in Q /\ d # Latest(Q)
    BY <2>3 DEF Dense
  <2> QED
    BY <2>1, <2>2, <2>3
<1> QED
  BY <1>3 DEF Dense

\* Capping leaves the last point, and capping twice is capping once.
LEMMA CappedKeeps ==
  ASSUME NEW Q \in SUBSET Days, NEW P, Capped(Q) \subseteq P, P \subseteq Q
  PROVE  /\ Capped(P) = Capped(Q) /\ Latest(P) = Latest(Q)
         /\ (P = {} <=> Q = {})
<1>1. CASE Q = {}
  BY <1>1 DEF Capped, Latest
<1>2. CASE Q # {}
  <2> DEFINE L == Latest(Q)
  <2>1. L \in Q /\ (\A e \in Q : e <= L) /\ L \in Nat
    BY <1>2, LatestIsLast, LatestType
  <2>2. L \in Capped(Q)
    BY <2>1, Numbers DEF Capped
  <2>3. Latest(P) = L
    BY <2>1, <2>2, LatestIs
  <2> QED
    BY <1>2, <2>2, <2>3 DEF Capped
<1> QED
  BY <1>1, <1>2

\* Between a dense series and what is left of it by capping, the returns are
\* the same: the points they compare are never further back than the buffer.
LEMMA SameReturns ==
  ASSUME NEW Q \in SUBSET Days, Dense(Q),
         NEW P, Capped(Q) \subseteq P, P \subseteq Q
  PROVE  Returns(P) = Returns(Q)
<1>0. CASE Q = {}
  BY <1>0
<1>1. CASE Q # {}
  <2> DEFINE L == Latest(Q)
             B(S) == {d \in S : d + Lookback <= L}
  <2>1. L \in Q /\ (\A e \in Q : e <= L) /\ Latest(P) = L
    BY <1>1, LatestIsLast, CappedKeeps
  <2>2. /\ Lookback \in Nat \ {0} /\ Buffer \in Nat
        /\ \A d \in Q : d \in Nat
    BY Numbers DEF Days
  \* The points looked back at: if any, the last of them is kept.
  <2>3. Latest(B(P)) = Latest(B(Q))
    <3>1. CASE B(Q) = {}
      BY <3>1
    <3>2. CASE B(Q) # {}
      <4> DEFINE d == Latest(B(Q))
      <4>1. B(Q) \in SUBSET Days
        OBVIOUS
      <4>2. d \in B(Q) /\ \A e \in B(Q) : e <= d
        BY <3>2, <4>1, LatestIsLast
      <4>3. d # L
        BY <2>1, <2>2, <4>2
      <4>4. PICK e \in Q : d < e /\ e <= d + Buffer + 1
        BY <4>2, <4>3 DEF Dense
      <4>5. e \notin B(Q)
        BY <2>2, <4>2, <4>4
      <4>6. e + Lookback > L
        BY <2>1, <2>2, <4>5
      <4>7. d + Lookback + Buffer >= L
        BY <2>1, <2>2, <4>2, <4>4, <4>6
      <4>8. d \in B(P)
        BY <4>2, <4>7 DEF Capped
      <4>9. B(P) \in SUBSET Days /\ \A x \in B(P) : x <= d
        BY <4>1, <4>2
      <4> HIDE DEF d
      <4> QED
        BY <4>8, <4>9, LatestIs DEF d
    <3> QED
      BY <3>1, <3>2
  \* The one before the last is kept too.
  <2>4. Latest(P \ {L}) = Latest(Q \ {L})
    <3>1. CASE Q \ {L} = {}
      <4>1. P \ {L} = {}
        BY <3>1
      <4> QED
        BY <3>1, <4>1
    <3>2. CASE Q \ {L} # {}
      <4> DEFINE d == Latest(Q \ {L})
      <4>1. Q \ {L} \in SUBSET Days
        OBVIOUS
      <4>2. d \in Q \ {L} /\ \A e \in Q \ {L} : e <= d
        BY <3>2, <4>1, LatestIsLast
      <4>3. PICK e \in Q : d < e /\ e <= d + Buffer + 1
        BY <4>2 DEF Dense
      <4>4. e = L
        BY <2>2, <4>2, <4>3
      <4>5. d + Lookback + Buffer >= L
        BY <2>1, <2>2, <4>2, <4>3, <4>4
      <4>6. d \in P \ {L}
        BY <4>2, <4>5 DEF Capped
      <4>7. P \ {L} \in SUBSET Days /\ \A x \in P \ {L} : x <= d
        BY <4>1, <4>2
      <4> HIDE DEF d
      <4> QED
        BY <4>6, <4>7, LatestIs DEF d
    <3> QED
      BY <3>1, <3>2
  <2> QED
    BY <2>1, <2>3, <2>4 DEF Returns
<1> QED
  BY <1>0, <1>1

-----------------------------------------------------------------------------
(* Tasks.                                                                   *)

\* What is left of a program when its first steps are done.
B6 == <<"latest", "history", "read", "write", "returns", "mark">>
B5 == <<"history", "read", "write", "returns", "mark">>
B4 == <<"read", "write", "returns", "mark">>
B3 == <<"write", "returns", "mark">>
B2 == <<"returns", "mark">>
B1 == <<"mark">>
E1 == <<"dormant">>
D5 == <<"latest", "read", "write", "series", "returns">>
D4 == <<"read", "write", "series", "returns">>
D3 == <<"write", "series", "returns">>
D2 == <<"series", "returns">>
D1 == <<"returns">>
C6 == <<"fetch", "row", "mark", "read", "write", "returns">>
C5 == <<"row", "mark", "read", "write", "returns">>
C4 == <<"mark", "read", "write", "returns">>
C3 == <<"read", "write", "returns">>
C2 == <<"write", "returns">>

Kinds == {"backfill", "daily", "chart"}
Rests(kind) ==
  CASE kind = "backfill" -> {B6, B5, B4, B3, B2, B1, E1}
    [] kind = "daily"    -> {D5, D4, D3, D2, D1}
    [] kind = "chart"    -> {C6, C5, C4, C3, C2, D1}

Tasks ==
  {t \in [kind : Kinds, scheme : Schemes, left : UNION {Rests(k) : k \in Kinds},
          points : SUBSET Days, merged : SUBSET Days] : t.left \in Rests(t.kind)}

\* The lists the programs begin with, and none is empty.
LEMMA Programs ==
  /\ Program["backfill"] = B6 /\ Program["daily"] = D5 /\ Program["chart"] = C6
  /\ \A k \in Kinds : <<>> \notin Rests(k)
BY DEF Program, Kinds, Rests, E1, B6, B5, B4, B3, B2, B1, D5, D4, D3, D2, D1,
       C6, C5, C4, C3, C2

\* The step each list begins with.
LEMMA Heads ==
  /\ Head(B6) = "latest" /\ Head(B5) = "history" /\ Head(B4) = "read"
  /\ Head(B3) = "write" /\ Head(B2) = "returns" /\ Head(B1) = "mark"
  /\ Head(E1) = "dormant"
  /\ Head(D5) = "latest" /\ Head(D4) = "read" /\ Head(D3) = "write"
  /\ Head(D2) = "series" /\ Head(D1) = "returns"
  /\ Head(C6) = "fetch" /\ Head(C5) = "row" /\ Head(C4) = "mark"
  /\ Head(C3) = "read" /\ Head(C2) = "write"
BY DEF E1, B6, B5, B4, B3, B2, B1, D5, D4, D3, D2, D1, C6, C5, C4, C3, C2

\* What is left after it.
LEMMA Tails ==
  /\ Tail(B6) = B5 /\ Tail(B5) = B4 /\ Tail(B4) = B3 /\ Tail(B3) = B2
  /\ Tail(B2) = B1
  /\ Tail(D5) = D4 /\ Tail(D4) = D3 /\ Tail(D3) = D2 /\ Tail(D2) = D1
  /\ Tail(C6) = C5 /\ Tail(C5) = C4 /\ Tail(C4) = C3 /\ Tail(C3) = C2
  /\ Tail(C2) = D1
<1> USE DEF B6, B5, B4, B3, B2, B1, D5, D4, D3, D2, D1, C6, C5, C4, C3, C2
<1>1. /\ Tail(B6) = B5 /\ Tail(B5) = B4 /\ Tail(B4) = B3 /\ Tail(B3) = B2
      /\ Tail(B2) = B1
  OBVIOUS
<1>2. /\ Tail(D5) = D4 /\ Tail(D4) = D3 /\ Tail(D3) = D2 /\ Tail(D2) = D1
  OBVIOUS
<1>3. /\ Tail(C6) = C5 /\ Tail(C5) = C4 /\ Tail(C4) = C3 /\ Tail(C3) = C2
      /\ Tail(C2) = D1
  OBVIOUS
<1> HIDE DEF B6, B5, B4, B3, B2, B1, D5, D4, D3, D2, D1, C6, C5, C4, C3, C2
<1> QED
  BY <1>1, <1>2, <1>3

\* Three lists are the last step of a program, and no other is as short.
LEMMA Lengths ==
  /\ Len(B1) = 1 /\ Len(D1) = 1 /\ Len(E1) = 1
  /\ \A l \in {B6, B5, B4, B3, B2, D5, D4, D3, D2, C6, C5, C4, C3, C2} :
       Len(l) # 1
BY DEF E1, B6, B5, B4, B3, B2, B1, D5, D4, D3, D2, D1, C6, C5, C4, C3, C2

\* Lists that begin alike differ.
LEMMA Unlike ==
  B4 # D4 /\ D4 # C3 /\ B3 # D3 /\ D3 # C2 /\ B2 # D1 /\ B1 # C4
BY DEF B4, B3, B2, B1, D4, D3, D1, C4, C3, C2

-----------------------------------------------------------------------------
(* The invariant.                                                           *)

ReturnsType == [latest : Nat, back : Nat, previous : Nat]

TypeOK ==
  /\ day \in Days /\ published \in [Schemes -> SUBSET Days]
  /\ active \in [Schemes -> {"absent", "null", "live", "dormant"}]
  /\ backfilled \in [Schemes -> BOOLEAN]
  /\ file \in [Schemes -> SUBSET Days] /\ returns \in [Schemes -> ReturnsType]
  /\ job \in {"sync", "pending", "backfill", "stored", "daily", "sleep"}
  /\ task \in [Coroutines -> Tasks \cup {Resting}]
  /\ mixed \subseteq Schemes /\ torn \subseteq Schemes /\ failures \in Nat

Runs(c) == task[c] \in Tasks

\* What mfapi.in has is dense, and of the past.
SourceIsDense ==
  \A s \in Schemes : Dense(published[s]) /\ \A d \in published[s] : d <= day

\* Nothing is stored, or held, that was not published.
OnlyPublished ==
  /\ \A s \in Schemes : file[s] \subseteq published[s]
  /\ \A c \in Coroutines : Runs(c) =>
       task[c].points \cup task[c].merged \subseteq published[task[c].scheme]

\* The job has one coroutine for a scheme.
OwnScheme == \A s \in Schemes : Runs(s) => task[s].scheme = s

\* Schemes that are not mixed have one task at most.
Alone ==
  \A c, d \in Coroutines :
    /\ Runs(c) /\ Runs(d) /\ task[c].scheme = task[d].scheme
    /\ task[c].scheme \notin mixed
    => c = d

\* The points that are about to be stored, or have been, are what capping may
\* leave of a series that has all the points of the file.
FromSeries(f, points) ==
  \E Q \in SUBSET Days :
    Dense(Q) /\ f \subseteq Q /\ Capped(Q) \subseteq points /\ points \subseteq Q

\* What a task that met no other has made of what it read still holds.
Fits(l, points, merged, f) ==
  /\ l \in {B3, D3, C2} /\ points # {} => merged = f \cup Capped(points)
  /\ l \in {B4, B3, C5, C4, C3, C2} => FromSeries(f, points)
  /\ l \in {B2, D1} => Returns(points) = Returns(f)
Prepared(c) == LET t == task[c] IN
  Fits(t.left, t.points, t.merged, file[t.scheme])

AllPrepared ==
  \A c \in Coroutines : Runs(c) /\ task[c].scheme \notin mixed => Prepared(c)

\* The lists left while the file is written and the returns are not.
Half(c) == task[c].left \in {B2, D2, D1}

Consistent(s) ==
  s \in torn \/ returns[s] = Returns(file[s])
    \/ \E c \in Coroutines : Runs(c) /\ task[c].scheme = s /\ Half(c)

FundInv ==
  /\ TypeOK /\ SourceIsDense /\ OnlyPublished /\ OwnScheme /\ mixed \subseteq torn
  /\ Alone /\ AllPrepared /\ \A s \in Schemes : Consistent(s)

-----------------------------------------------------------------------------
(* Steps of tasks.                                                          *)

\* A coroutine rests, or has a scheme and a list.
LEMMA RunsOrRests ==
  ASSUME TypeOK, NEW c \in Coroutines
  PROVE  /\ Runs(c) => /\ task[c].scheme \in Schemes /\ task[c].kind \in Kinds
                       /\ task[c].left \in Rests(task[c].kind)
                       /\ task[c].points \in SUBSET Days
                       /\ task[c].merged \in SUBSET Days
         /\ task[c].left # <<>> <=> Runs(c)
         /\ Runs(c) \/ task[c] = Resting
<1>1. task[c] \in Tasks \/ task[c] = Resting
  BY DEF TypeOK
<1>2. CASE task[c] \in Tasks
  BY <1>2, Programs DEF Tasks, Runs
<1>3. CASE task[c] = Resting
  <2>1. task[c].left = <<>>
    BY <1>3 DEF Resting
  <2>2. task[c] \notin Tasks
    BY <2>1, Programs DEF Tasks
  <2> QED
    BY <1>3, <2>1, <2>2 DEF Runs
<1> QED
  BY <1>1, <1>2, <1>3

\* Who is on a scheme, and who has its file written but not its returns.
LEMMA OnIs ==
  ASSUME TypeOK, NEW s
  PROVE  On(s) = {c \in Coroutines : Runs(c) /\ task[c].scheme = s}
BY RunsOrRests DEF On

\* The lists of each kind.
LEMMA ListsOfKind ==
  ASSUME TypeOK, NEW c \in Coroutines, Runs(c)
  PROVE  \/ task[c].kind = "backfill" /\ task[c].left \in {B6, B5, B4, B3, B2, B1, E1}
         \/ task[c].kind = "daily" /\ task[c].left \in {D5, D4, D3, D2, D1}
         \/ task[c].kind = "chart" /\ task[c].left \in {C6, C5, C4, C3, C2, D1}
BY RunsOrRests DEF Rests, Kinds

\* The step a coroutine is at tells what is left, up to its kind.
LEMMA StepTells ==
  ASSUME TypeOK, NEW c \in Coroutines, Runs(c)
  PROVE  /\ AtStep(c, "latest") =>
              \/ task[c].kind = "backfill" /\ task[c].left = B6
              \/ task[c].kind = "daily" /\ task[c].left = D5
         /\ AtStep(c, "dormant") => task[c].kind = "backfill" /\ task[c].left = E1
         /\ AtStep(c, "history") => task[c].kind = "backfill" /\ task[c].left = B5
         /\ AtStep(c, "fetch") => task[c].kind = "chart" /\ task[c].left = C6
         /\ AtStep(c, "row") => task[c].kind = "chart" /\ task[c].left = C5
         /\ AtStep(c, "mark") =>
              \/ task[c].kind = "backfill" /\ task[c].left = B1
              \/ task[c].kind = "chart" /\ task[c].left = C4
         /\ AtStep(c, "read") =>
              \/ task[c].kind = "backfill" /\ task[c].left = B4
              \/ task[c].kind = "daily" /\ task[c].left = D4
              \/ task[c].kind = "chart" /\ task[c].left = C3
         /\ AtStep(c, "write") =>
              \/ task[c].kind = "backfill" /\ task[c].left = B3
              \/ task[c].kind = "daily" /\ task[c].left = D3
              \/ task[c].kind = "chart" /\ task[c].left = C2
         /\ AtStep(c, "series") => task[c].kind = "daily" /\ task[c].left = D2
         /\ AtStep(c, "returns") =>
              \/ task[c].kind = "backfill" /\ task[c].left = B2
              \/ task[c].kind \in {"daily", "chart"} /\ task[c].left = D1
<1>1. CASE task[c].kind = "backfill" /\ task[c].left \in {B6, B5, B4, B3, B2, B1, E1}
  BY <1>1, Heads DEF AtStep
<1>2. CASE task[c].kind = "daily" /\ task[c].left \in {D5, D4, D3, D2, D1}
  BY <1>2, Heads DEF AtStep
<1>3. CASE task[c].kind = "chart" /\ task[c].left \in {C6, C5, C4, C3, C2, D1}
  BY <1>3, Heads DEF AtStep
<1> QED
  BY <1>1, <1>2, <1>3, ListsOfKind

\* Halfway is at one of three lists.
LEMMA HalfwayIs ==
  ASSUME TypeOK, NEW c \in Coroutines, Runs(c)
  PROVE  Halfway(c) <=> Half(c)
<1>1. Halfway(c) => Half(c)
  BY StepTells DEF Halfway, Half
<1>2. task[c].left # <<>>
  BY RunsOrRests
<1>3. ASSUME Half(c) PROVE Halfway(c)
  <2>1. Head(task[c].left) \in {"series", "returns"}
    BY <1>3, Heads DEF Half
  <2> QED
    BY <1>2, <2>1 DEF Halfway, AtStep
<1> QED
  BY <1>1, <1>3

\* Goes ends the task, or goes on to the next list.
LEMMA Going ==
  ASSUME TypeOK, NEW c \in Coroutines, Runs(c), NEW p \in SUBSET Days,
         NEW m \in SUBSET Days, Goes(c, p, m)
  PROVE  \/ task[c].left \in {B1, D1, E1} /\ Ends(c)
         \/ /\ task[c].left \notin {B1, D1, E1} /\ mixed' = mixed
            /\ \A d \in Coroutines \ {c} : task'[d] = task[d]
            /\ task' \in [Coroutines -> Tasks \cup {Resting}]
            /\ task'[c] \in Tasks
            /\ task'[c].kind = task[c].kind /\ task'[c].scheme = task[c].scheme
            /\ task'[c].left = Tail(task[c].left)
            /\ task'[c].points = p /\ task'[c].merged = m
<1>1. task[c].left \in {B1, D1, E1} <=> Len(task[c].left) = 1
  BY ListsOfKind, Lengths
<1>2. CASE Len(task[c].left) = 1
  BY <1>1, <1>2 DEF Goes
<1>3. CASE Len(task[c].left) # 1
  <2>0. task[c].left \notin {B1, D1, E1}
    BY <1>1, <1>3
  <2> DEFINE t == [task[c] EXCEPT !.left = Tail(@), !.points = p, !.merged = m]
  <2>1. task' = [task EXCEPT ![c] = t] /\ mixed' = mixed
    BY <1>3 DEF Goes, TypeOK
  <2>2. Tail(task[c].left) \in Rests(task[c].kind)
    <3>1. CASE /\ task[c].kind = "backfill"
               /\ task[c].left \in {B6, B5, B4, B3, B2, B1, E1}
      <4>1. Tail(task[c].left) \in {B6, B5, B4, B3, B2, B1, E1}
        BY <3>1, <2>0, Tails
      <4> QED
        BY <3>1, <4>1 DEF Rests
    <3>2. CASE task[c].kind = "daily" /\ task[c].left \in {D5, D4, D3, D2, D1}
      <4>1. Tail(task[c].left) \in {D5, D4, D3, D2, D1}
        BY <3>2, <2>0, Tails
      <4> QED
        BY <3>2, <4>1 DEF Rests
    <3>3. CASE /\ task[c].kind = "chart"
               /\ task[c].left \in {C6, C5, C4, C3, C2, D1}
      <4>1. Tail(task[c].left) \in {C6, C5, C4, C3, C2, D1}
        BY <3>3, <2>0, Tails
      <4> QED
        BY <3>3, <4>1 DEF Rests
    <3> QED
      BY <3>1, <3>2, <3>3, ListsOfKind
  <2>3. /\ t.kind = task[c].kind /\ t.scheme = task[c].scheme
        /\ t.left = Tail(task[c].left) /\ t.points = p /\ t.merged = m
        /\ t \in Tasks
    <3>1. task[c] \in [kind : Kinds, scheme : Schemes,
                       left : UNION {Rests(k) : k \in Kinds},
                       points : SUBSET Days, merged : SUBSET Days]
          /\ task[c].kind \in Kinds
      BY DEF Runs, Tasks
    <3> QED
      BY <2>2, <3>1 DEF Tasks
  <2> HIDE DEF t
  <2> QED
    BY <1>1, <1>3, <2>1, <2>3 DEF TypeOK
<1> QED
  BY <1>2, <1>3

\* What is true of every step of one task: others, and other schemes, are left
\* alone, and the memory of an overlap ends with the last task of the scheme.
OthersSame(s) ==
  /\ UNCHANGED sourceVars
  /\ \A r \in Schemes \ {s} : /\ file'[r] = file[r] /\ returns'[r] = returns[r]
                              /\ r \in torn' <=> r \in torn

Moves(c) == LET s == task[c].scheme IN
  /\ c \in Coroutines /\ Runs(c) /\ OthersSame(s)
  /\ \A d \in Coroutines \ {c} : task'[d] = task[d]
  /\ \/ /\ task'[c] = Resting
        /\ mixed' = IF On(s) = {c} THEN mixed \ {s} ELSE mixed
     \/ task'[c] \in Tasks /\ task'[c].scheme = s /\ mixed' = mixed

\* Such a step keeps the invariant, if it does for the task and its scheme.
LEMMA MovesKeep ==
  ASSUME FundInv, TypeOK', NEW c, Moves(c), NEW s \in Schemes, s = task[c].scheme,
         file'[s] \subseteq published[s],
         Runs(c)' => task'[c].points \cup task'[c].merged \subseteq published[s],
         s \in mixed => s \in torn',
         Runs(c)' /\ s \notin mixed => Prepared(c)',
         s \notin mixed => Consistent(s)'
  PROVE  FundInv'
<1>1. TypeOK /\ c \in Coroutines
  BY DEF FundInv, Moves
<1>2. SourceIsDense'
  BY DEF FundInv, SourceIsDense, Moves, OthersSame, sourceVars
<1>3. \A d \in Coroutines \ {c} : Runs(d)' <=> Runs(d)
  BY DEF Moves, Runs
<1>4. Runs(c)' => task'[c].scheme = s /\ mixed' = mixed
  <2>1. Resting \notin Tasks
    BY Programs DEF Tasks, Resting
  <2> QED
    BY <2>1 DEF Moves, Runs
<1>5. OnlyPublished'
  <2>1. \A r \in Schemes : file'[r] \subseteq published'[r]
    BY DEF FundInv, OnlyPublished, Moves, OthersSame, sourceVars
  <2>2. ASSUME NEW d \in Coroutines, Runs(d)'
        PROVE  (task[d].points \cup task[d].merged
                 \subseteq published[task[d].scheme])'
    <3>1. CASE d = c
      BY <1>4, <2>2, <3>1 DEF Moves, OthersSame, sourceVars
    <3>2. CASE d # c
      BY <1>3, <2>2, <3>2 DEF FundInv, OnlyPublished, Moves, OthersSame, sourceVars
    <3> QED
      BY <3>1, <3>2
  <2> QED
    BY <2>1, <2>2 DEF OnlyPublished
<1>6. OwnScheme'
  <2>1. ASSUME NEW r \in Schemes, Runs(r)' PROVE task'[r].scheme = r
    <3>1. r \in Coroutines
      BY DEF Coroutines
    <3>2. CASE r = c
      <4>1. s = r
        BY <3>2 DEF FundInv, OwnScheme, Moves
      <4> QED
        BY <1>4, <2>1, <3>2, <4>1
    <3>3. CASE r # c
      BY <1>3, <2>1, <3>1, <3>3 DEF FundInv, OwnScheme, Moves
    <3> QED
      BY <3>2, <3>3
  <2> QED
    BY <2>1 DEF OwnScheme
<1>7. mixed' \subseteq mixed /\ mixed \ {s} \subseteq mixed'
  BY DEF Moves
<1>8. (mixed \subseteq torn)'
  BY <1>1, <1>7 DEF FundInv, Moves, OthersSame, TypeOK
\* A scheme is forgotten with the end of its last task.
<1>9. s \in mixed /\ s \notin mixed' => task'[c] = Resting /\ On(s) = {c}
  BY DEF Moves
<1>10. \A d \in Coroutines \ {c} : Runs(d) /\ task[d].scheme = s => d \in On(s)
  BY <1>1, OnIs
<1>11. \A d \in Coroutines \ {c} :
         Runs(d)' /\ task'[d].scheme \notin mixed' =>
           task[d].scheme \notin mixed /\ task[d].scheme # s
  <2> SUFFICES ASSUME NEW d \in Coroutines \ {c}, Runs(d)',
                      task'[d].scheme \notin mixed'
               PROVE  task[d].scheme \notin mixed /\ task[d].scheme # s
    OBVIOUS
  <2>1. Runs(d) /\ task'[d] = task[d]
    BY <1>3 DEF Moves
  <2>2. CASE task[d].scheme = s /\ s \in mixed
    BY <1>9, <1>10, <2>1, <2>2
  <2>3. CASE task[d].scheme = s /\ s \notin mixed
    BY <1>1, <2>1, <2>3 DEF FundInv, Alone, Moves
  <2>4. CASE task[d].scheme # s
    BY <1>7, <2>1, <2>4
  <2> QED
    BY <2>2, <2>3, <2>4
<1>12. Alone'
  <2> SUFFICES ASSUME NEW d \in Coroutines, NEW e \in Coroutines,
                      Runs(d)', Runs(e)', task'[d].scheme = task'[e].scheme,
                      task'[d].scheme \notin mixed'
               PROVE  d = e
    BY DEF Alone
  <2>1. CASE d # c /\ e # c
    BY <1>3, <1>11, <2>1 DEF FundInv, Alone, Moves
  <2>2. CASE d = c /\ e # c
    <3>1. task'[e].scheme = s
      BY <1>4, <2>2
    <3> QED
      BY <1>11, <2>2, <3>1 DEF Moves
  <2>3. CASE d # c /\ e = c
    <3>1. task'[d].scheme = s
      BY <1>4, <2>3
    <3> QED
      BY <1>11, <2>3, <3>1 DEF Moves
  <2> QED
    BY <2>1, <2>2, <2>3
<1>13. AllPrepared'
  <2> SUFFICES ASSUME NEW d \in Coroutines, Runs(d)',
                      task'[d].scheme \notin mixed'
               PROVE  Prepared(d)'
    BY DEF AllPrepared
  <2>1. CASE d = c
    BY <1>4, <2>1
  <2>2. CASE d # c
    <3>1. /\ Runs(d) /\ task'[d] = task[d] /\ task[d].scheme \notin mixed
          /\ task[d].scheme # s
      BY <1>3, <1>11, <2>2 DEF Moves
    <3>2. file'[task[d].scheme] = file[task[d].scheme]
      BY <1>1, <3>1, RunsOrRests DEF Moves, OthersSame
    <3>3. Prepared(d)
      BY <3>1 DEF FundInv, AllPrepared
    <3> QED
      BY <3>1, <3>2, <3>3 DEF Prepared
  <2> QED
    BY <2>1, <2>2
<1>14. ASSUME NEW r \in Schemes PROVE Consistent(r)'
  <2>1. CASE r = s
    <3>1. CASE s \in mixed
      BY <2>1, <3>1 DEF Consistent
    <3>2. CASE s \notin mixed
      BY <2>1, <3>2
    <3> QED
      BY <3>1, <3>2
  <2>2. CASE r # s
    <3>1. Consistent(r)
      BY DEF FundInv
    <3>2. /\ file'[r] = file[r] /\ returns'[r] = returns[r]
          /\ r \in torn' <=> r \in torn
      BY <2>2 DEF Moves, OthersSame
    <3>3. ASSUME NEW d \in Coroutines, Runs(d), task[d].scheme = r, Half(d)
          PROVE  Runs(d)' /\ task'[d].scheme = r /\ Half(d)'
      BY <2>2, <3>3, <1>3 DEF Moves, Half
    <3> QED
      BY <3>1, <3>2, <3>3 DEF Consistent
  <2> QED
    BY <2>1, <2>2
<1> QED
  BY <1>2, <1>5, <1>6, <1>8, <1>12, <1>13, <1>14 DEF FundInv

\* What going on, or ending, does.
Advances(c, p, m) ==
  /\ Moves(c) /\ mixed' \subseteq Schemes
  /\ task' \in [Coroutines -> Tasks \cup {Resting}]
  /\ Runs(c)' => /\ Goes(c, p, m) /\ task[c].left \notin {B1, D1, E1}
                 /\ task'[c].kind = task[c].kind
                 /\ task'[c].scheme = task[c].scheme
                 /\ task'[c].left = Tail(task[c].left)
                 /\ task'[c].points = p /\ task'[c].merged = m
  /\ Goes(c, p, m) /\ task[c].left \notin {B1, D1, E1} => Runs(c)'

LEMMA GoesMoves ==
  ASSUME TypeOK, NEW c \in Coroutines, Runs(c), NEW p \in SUBSET Days,
         NEW m \in SUBSET Days, Goes(c, p, m) \/ Ends(c), OthersSame(task[c].scheme)
  PROVE  Advances(c, p, m)
<1>1. CASE Ends(c)
  <2>1. /\ \A d \in Coroutines \ {c} : task'[d] = task[d]
        /\ task' \in [Coroutines -> Tasks \cup {Resting}]
        /\ task'[c] = Resting
        /\ mixed' = IF On(task[c].scheme) = {c} THEN mixed \ {task[c].scheme}
                    ELSE mixed
    BY <1>1 DEF Ends, TypeOK
  <2>2. ~Runs(c)'
    <3>1. Resting \notin Tasks
      BY Programs DEF Tasks, Resting
    <3> QED
      BY <2>1, <3>1 DEF Runs
  <2>3. mixed' \subseteq Schemes
    BY <2>1 DEF TypeOK
  <2>4. ~(Goes(c, p, m) /\ task[c].left \notin {B1, D1, E1})
    BY <2>2, Going DEF Runs
  <2> QED
    BY <2>1, <2>2, <2>3, <2>4 DEF Moves, Advances
<1>2. CASE Goes(c, p, m) /\ ~Ends(c)
  BY <1>2, Going DEF Moves, Runs, TypeOK, Advances
<1> QED
  BY <1>1, <1>2

\* A step that leaves the file, the returns and the memory of failures.
LEMMA QuietStep ==
  ASSUME FundInv, NEW c \in Coroutines, Runs(c), NEW p \in SUBSET Days,
         NEW m \in SUBSET Days, Goes(c, p, m) \/ Ends(c),
         UNCHANGED <<sourceVars, file, returns, torn, job>>,
         active' \in [Schemes -> {"absent", "null", "live", "dormant"}],
         backfilled' \in [Schemes -> BOOLEAN], failures' \in Nat,
         p \cup m \subseteq published[task[c].scheme],
         Half(c) => task[c].left = D2 /\ Goes(c, p, m),
         task[c].scheme \notin mixed /\ Goes(c, p, m)
           /\ task[c].left \notin {B1, D1, E1} =>
             Fits(Tail(task[c].left), p, m, file[task[c].scheme])
  PROVE  FundInv'
<1> DEFINE s == task[c].scheme
<1>1. TypeOK /\ s \in Schemes
  BY RunsOrRests DEF FundInv
<1>2. Advances(c, p, m)
  <2>1. OthersSame(s)
    BY DEF OthersSame, sourceVars
  <2> QED
    BY <1>1, <2>1, GoesMoves
<1>3. TypeOK'
  BY <1>1, <1>2 DEF TypeOK, sourceVars, Advances
<1>4. Runs(c)' => task'[c].points \cup task'[c].merged \subseteq published[s]
  BY <1>2 DEF Advances
<1>5. s \in mixed => s \in torn'
  BY DEF FundInv
<1>6. file'[s] \subseteq published[s]
  BY <1>1 DEF FundInv, OnlyPublished
<1>7. ASSUME NEW r \in Schemes, r = s, r \notin mixed PROVE Consistent(r)'
  <2>1. Consistent(r)
    BY DEF FundInv
  <2>2. ASSUME NEW d \in Coroutines, Runs(d), task[d].scheme = r
        PROVE  d = c
    BY <1>7, <2>2 DEF FundInv, Alone
  <2>3. CASE Half(c)
    <3>1. D2 \notin {B1, D1, E1}
      BY Heads
    <3>2. Runs(c)' /\ task'[c].scheme = r /\ task'[c].left = D1
      BY <1>2, <1>7, <2>3, <3>1, Tails DEF Advances
    <3>3. Half(c)'
      BY <3>2 DEF Half
    <3> QED
      BY <3>2, <3>3 DEF Consistent
  <2>4. CASE ~Half(c)
    BY <2>1, <2>2, <2>4 DEF Consistent
  <2> QED
    BY <2>3, <2>4
<1>8. PICK r \in Schemes : r = task[c].scheme
  BY <1>1
<1>9. Runs(c)' /\ r \notin mixed => Prepared(c)'
  BY <1>2, <1>8 DEF Prepared, Advances
<1>10. Moves(c)
  BY <1>2 DEF Advances
<1> QED
  BY <1>9, <1>10, <1>3, <1>4, <1>5, <1>6, <1>7, <1>8, MovesKeep

\* What has to fit at each list.
LEMMA FitsAt ==
  ASSUME NEW p, NEW m, NEW f
  PROVE  /\ Fits(B5, p, m, f) /\ Fits(D4, p, m, f) /\ Fits(D2, p, m, f)
         /\ Fits(B1, p, m, f)
         /\ \A l \in {B4, C5, C4, C3} : FromSeries(f, p) => Fits(l, p, m, f)
         /\ \A l \in {B3, C2} :
              Fits(l, p, m, f) <=> /\ FromSeries(f, p)
                                   /\ p # {} => m = f \cup Capped(p)
         /\ (p # {} => m = f \cup Capped(p)) <=> Fits(D3, p, m, f)
         /\ \A l \in {B2, D1} : Returns(p) = Returns(f) <=> Fits(l, p, m, f)
<1>1. Fits(B5, p, m, f) /\ Fits(D4, p, m, f) /\ Fits(D2, p, m, f)
  BY Heads, Unlike DEF Fits
<1>2. Fits(B1, p, m, f)
  BY Heads, Unlike DEF Fits
<1>3. \A l \in {B4, C5, C4, C3} : FromSeries(f, p) => Fits(l, p, m, f)
  BY Heads, Unlike DEF Fits
<1>4. \A l \in {B3, C2} :
        Fits(l, p, m, f) <=> /\ FromSeries(f, p)
                             /\ p # {} => m = f \cup Capped(p)
  BY Heads, Unlike DEF Fits
<1>5. (p # {} => m = f \cup Capped(p)) <=> Fits(D3, p, m, f)
  BY Heads, Unlike DEF Fits
<1>6. \A l \in {B2, D1} : Returns(p) = Returns(f) <=> Fits(l, p, m, f)
  BY Heads, Unlike DEF Fits
<1> QED
  BY <1>1, <1>2, <1>3, <1>4, <1>5, <1>6

\* What a coroutine that is at a step knows of its points and of its scheme.
LEMMA AtStepKnows ==
  ASSUME FundInv, NEW c \in Coroutines, NEW step, AtStep(c, step)
  PROVE  /\ TypeOK /\ Runs(c) /\ task[c].scheme \in Schemes
         /\ task[c].points \in SUBSET Days /\ task[c].merged \in SUBSET Days
         /\ task[c].points \subseteq published[task[c].scheme]
         /\ task[c].merged \subseteq published[task[c].scheme]
         /\ file[task[c].scheme] \subseteq published[task[c].scheme]
         /\ published[task[c].scheme] \in SUBSET Days
         /\ file[task[c].scheme] \in SUBSET Days
         /\ Dense(published[task[c].scheme])
         /\ task[c].scheme \notin mixed =>
              Fits(task[c].left, task[c].points, task[c].merged,
                   file[task[c].scheme])
<1>1. TypeOK /\ Runs(c)
  BY RunsOrRests DEF FundInv, AtStep
<1>2. task[c].scheme \in Schemes /\ task[c].points \in SUBSET Days
      /\ task[c].merged \in SUBSET Days
  BY <1>1, RunsOrRests
<1>3. task[c].points \cup task[c].merged \subseteq published[task[c].scheme]
      /\ file[task[c].scheme] \subseteq published[task[c].scheme]
  BY <1>1, <1>2 DEF FundInv, OnlyPublished
<1>4. task[c].scheme \notin mixed => Prepared(c)
  BY <1>1 DEF FundInv, AllPrepared
<1>5. Dense(published[task[c].scheme])
  BY <1>2 DEF FundInv, SourceIsDense
<1>6. published[task[c].scheme] \in SUBSET Days
      /\ file[task[c].scheme] \in SUBSET Days
  BY <1>1, <1>2 DEF TypeOK
<1> QED
  BY <1>1, <1>2, <1>3, <1>4, <1>5, <1>6 DEF Prepared

\* A backfill that gives up has read nothing, and has one step left.
LEMMA GivesUpInv ==
  ASSUME FundInv, NEW c \in Coroutines, AtStep(c, "latest"),
         task[c].kind = "backfill", task[c].left = B6,
         task' = [task EXCEPT ![c].left = GivesUp],
         UNCHANGED <<sourceVars, rowVars, file, job, mixed, torn, failures>>
  PROVE  FundInv'
<1> DEFINE t == [task[c] EXCEPT !.left = GivesUp]
<1>1. PICK s \in Schemes : s = task[c].scheme
  BY AtStepKnows
<1>2. /\ TypeOK /\ Runs(c) /\ file[s] \subseteq published[s]
      /\ task[c].points \cup task[c].merged \subseteq published[s]
  BY <1>1, AtStepKnows
<1>3. /\ t \in Tasks /\ t.scheme = s /\ t.left = E1
      /\ t.points = task[c].points /\ t.merged = task[c].merged
  <2>1. GivesUp = E1 /\ E1 \in Rests("backfill") /\ "backfill" \in Kinds
    BY DEF GivesUp, E1, Rests, Kinds
  <2>2. task[c] \in Tasks
    BY <1>2 DEF Runs
  <2>3. E1 \in UNION {Rests(k) : k \in Kinds}
    BY <2>1
  <2> QED
    BY <1>1, <2>1, <2>2, <2>3 DEF Tasks
<1>4. task' = [task EXCEPT ![c] = t]
  BY DEF TypeOK
<1> HIDE DEF t
<1>5. task'[c] = t /\ \A d \in Coroutines \ {c} : task'[d] = task[d]
  BY <1>2, <1>4 DEF TypeOK
<1>6. TypeOK'
  <2>1. task' \in [Coroutines -> Tasks \cup {Resting}]
    BY <1>2, <1>3, <1>4 DEF TypeOK
  <2> QED
    BY <1>2, <2>1 DEF TypeOK, sourceVars, rowVars
<1>7. Moves(c)
  BY <1>1, <1>2, <1>3, <1>5 DEF Moves, OthersSame, sourceVars, rowVars
<1>8. Prepared(c)'
  <2>1. Fits(E1, t.points, t.merged, file[s])
    BY Heads DEF Fits
  <2> QED
    BY <1>3, <1>5, <2>1 DEF Prepared
<1>9. Consistent(s)'
  <2>1. Consistent(s) /\ ~Half(c)
    BY Heads DEF FundInv, Half
  <2>2. ASSUME NEW d \in Coroutines, Runs(d), task[d].scheme = s, Half(d)
        PROVE  Runs(d)' /\ task'[d].scheme = s /\ Half(d)'
    BY <1>5, <2>1, <2>2 DEF Runs, Half
  <2> QED
    BY <2>1, <2>2 DEF Consistent, rowVars
<1>10. s \in mixed => s \in torn'
  BY DEF FundInv
<1>11. /\ file'[s] \subseteq published[s]
       /\ Runs(c)' => task'[c].points \cup task'[c].merged \subseteq published[s]
  BY <1>2, <1>3, <1>5
<1> QED
  BY <1>1, <1>6, <1>7, <1>8, <1>9, <1>10, <1>11, MovesKeep

\* The step of the latest NAV; nothing has been read yet.
LEMMA LatestNavInv ==
  ASSUME FundInv, NEW c \in Coroutines, LatestNav(c) PROVE FundInv'
<1> DEFINE nav == Latest(published[task[c].scheme])
           p == IF task[c].kind = "backfill" THEN task[c].points ELSE {nav}
           m == IF task[c].kind = "backfill" THEN task[c].merged ELSE {}
<1>1. AtStep(c, "latest")
  BY DEF LatestNav
<1>2. /\ TypeOK /\ Runs(c)
      /\ (task[c].kind = "backfill" /\ task[c].left = B6)
         \/ (task[c].kind = "daily" /\ task[c].left = D5)
  BY <1>1, AtStepKnows, StepTells
<1>3. ~Half(c)
  BY <1>2, Heads DEF Half
<1>4. \/ Ends(c)
      \/ task[c].kind = "backfill" /\ Goes(c, task[c].points, task[c].merged)
      \/ task[c].kind = "daily" /\ nav # 0 /\ Goes(c, {nav}, {})
      \/ /\ task[c].kind = "backfill"
         /\ task' = [task EXCEPT ![c].left = GivesUp] /\ mixed' = mixed
  BY DEF LatestNav, GoesOn
<1>5. /\ active' \in [Schemes -> {"absent", "null", "live", "dormant"}]
      /\ UNCHANGED <<sourceVars, rowVars, file, returns, torn, job, failures>>
      /\ backfilled' \in [Schemes -> BOOLEAN] /\ failures' \in Nat
  BY <1>2 DEF LatestNav, TypeOK, rowVars
<1>6. CASE Ends(c) \/ (task[c].kind = "backfill"
                       /\ Goes(c, task[c].points, task[c].merged))
  <2>1. Goes(c, task[c].points, task[c].merged) \/ Ends(c)
    BY <1>6
  <2>2. /\ task[c].points \in SUBSET Days /\ task[c].merged \in SUBSET Days
        /\ task[c].points \cup task[c].merged \subseteq published[task[c].scheme]
    BY <1>1, AtStepKnows
  <2>3. Fits(Tail(task[c].left), task[c].points, task[c].merged,
             file[task[c].scheme])
    BY <1>2, Tails, FitsAt
  <2> QED
    BY <1>2, <1>3, <1>5, <2>1, <2>2, <2>3, QuietStep
<1>7. CASE task[c].kind = "daily" /\ nav # 0 /\ Goes(c, {nav}, {})
  <2>1. {nav} \in SUBSET Days /\ {nav} \subseteq published[task[c].scheme]
        /\ {} \in SUBSET Days
    BY <1>1, <1>7, AtStepKnows, LatestIsLast, LatestType
  <2>2. {nav} \cup {} \subseteq published[task[c].scheme]
    BY <2>1
  <2>3. Fits(Tail(task[c].left), {nav}, {}, file[task[c].scheme])
    BY <1>2, <1>7, Tails, FitsAt
  <2> HIDE DEF nav
  <2> QED
    BY <1>2, <1>3, <1>5, <1>7, <2>1, <2>2, <2>3, QuietStep
<1>8. CASE /\ task[c].kind = "backfill"
           /\ task' = [task EXCEPT ![c].left = GivesUp] /\ mixed' = mixed
  BY <1>1, <1>2, <1>5, <1>8, GivesUpInv
<1> QED
  BY <1>4, <1>6, <1>7, <1>8

\* Marking a scheme as inactive ends its backfill.
LEMMA MarkInactiveInv ==
  ASSUME FundInv, NEW c \in Coroutines, MarkInactive(c) PROVE FundInv'
<1>1. AtStep(c, "dormant") /\ Goes(c, task[c].points, task[c].merged)
  BY DEF MarkInactive, GoesOn
<1>2. /\ TypeOK /\ Runs(c) /\ task[c].left = E1
      /\ task[c].points \in SUBSET Days /\ task[c].merged \in SUBSET Days
      /\ task[c].points \cup task[c].merged \subseteq published[task[c].scheme]
  BY <1>1, AtStepKnows, StepTells
<1>3. ~Half(c)
  BY <1>2, Heads DEF Half
<1>4. /\ active' \in [Schemes -> {"absent", "null", "live", "dormant"}]
      /\ UNCHANGED <<sourceVars, file, returns, torn, job>>
      /\ backfilled' \in [Schemes -> BOOLEAN] /\ failures' \in Nat
  BY <1>2 DEF MarkInactive, TypeOK
<1> QED
  BY <1>1, <1>2, <1>3, <1>4, QuietStep

\* A backfill takes the history capped, a chart as it is.
LEMMA HistoryInv ==
  ASSUME FundInv, NEW c \in Coroutines, History(c) \/ Fetch(c) PROVE FundInv'
<1> DEFINE Q == published[task[c].scheme]
<1>1. PICK p : /\ \/ p = Capped(Q) /\ AtStep(c, "history")
                  \/ p = Q /\ AtStep(c, "fetch")
               /\ Goes(c, p, {})
  BY DEF History, Fetch
<1>2. /\ TypeOK /\ Runs(c) /\ Q \in SUBSET Days /\ Dense(Q)
      /\ file[task[c].scheme] \subseteq Q
  BY <1>1, AtStepKnows
<1>3. Capped(Q) \subseteq p /\ p \subseteq Q
  BY <1>1 DEF Capped
<1>4. task[c].left \in {B5, C6}
  BY <1>1, <1>2, StepTells
<1>5. ~Half(c)
  BY <1>4, Heads DEF Half
<1>6. FromSeries(file[task[c].scheme], p)
  BY <1>2, <1>3 DEF FromSeries
<1>7. Fits(Tail(task[c].left), p, {}, file[task[c].scheme])
  BY <1>4, <1>6, Tails, FitsAt
<1>8. UNCHANGED <<sourceVars, file, returns, torn, job, active, backfilled,
                  failures>>
  BY DEF History, Fetch, rowVars
<1>9. /\ active' \in [Schemes -> {"absent", "null", "live", "dormant"}]
      /\ UNCHANGED <<sourceVars, file, returns, torn, job>>
      /\ backfilled' \in [Schemes -> BOOLEAN] /\ failures' \in Nat
  BY <1>2, <1>8 DEF TypeOK
<1>10. p \in SUBSET Days /\ {} \in SUBSET Days /\ p \cup {} \subseteq Q
  BY <1>2, <1>3
<1> QED
  BY <1>1, <1>2, <1>5, <1>7, <1>9, <1>10, QuietStep

\* The rows of a scheme are no concern of its file.
LEMMA RowInv ==
  ASSUME FundInv, NEW c \in Coroutines, Row(c) \/ Mark(c) PROVE FundInv'
<1> DEFINE t == task[c]
<1>1. AtStep(c, "row") \/ AtStep(c, "mark")
  BY DEF Row, Mark
<1>2. /\ TypeOK /\ Runs(c) /\ t.scheme \in Schemes
      /\ t.points \in SUBSET Days /\ t.merged \in SUBSET Days
      /\ t.points \cup t.merged \subseteq published[t.scheme]
      /\ t.scheme \notin mixed =>
           Fits(t.left, t.points, t.merged, file[t.scheme])
  BY <1>1, AtStepKnows
<1>3. Goes(c, t.points, t.merged)
  BY DEF Row, Mark, GoesOn
<1>4. t.left \in {C5, B1, C4}
  BY <1>1, <1>2, StepTells
<1>5. ~Half(c)
  BY <1>4, Heads, Unlike DEF Half
<1>6. t.scheme \notin mixed /\ t.left # B1 =>
        Fits(Tail(t.left), t.points, t.merged, file[t.scheme])
  <2>1. t.scheme \notin mixed /\ t.left # B1 =>
          FromSeries(file[t.scheme], t.points)
    BY <1>2, <1>4 DEF Fits
  <2> QED
    BY <1>4, <2>1, Tails, FitsAt
<1>8. /\ active' \in [Schemes -> {"absent", "null", "live", "dormant"}]
      /\ UNCHANGED <<sourceVars, file, returns, torn, job>>
      /\ failures' \in Nat
  BY <1>2 DEF Row, Mark, TypeOK
<1>9. backfilled' \in [Schemes -> BOOLEAN]
  <2>1. backfilled \in [Schemes -> BOOLEAN]
    BY <1>2 DEF TypeOK
  <2> QED
    BY <2>1, Zenon DEF Row, Mark
<1> HIDE DEF t
<1> QED
  BY <1>2, <1>3, <1>5, <1>6, <1>8, <1>9, QuietStep DEF t

\* Reading joins what is in the file and what was fetched.
LEMMA ReadInv ==
  ASSUME FundInv, NEW c \in Coroutines, Read(c) PROVE FundInv'
<1> DEFINE s == task[c].scheme
           p == task[c].points
           m == IF p = {} THEN {} ELSE Merged(c)
<1>1. AtStep(c, "read") /\ Goes(c, p, m)
  BY DEF Read
<1>2. /\ TypeOK /\ Runs(c) /\ s \in Schemes /\ p \in SUBSET Days
      /\ p \subseteq published[s] /\ file[s] \subseteq published[s]
      /\ file[s] \in SUBSET Days
      /\ s \notin mixed => Fits(task[c].left, p, task[c].merged, file[s])
  BY <1>1, AtStepKnows
<1>3. task[c].left \in {B4, D4, C3}
  BY <1>1, <1>2, StepTells
<1>4. ~Half(c)
  BY <1>3, Heads DEF Half
<1>5. Capped(p) \subseteq p
  BY DEF Capped
<1>6. m \in SUBSET Days /\ p \cup m \subseteq published[s]
      /\ (p # {} => m = file[s] \cup Capped(p))
  BY <1>2, <1>5 DEF Merged
<1>7. s \notin mixed => Fits(Tail(task[c].left), p, m, file[s])
  <2>1. s \notin mixed /\ task[c].left # D4 => FromSeries(file[s], p)
    BY <1>2, <1>3 DEF Fits
  <2> HIDE DEF s, p, m
  <2>2. CASE task[c].left = B4
    BY <1>6, <2>1, <2>2, Heads, Unlike, Tails, FitsAt
  <2>3. CASE task[c].left = D4
    BY <1>6, <2>3, Tails, FitsAt
  <2>4. CASE task[c].left = C3
    BY <1>6, <2>1, <2>4, Unlike, Tails, FitsAt
  <2> QED
    BY <1>3, <2>2, <2>3, <2>4
<1>8. /\ active' \in [Schemes -> {"absent", "null", "live", "dormant"}]
      /\ UNCHANGED <<sourceVars, file, returns, torn, job>>
      /\ backfilled' \in [Schemes -> BOOLEAN] /\ failures' \in Nat
  BY <1>2 DEF Read, TypeOK, rowVars
<1> HIDE DEF m, p
<1> QED
  BY <1>1, <1>2, <1>4, <1>6, <1>7, <1>8, QuietStep DEF p

\* The series of the day's returns is the file's.
LEMMA SeriesInv ==
  ASSUME FundInv, NEW c \in Coroutines, Series(c) PROVE FundInv'
<1> DEFINE s == task[c].scheme
           p == SeriesOf(c)
<1>1. AtStep(c, "series") /\ Goes(c, p, {})
  BY DEF Series
<1>2. /\ TypeOK /\ Runs(c) /\ s \in Schemes
      /\ file[s] \subseteq published[s] /\ file[s] \in SUBSET Days
  BY <1>1, AtStepKnows
<1>3. task[c].left = D2
  BY <1>1, <1>2, StepTells
<1>4. p = file[s]
  BY DEF SeriesOf
<1>5. Fits(Tail(task[c].left), p, {}, file[s])
  <2>1. Returns(p) = Returns(file[s])
    BY <1>4
  <2> HIDE DEF p
  <2>2. Fits(D1, p, {}, file[s])
    BY <2>1, FitsAt
  <2> QED
    BY <1>3, <2>2, Tails
<1>6. p \in SUBSET Days /\ {} \in SUBSET Days /\ p \cup {} \subseteq published[s]
  BY <1>2, <1>4
<1>7. /\ active' \in [Schemes -> {"absent", "null", "live", "dormant"}]
      /\ UNCHANGED <<sourceVars, file, returns, torn, job>>
      /\ backfilled' \in [Schemes -> BOOLEAN] /\ failures' \in Nat
  BY <1>2 DEF Series, TypeOK, rowVars
<1> HIDE DEF p
<1> QED
  BY <1>1, <1>2, <1>3, <1>5, <1>6, <1>7, QuietStep

\* Writing keeps the points of the file, and leaves returns to be written that
\* are those of the file, if the task was alone.
LEMMA WriteInv ==
  ASSUME FundInv, NEW c \in Coroutines, Write(c) PROVE FundInv'
<1> DEFINE p == task[c].points
<1>0. PICK s \in Schemes : s = task[c].scheme
  BY AtStepKnows DEF Write
<1>1. AtStep(c, "write") /\ Goes(c, p, {})
  BY DEF Write
<1>2. /\ TypeOK /\ Runs(c) /\ p \in SUBSET Days
      /\ p \subseteq published[s] /\ file[s] \subseteq published[s]
      /\ file[s] \in SUBSET Days /\ task[c].merged \in SUBSET Days
      /\ task[c].merged \subseteq published[s]
      /\ s \notin mixed => Fits(task[c].left, p, task[c].merged, file[s])
  BY <1>0, <1>1, AtStepKnows
<1>3. task[c].left \in {B3, D3, C2}
  BY <1>1, <1>2, StepTells
<1>4. /\ file' = [file EXCEPT ![s] = IF p = {} THEN @ ELSE task[c].merged]
      /\ UNCHANGED <<sourceVars, rowVars, job, torn, failures>>
  BY <1>0 DEF Write
<1>5. file' \in [Schemes -> SUBSET Days]
      /\ file'[s] = IF p = {} THEN file[s] ELSE task[c].merged
  BY <1>2, <1>4 DEF TypeOK
<1>6. OthersSame(s)
  BY <1>2, <1>4 DEF OthersSame, TypeOK, rowVars
<1>7. Advances(c, p, {})
  <2>1. {} \in SUBSET Days
    OBVIOUS
  <2> QED
    BY <1>0, <1>1, <1>2, <1>6, <2>1, GoesMoves
<1>8. TypeOK'
  BY <1>2, <1>4, <1>5, <1>7 DEF TypeOK, sourceVars, rowVars, Advances
<1>9. Runs(c)'
  <2>1. task[c].left \notin {B1, D1, E1}
    BY <1>3, Heads
  <2> QED
    BY <1>1, <1>7, <2>1 DEF Advances
<1>10. /\ task'[c].points = p /\ task'[c].merged = {} /\ Moves(c)
       /\ task'[c].left = Tail(task[c].left) /\ task'[c].scheme = s
  BY <1>0, <1>7, <1>9 DEF Advances
<1>11. Half(c)'
  BY <1>3, <1>10, Tails DEF Half
<1>12. ASSUME s \notin mixed PROVE Prepared(c)'
  <2>1. CASE task[c].left = D3
    <3>1. Fits(D2, p, {}, file'[s])
      BY FitsAt
    <3> QED
      BY <1>10, <2>1, <3>1, Tails DEF Prepared
  <2>2. CASE task[c].left \in {B3, C2}
    <3>1. FromSeries(file[s], p) /\ (p # {} => task[c].merged = file[s] \cup Capped(p))
      BY <1>2, <1>12, <2>2, FitsAt
    <3>2. PICK Q \in SUBSET Days : /\ Dense(Q) /\ file[s] \subseteq Q
                                   /\ Capped(Q) \subseteq p /\ p \subseteq Q
      BY <3>1 DEF FromSeries
    <3>3. Capped(p) = Capped(Q) /\ (p = {} <=> Q = {})
      BY <3>2, CappedKeeps
    <3>4. Capped(Q) \subseteq file'[s] /\ file'[s] \subseteq Q
      BY <1>5, <3>1, <3>2, <3>3 DEF Capped
    <3>5. Returns(p) = Returns(Q) /\ Returns(file'[s]) = Returns(Q)
      BY <3>2, <3>4, SameReturns
    <3>6. task'[c].left \in {B2, D1}
      BY <1>10, <2>2, Tails
    <3>7. \A l \in {B2, D1} : Fits(l, p, {}, file'[s])
      <4>1. Returns(p) = Returns(file'[s])
        BY <3>5
      <4> HIDE DEF p
      <4> QED
        BY <4>1, FitsAt
    <3> QED
      BY <1>10, <3>6, <3>7 DEF Prepared
  <2> QED
    BY <1>3, <2>1, <2>2
<1>13. Consistent(s)'
  BY <1>9, <1>10, <1>11 DEF Consistent
<1>14. file'[s] \subseteq published[s]
  BY <1>2, <1>5
<1>15. s \in mixed => s \in torn'
  BY <1>4 DEF FundInv
<1>16. task'[c].points \cup task'[c].merged \subseteq published[s]
  BY <1>2, <1>10
<1> QED
  BY <1>0, <1>8, <1>10, <1>12, <1>13, <1>14, <1>15, <1>16, MovesKeep

\* The returns of a series are a record of three dates, or none.
LEMMA ReturnsAre ==
  ASSUME NEW Q \in SUBSET Days PROVE Returns(Q) \in ReturnsType
<1> DEFINE B == {d \in Q : d + Lookback <= Latest(Q)}
<1>1. B \in SUBSET Days /\ Q \ {Latest(Q)} \in SUBSET Days
  OBVIOUS
<1>2. Latest(Q) \in Nat /\ Latest(B) \in Nat /\ Latest(Q \ {Latest(Q)}) \in Nat
  BY <1>1, LatestType
<1> QED
  BY <1>2 DEF Returns, ReturnsType

\* The returns are computed from what the task holds, and fit the file if no
\* other task met this one; if one did, the scheme stays torn.
LEMMA UpsertInv ==
  ASSUME FundInv, NEW c \in Coroutines, Upsert(c) PROVE FundInv'
<1> DEFINE p == task[c].points
           m == task[c].merged
<1>0. PICK s \in Schemes : s = task[c].scheme
  BY AtStepKnows DEF Upsert
<1>1. AtStep(c, "returns") /\ Goes(c, p, m)
  BY DEF Upsert, GoesOn
<1>2. /\ TypeOK /\ Runs(c) /\ p \in SUBSET Days /\ m \in SUBSET Days
      /\ p \subseteq published[s] /\ m \subseteq published[s]
      /\ file[s] \subseteq published[s]
      /\ s \notin mixed => Fits(task[c].left, p, m, file[s])
  BY <1>0, <1>1, AtStepKnows
<1>3. task[c].left \in {B2, D1}
  BY <1>1, <1>2, StepTells
<1>4. /\ returns' = [returns EXCEPT ![s] = Returns(p)]
      /\ torn' = IF s \in mixed THEN torn ELSE torn \ {s}
      /\ UNCHANGED <<sourceVars, active, backfilled, file, job, failures>>
  BY <1>0 DEF Upsert
<1>5. /\ returns' \in [Schemes -> ReturnsType] /\ returns'[s] = Returns(p)
      /\ \A r \in Schemes \ {s} : returns'[r] = returns[r]
  BY <1>2, <1>4, ReturnsAre DEF TypeOK
<1>6. OthersSame(s)
  BY <1>4, <1>5 DEF OthersSame, sourceVars
<1>7. Advances(c, p, m)
  BY <1>0, <1>1, <1>2, <1>6, GoesMoves
<1>8. TypeOK'
  BY <1>2, <1>4, <1>5, <1>7 DEF TypeOK, sourceVars, Advances
<1>9. s \notin mixed => Returns(p) = Returns(file[s])
  BY <1>2, <1>3 DEF Fits
<1>10. s \notin mixed => Consistent(s)'
  BY <1>4, <1>5, <1>9 DEF Consistent
<1>11. Moves(c)
  BY <1>7 DEF Advances
<1>12. Runs(c)' => /\ task'[c].points \cup task'[c].merged \subseteq published[s]
                   /\ Prepared(c)'
  <2> SUFFICES ASSUME Runs(c)'
               PROVE  /\ task'[c].points \cup task'[c].merged \subseteq published[s]
                      /\ Prepared(c)'
    OBVIOUS
  <2>1. task[c].left = B2 /\ task'[c].left = B1
    BY <1>3, <1>7, Tails DEF Advances
  <2>2. task'[c].points = p /\ task'[c].merged = m
    BY <1>7 DEF Advances
  <2>3. Prepared(c)'
    BY <2>1, FitsAt DEF Prepared
  <2> QED
    BY <1>2, <2>2, <2>3
<1>13. file'[s] \subseteq published[s] /\ (s \in mixed => s \in torn')
  BY <1>2, <1>4 DEF FundInv
<1> QED
  BY <1>0, <1>8, <1>10, <1>11, <1>12, <1>13, MovesKeep

\* A task that is given up half way leaves its scheme torn.
LEMMA FailsInv ==
  ASSUME FundInv, NEW c \in Coroutines, Fails(c) PROVE FundInv'
<1>1. TypeOK /\ Runs(c)
  BY RunsOrRests DEF FundInv, Fails
<1>0. PICK s \in Schemes : s = task[c].scheme
  BY <1>1, RunsOrRests
<1>2. /\ torn' = (IF Half(c) THEN torn \cup {s} ELSE torn)
      /\ UNCHANGED <<sourceVars, rowVars, file, job>> /\ Ends(c)
      /\ failures' = failures + 1
  BY <1>0, <1>1, HalfwayIs DEF Fails
<1>3. OthersSame(s)
  BY <1>2 DEF OthersSame, sourceVars, rowVars
<1>4. {} \in SUBSET Days
  OBVIOUS
<1>5. Advances(c, {}, {})
  BY <1>0, <1>1, <1>2, <1>3, <1>4, GoesMoves
<1>6. ~Runs(c)' /\ Moves(c)
  <2>1. task'[c] = Resting
    BY <1>1, <1>2 DEF Ends, TypeOK
  <2>2. Resting \notin Tasks
    BY Programs DEF Tasks, Resting
  <2> QED
    BY <1>5, <2>1, <2>2 DEF Advances, Runs
<1>7. TypeOK'
  <2>1. failures' \in Nat
    BY <1>1, <1>2 DEF TypeOK
  <2> QED
    BY <1>0, <1>1, <1>2, <1>5, <2>1 DEF TypeOK, sourceVars, rowVars, Advances
<1>8. file'[s] \subseteq published[s] /\ (s \in mixed => s \in torn')
  BY <1>2 DEF FundInv, OnlyPublished
<1>9. ASSUME s \notin mixed PROVE Consistent(s)'
  <2>1. Consistent(s)
    BY DEF FundInv
  <2>2. \A d \in Coroutines : Runs(d) /\ task[d].scheme = s => d = c
    BY <1>0, <1>1, <1>9 DEF FundInv, Alone
  <2> QED
    BY <1>2, <2>1, <2>2 DEF Consistent, rowVars
<1> QED
  BY <1>0, <1>6, <1>7, <1>8, <1>9, MovesKeep

-----------------------------------------------------------------------------
(* The other steps.                                                         *)

\* A day passes, with or without new NAVs.
LEMMA PublishInv ==
  ASSUME FundInv, Publish PROVE FundInv'
<1>1. TypeOK
  BY DEF FundInv
<1>2. /\ day < MaxDay /\ day' = day + 1
      /\ UNCHANGED <<rowVars, file, job, task, historyVars, failures>>
  BY DEF Publish
<1>3. PICK S \in SUBSET {s \in Quoted :
              published[s] = {} \/ Latest(published[s]) + Buffer >= day} :
        published' = [s \in Schemes |->
          IF s \in S THEN published[s] \cup {day + 1} ELSE published[s]]
  BY DEF Publish
<1>4. day \in Days /\ day + 1 \in Days /\ day \in Nat
  BY <1>1, <1>2, Numbers DEF TypeOK, Days
<1>5. ASSUME NEW s \in Schemes
      PROVE  /\ published'[s] \in SUBSET Days /\ Dense(published'[s])
             /\ \A d \in published'[s] : d <= day'
             /\ published[s] \subseteq published'[s]
  <2>1. published[s] \in SUBSET Days /\ Dense(published[s])
        /\ \A d \in published[s] : d <= day /\ d \in Nat
    BY <1>1, Numbers DEF FundInv, SourceIsDense, TypeOK, Days
  <2>2. CASE s \in S
    <3>1. published'[s] = published[s] \cup {day + 1}
      BY <1>3, <2>2
    <3>2. published[s] = {} \/ Latest(published[s]) + Buffer >= day
      BY <2>2
    <3>3. Dense(published[s] \cup {day + 1})
      BY <1>4, <2>1, <3>2, PublishedStaysDense
    <3> QED
      BY <1>2, <1>4, <2>1, <3>1, <3>3
  <2>3. CASE s \notin S
    BY <1>2, <1>3, <1>4, <2>1, <2>3
  <2> QED
    BY <2>2, <2>3
<1>6. TypeOK'
  <2>1. published' \in [Schemes -> SUBSET Days]
    BY <1>3, <1>5
  <2> QED
    BY <1>1, <1>2, <1>4, <2>1 DEF TypeOK, rowVars, historyVars
<1>7. SourceIsDense'
  BY <1>5 DEF SourceIsDense
<1>8. OnlyPublished'
  <2>1. \A s \in Schemes : file'[s] \subseteq published'[s]
    BY <1>2, <1>5 DEF FundInv, OnlyPublished
  <2>2. ASSUME NEW d \in Coroutines, Runs(d)'
        PROVE  task'[d].points \cup task'[d].merged
                 \subseteq published'[task'[d].scheme]
    <3>1. Runs(d) /\ task'[d] = task[d]
      BY <1>2, <2>2 DEF Runs
    <3>2. task[d].scheme \in Schemes
      BY <1>1, <3>1, RunsOrRests
    <3> QED
      BY <1>5, <3>1, <3>2 DEF FundInv, OnlyPublished
  <2> QED
    BY <2>1, <2>2 DEF OnlyPublished
<1>9. /\ OwnScheme' /\ (mixed \subseteq torn)' /\ Alone' /\ AllPrepared'
      /\ \A s \in Schemes : Consistent(s)'
  BY <1>2 DEF FundInv, OwnScheme, Alone, AllPrepared, Prepared, Consistent,
      Runs, Half, rowVars, historyVars
<1> QED
  BY <1>6, <1>7, <1>8, <1>9 DEF FundInv

\* Steps that change no task, no file and no returns.
LEMMA ElsewhereInv ==
  ASSUME FundInv, TypeOK',
         UNCHANGED <<sourceVars, file, returns, task, historyVars>>
  PROVE  FundInv'
BY DEF FundInv, SourceIsDense, OnlyPublished, OwnScheme, Alone, AllPrepared,
   Prepared, Consistent, Runs, Half, sourceVars, historyVars

\* A task that has begun holds nothing.
LEMMA BegunIs ==
  ASSUME NEW kind \in Kinds, NEW s \in Schemes
  PROVE  /\ Begun(kind, s) \in Tasks /\ Begun(kind, s).scheme = s
         /\ Begun(kind, s).points = {} /\ Begun(kind, s).merged = {}
         /\ Begun(kind, s).left \in {B6, D5, C6}
<1> DEFINE b == Begun(kind, s)
<1>1. b = [kind |-> kind, scheme |-> s, left |-> Program[kind], points |-> {},
           merged |-> {}]
  <2> DEFINE l == Program[kind]
             e == <<>>
             r == [kind |-> "none", scheme |-> 0, left |-> e, points |-> {},
                   merged |-> {}]
  <2>1. b = [r EXCEPT !.kind = kind, !.scheme = s, !.left = l]
    BY DEF Begun, Resting
  <2> HIDE DEF l, e, b
  <2> QED
    BY <2>1 DEF l
<1>2. Program[kind] \in {B6, D5, C6} /\ Program[kind] \in Rests(kind)
  <2>1. CASE kind = "backfill"
    BY <2>1, Programs DEF Rests
  <2>2. CASE kind = "daily"
    BY <2>2, Programs DEF Rests
  <2>3. CASE kind = "chart"
    BY <2>3, Programs DEF Rests
  <2> QED
    BY <2>1, <2>2, <2>3 DEF Kinds
<1>3. Program[kind] \in UNION {Rests(k) : k \in Kinds}
  BY <1>2
<1> HIDE DEF b
<1> QED
  BY <1>1, <1>2, <1>3 DEF Tasks, b

\* Tasks that begin meet those there are, or are alone.
LEMMA BeginInv ==
  ASSUME FundInv, NEW new, DOMAIN new \subseteq Coroutines, Begin(new),
         \A c \in DOMAIN new :
           /\ new[c] \in Tasks /\ new[c].left \in {B6, D5, C6}
           /\ new[c].points = {} /\ new[c].merged = {}
           /\ Runs(c) => task[c].scheme = new[c].scheme
           /\ c \in Schemes => new[c].scheme = c,
         \A c, d \in DOMAIN new : new[c].scheme = new[d].scheme => c = d,
         UNCHANGED <<sourceVars, rowVars, file, failures>>,
         job' \in {"sync", "pending", "backfill", "stored", "daily", "sleep"}
  PROVE  FundInv'
<1> DEFINE N == DOMAIN new
           met == {s \in Schemes : On(s) # {} /\ \E c \in N : new[c].scheme = s}
<1>1. /\ \A c \in Coroutines : task'[c] = IF c \in N THEN new[c] ELSE task[c]
      /\ mixed' = mixed \cup met /\ torn' = torn \cup met
      /\ task' = [c \in Coroutines |-> IF c \in N THEN new[c] ELSE task[c]]
  BY DEF Begin
<1>2. TypeOK /\ OnlyPublished /\ OwnScheme /\ mixed \subseteq torn
  BY DEF FundInv
<1>3. \A c \in N : new[c].scheme \in Schemes
  BY DEF Tasks
<1>4. TypeOK'
  <2>1. task' \in [Coroutines -> Tasks \cup {Resting}]
    BY <1>1, <1>2 DEF TypeOK
  <2>2. mixed' \subseteq Schemes /\ torn' \subseteq Schemes
    BY <1>1, <1>2 DEF TypeOK
  <2> QED
    BY <1>2, <2>1, <2>2 DEF TypeOK, sourceVars, rowVars
<1>5. \A s : On(s) = {c \in Coroutines : Runs(c) /\ task[c].scheme = s}
  BY <1>2, OnIs
<1>6. \A c \in Coroutines : c \in N => Runs(c)' /\ task'[c] = new[c]
  BY <1>1 DEF Runs
<1>7. \A c \in Coroutines : c \notin N => (Runs(c)' <=> Runs(c)) /\ task'[c] = task[c]
  BY <1>1 DEF Runs
<1>8. SourceIsDense'
  BY DEF FundInv, SourceIsDense, sourceVars
<1>9. OnlyPublished'
  <2>1. \A s \in Schemes : file'[s] \subseteq published'[s]
    BY <1>2 DEF OnlyPublished, sourceVars
  <2>2. ASSUME NEW c \in Coroutines, Runs(c)'
        PROVE  task'[c].points \cup task'[c].merged
                 \subseteq published'[task'[c].scheme]
    BY <1>2, <1>6, <1>7, <2>2 DEF OnlyPublished, sourceVars
  <2> QED
    BY <2>1, <2>2 DEF OnlyPublished
<1>10. OwnScheme'
  <2>1. Schemes \subseteq Coroutines
    BY DEF Coroutines
  <2> QED
    BY <1>2, <1>6, <1>7, <2>1 DEF OwnScheme
<1>11. (mixed \subseteq torn)'
  BY <1>1, <1>2
\* Who is on a scheme that is not mixed afterwards, and was there before.
<1>12. ASSUME NEW c \in N, NEW d \in Coroutines, Runs(d),
              task[d].scheme = new[c].scheme
       PROVE  new[c].scheme \in mixed'
  BY <1>1, <1>3, <1>5, <1>12
<1>13. Alone'
  <2> SUFFICES ASSUME NEW c \in Coroutines, NEW d \in Coroutines, Runs(c)',
                      Runs(d)', task'[c].scheme = task'[d].scheme,
                      task'[c].scheme \notin mixed'
               PROVE  c = d
    BY DEF Alone
  <2>1. CASE c \in N /\ d \in N
    BY <1>6, <2>1
  <2>2. CASE c \in N /\ d \notin N
    BY <1>6, <1>7, <1>12, <2>2
  <2>3. CASE c \notin N /\ d \in N
    BY <1>6, <1>7, <1>12, <2>3
  <2>4. CASE c \notin N /\ d \notin N
    BY <1>1, <1>7, <2>4 DEF FundInv, Alone
  <2> QED
    BY <2>1, <2>2, <2>3, <2>4
<1>14. AllPrepared'
  <2> SUFFICES ASSUME NEW c \in Coroutines, Runs(c)', task'[c].scheme \notin mixed'
               PROVE  Prepared(c)'
    BY DEF AllPrepared
  <2>1. CASE c \in N
    <3>1. task'[c].left \in {B6, D5, C6}
      BY <1>6, <2>1
    <3>2. task'[c].left \notin {B4, B3, D3, C5, C4, C3, C2, B2, D1}
      BY <3>1, Heads
    <3> QED
      BY <3>2 DEF Prepared, Fits
  <2>2. CASE c \notin N
    <3>1. Prepared(c)
      BY <1>1, <1>7, <2>2 DEF FundInv, AllPrepared
    <3> QED
      BY <1>7, <2>2, <3>1 DEF Prepared
  <2> QED
    BY <2>1, <2>2
<1>15. ASSUME NEW s \in Schemes PROVE Consistent(s)'
  <2>1. Consistent(s)
    BY DEF FundInv
  <2>2. CASE \E c \in Coroutines : Runs(c) /\ task[c].scheme = s /\ Half(c)
    <3>1. PICK c \in Coroutines : Runs(c) /\ task[c].scheme = s /\ Half(c)
      BY <2>2
    <3>2. CASE c \in N
      BY <1>1, <1>5, <3>1, <3>2 DEF Consistent
    <3>3. CASE c \notin N
      BY <1>7, <3>1, <3>3 DEF Consistent, Half
    <3> QED
      BY <3>2, <3>3
  <2>3. CASE s \in torn \/ returns[s] = Returns(file[s])
    BY <1>1, <2>3 DEF Consistent, rowVars
  <2> QED
    BY <2>1, <2>2, <2>3 DEF Consistent
<1> QED
  BY <1>4, <1>8, <1>9, <1>10, <1>11, <1>13, <1>14, <1>15 DEF FundInv

\* The job begins with a coroutine for each of a set of schemes.
LEMMA StartAllInv ==
  ASSUME FundInv, NEW kind \in Kinds, NEW S \in SUBSET Schemes,
         NEW phase \in {"sync", "pending", "backfill", "stored", "daily", "sleep"},
         StartAll(kind, S, phase)
  PROVE  FundInv'
<1> DEFINE new == [s \in S |-> Begun(kind, s)]
<1>1. /\ job' = phase /\ Begin(new)
      /\ UNCHANGED <<sourceVars, rowVars, file, failures>>
  BY DEF StartAll
<1>2. DOMAIN new \subseteq Coroutines
  BY DEF Coroutines
<1>3. ASSUME NEW c \in DOMAIN new
      PROVE  /\ new[c] \in Tasks /\ new[c].left \in {B6, D5, C6}
             /\ new[c].points = {} /\ new[c].merged = {}
             /\ Runs(c) => task[c].scheme = new[c].scheme
             /\ c \in Schemes => new[c].scheme = c
             /\ new[c].scheme = c
  <2>1. c \in Schemes /\ new[c] = Begun(kind, c)
    OBVIOUS
  <2> HIDE DEF new
  <2> QED
    BY <2>1, BegunIs DEF FundInv, OwnScheme
<1> HIDE DEF new
<1>4. \A c, d \in DOMAIN new : new[c].scheme = new[d].scheme => c = d
  BY <1>3
<1> QED
  BY <1>1, <1>2, <1>3, <1>4, BeginInv

\* A user opens a chart.
LEMMA OpenInv ==
  ASSUME FundInv, NEW s \in Charted, NEW v \in Viewers, Open(v, s)
  PROVE  FundInv'
<1> DEFINE new == [c \in {v} |-> Begun("chart", s)]
<1>1. /\ job' = job /\ Begin(new)
      /\ UNCHANGED <<sourceVars, rowVars, file, failures>>
  BY DEF Open
<1>2. s \in Schemes /\ v \in Coroutines /\ v \notin Schemes /\ "chart" \in Kinds
  BY FundAssumption DEF Coroutines, Kinds
<1>3. ~Runs(v) /\ TypeOK
  BY <1>2, RunsOrRests DEF Open, FundInv
<1>4. DOMAIN new = {v} /\ new[v] = Begun("chart", s)
  OBVIOUS
<1> HIDE DEF new
<1>5. /\ new[v] \in Tasks /\ new[v].left \in {B6, D5, C6}
      /\ new[v].points = {} /\ new[v].merged = {}
  BY <1>2, <1>4, BegunIs
<1>6. job' \in {"sync", "pending", "backfill", "stored", "daily", "sleep"}
  BY <1>1, <1>3 DEF TypeOK
<1>7. ASSUME NEW c \in DOMAIN new
      PROVE  /\ new[c] \in Tasks /\ new[c].left \in {B6, D5, C6}
             /\ new[c].points = {} /\ new[c].merged = {}
             /\ Runs(c) => task[c].scheme = new[c].scheme
             /\ c \in Schemes => new[c].scheme = c
  BY <1>2, <1>3, <1>4, <1>5
<1>8. /\ DOMAIN new \subseteq Coroutines
      /\ \A c, d \in DOMAIN new : new[c].scheme = new[d].scheme => c = d
  BY <1>2, <1>4
<1> QED
  BY <1>1, <1>6, <1>7, <1>8, BeginInv

\* The process ends, with all tasks.
LEMMA RestartInv ==
  ASSUME FundInv, Restart PROVE FundInv'
<1>1. /\ failures' = failures + 1 /\ mixed' = {} /\ job' = "sync"
      /\ task' = [c \in Coroutines |-> Resting]
      /\ torn' = torn \cup {s \in Schemes : \E c \in On(s) : Halfway(c)}
      /\ UNCHANGED <<sourceVars, rowVars, file>>
  BY DEF Restart
<1>2. TypeOK
  BY DEF FundInv
<1>3. Resting \notin Tasks
  BY Programs DEF Tasks, Resting
<1>4. \A c \in Coroutines : ~Runs(c)'
  BY <1>1, <1>3 DEF Runs
<1>5. TypeOK'
  <2>1. failures' \in Nat
    BY <1>1, <1>2 DEF TypeOK
  <2>2. task' \in [Coroutines -> Tasks \cup {Resting}]
    BY <1>1
  <2>3. torn' \subseteq Schemes
    BY <1>1, <1>2 DEF TypeOK
  <2> QED
    BY <1>1, <1>2, <2>1, <2>2, <2>3 DEF TypeOK, sourceVars, rowVars
<1>6. SourceIsDense' /\ OnlyPublished'
  BY <1>1, <1>4 DEF FundInv, SourceIsDense, OnlyPublished, sourceVars
<1>7. OwnScheme' /\ Alone' /\ AllPrepared' /\ (mixed \subseteq torn)'
  <2>1. Schemes \subseteq Coroutines
    BY DEF Coroutines
  <2> QED
    BY <1>1, <1>4, <2>1 DEF OwnScheme, Alone, AllPrepared
<1>8. ASSUME NEW s \in Schemes PROVE Consistent(s)'
  <2>1. Consistent(s)
    BY DEF FundInv
  <2>2. CASE \E c \in Coroutines : Runs(c) /\ task[c].scheme = s /\ Half(c)
    <3>1. \E c \in On(s) : Halfway(c)
      BY <1>2, <2>2, OnIs, HalfwayIs
    <3> QED
      BY <1>1, <3>1 DEF Consistent
  <2>3. CASE s \in torn \/ returns[s] = Returns(file[s])
    BY <1>1, <2>3 DEF Consistent, rowVars
  <2> QED
    BY <2>1, <2>2, <2>3 DEF Consistent
<1> QED
  BY <1>5, <1>6, <1>7, <1>8 DEF FundInv

-----------------------------------------------------------------------------
(* The theorems.                                                            *)

\* Nothing runs and nothing is stored at first.
LEMMA InitFund == Init => FundInv
<1> SUFFICES ASSUME Init PROVE FundInv
  OBVIOUS
<1>1. \A s \in Schemes : published[s] \subseteq {1}
  BY DEF Init
<1>2. 1 \in Days /\ 1 \in Nat
  BY Numbers DEF Days
<1>3. ASSUME NEW s \in Schemes PROVE Dense(published[s])
  <2>1. CASE published[s] = {}
    BY <2>1 DEF Dense
  <2>2. CASE published[s] = {1}
    <3>1. Latest({1}) = 1
      BY <1>2, LatestIs
    <3> QED
      BY <2>2, <3>1 DEF Dense
  <2> QED
    BY <1>1, <2>1, <2>2
<1>4. SourceIsDense
  BY <1>1, <1>2, <1>3 DEF SourceIsDense, Init
<1>5. Resting \notin Tasks
  BY Programs DEF Tasks, Resting
<1>6. \A c \in Coroutines : ~Runs(c) /\ task[c] = Resting
  BY <1>5 DEF Runs, Init
<1>7. OnlyPublished /\ Alone /\ AllPrepared
  BY <1>6 DEF OnlyPublished, Alone, AllPrepared, Init
<1>8. OwnScheme
  BY <1>6 DEF OwnScheme, Coroutines
<1>9. TypeOK
  <2>1. published \in [Schemes -> SUBSET Days]
    BY <1>1, <1>2 DEF Init
  <2>2. returns \in [Schemes -> ReturnsType]
    <3>1. Returns({}) \in ReturnsType
      BY ReturnsAre
    <3> QED
      BY <3>1 DEF Init
  <2>3. backfilled \in [Schemes -> BOOLEAN]
    BY Zenon DEF Init
  <2>4. /\ active \in [Schemes -> {"absent", "null", "live", "dormant"}]
        /\ file \in [Schemes -> SUBSET Days]
        /\ task \in [Coroutines -> Tasks \cup {Resting}]
    BY DEF Init
  <2> QED
    BY <1>2, <2>1, <2>2, <2>3, <2>4 DEF TypeOK, Init
<1>10. \A s \in Schemes : Consistent(s)
  BY DEF Init, Consistent
<1>11. mixed \subseteq torn
  BY DEF Init
<1> QED
  BY <1>4, <1>7, <1>8, <1>9, <1>10, <1>11 DEF FundInv

\* A step of a coroutine keeps the invariant.
LEMMA StepInv ==
  ASSUME FundInv, NEW c \in Coroutines, Step(c) PROVE FundInv'
BY LatestNavInv, MarkInactiveInv, HistoryInv, RowInv, ReadInv, WriteInv, SeriesInv, UpsertInv
   DEF Step

\* So does every step.
LEMMA NextFund == FundInv /\ [Next]_vars => FundInv'
<1> SUFFICES ASSUME FundInv, [Next]_vars PROVE FundInv'
  OBVIOUS
<1>0. TypeOK
  BY DEF FundInv
<1>1. CASE Publish
  BY <1>1, PublishInv
<1>2. CASE Sync
  <2>1. active' \in [Schemes -> {"absent", "null", "live", "dormant"}]
    BY <1>0, <1>2 DEF Sync, TypeOK
  <2>2. TypeOK'
    BY <1>0, <1>2, <2>1 DEF Sync, TypeOK, sourceVars, historyVars
  <2> QED
    BY <1>2, <2>2, ElsewhereInv DEF Sync
<1>3. CASE Backfill
  <2>1. FirstOf(Unjudged) \in SUBSET Schemes /\ "backfill" \in Kinds
    BY DEF FirstOf, Unjudged, Kinds
  <2> QED
    BY <1>3, <2>1, StartAllInv DEF Backfill
<1>4. CASE Daily
  <2> DEFINE S == {s \in Schemes : backfilled[s] /\ active[s] = "live"}
  <2>1. S \in SUBSET Schemes /\ "daily" \in Kinds
    BY DEF Kinds
  <2>2. StartAll("daily", S, "daily")
    BY <1>4 DEF Daily
  <2> HIDE DEF S
  <2> QED
    BY <2>1, <2>2, StartAllInv
<1>5. CASE Gathered
  <2>1. TypeOK'
    BY <1>0, <1>5 DEF Gathered, TypeOK, sourceVars, rowVars, historyVars
  <2> QED
    BY <1>5, <2>1, ElsewhereInv DEF Gathered, rowVars
<1>6. CASE Wakes
  <2>1. TypeOK'
    BY <1>0, <1>6 DEF Wakes, TypeOK, sourceVars, rowVars, historyVars
  <2> QED
    BY <1>6, <2>1, ElsewhereInv DEF Wakes, rowVars
<1>7. CASE Aborts
  <2>1. failures' \in Nat
    BY <1>0, <1>7 DEF Aborts, TypeOK
  <2>2. TypeOK'
    BY <1>0, <1>7, <2>1 DEF Aborts, TypeOK, sourceVars, rowVars, historyVars
  <2> QED
    BY <1>7, <2>2, ElsewhereInv DEF Aborts, rowVars
<1>8. CASE Restart
  BY <1>8, RestartInv
<1>9. CASE \E c \in Coroutines : Step(c)
  BY <1>9, StepInv
<1>10. CASE \E c \in Coroutines : Fails(c)
  BY <1>10, FailsInv
<1>11. CASE \E s \in Charted, v \in Viewers : Open(v, s)
  BY <1>11, OpenInv
<1>12. CASE UNCHANGED vars
  <2>1. TypeOK'
    BY <1>0, <1>12 DEF vars, TypeOK, sourceVars, rowVars, historyVars
  <2> QED
    BY <1>12, <2>1, ElsewhereInv DEF vars, rowVars
<1> QED
  BY <1>1, <1>2, <1>3, <1>4, <1>5, <1>6, <1>7, <1>8, <1>9, <1>10, <1>11,
     <1>12 DEF Next, Job

\* FundInv holds in every state of every schedule.
LEMMA FundInvariant == Spec => []FundInv
BY InitFund, NextFund, PTL DEF Spec

\* The tables, the files and the tasks are what the code says they are.
THEOREM FundTypeCorrect == Spec => []TypeOK
<1>1. FundInv => TypeOK
  BY DEF FundInv
<1> QED
  BY <1>1, FundInvariant, PTL

\* The returns of a scheme are those of its file whenever no task is on it,
\* unless two tasks met there, or one failed half way, and none has recomputed
\* them since: whoever wrote last, from a capped series or a whole one.
THEOREM StoredReturnsMatch == Spec => []ReturnsMatch
<1>1. FundInv => ReturnsMatch
  <2> SUFFICES ASSUME FundInv, NEW s \in Schemes \ torn, On(s) = {}
               PROVE  returns[s] = Returns(file[s])
    BY DEF ReturnsMatch
  <2>1. \A c \in Coroutines : ~(Runs(c) /\ task[c].scheme = s)
    BY OnIs DEF FundInv
  <2> QED
    BY <2>1 DEF FundInv, Consistent
<1> QED
  BY <1>1, FundInvariant, PTL

\* A write loses no point of a file, unless two tasks met on the scheme: the
\* task still holds all that is in the file.
LEMMA WriteKeeps ==
  ASSUME FundInv, NEW c \in Coroutines, Write(c), NEW s \in Schemes, s \notin mixed
  PROVE  file[s] \subseteq file'[s]
<1>1. AtStep(c, "write")
  BY DEF Write
<1>2. TypeOK /\ Runs(c) /\ task[c].left \in {B3, D3, C2}
  <2>1. TypeOK /\ Runs(c)
    BY <1>1, AtStepKnows
  <2> QED
    BY <1>1, <2>1, StepTells
<1>3. file' = [file EXCEPT ![task[c].scheme] =
                 IF task[c].points = {} THEN @ ELSE task[c].merged]
  BY DEF Write
<1>4. CASE s # task[c].scheme
  BY <1>2, <1>3, <1>4 DEF TypeOK
<1>5. CASE s = task[c].scheme
  <2>1. file'[s] = IF task[c].points = {} THEN file[s] ELSE task[c].merged
    BY <1>2, <1>3, <1>5 DEF TypeOK
  <2>2. Fits(task[c].left, task[c].points, task[c].merged, file[s])
    BY <1>1, <1>5, AtStepKnows
  <2>3. task[c].points # {} => file[s] \subseteq task[c].merged
    BY <1>2, <2>2 DEF Fits
  <2> QED
    BY <2>1, <2>3
<1> QED
  BY <1>4, <1>5

\* No date that is in a file is ever lost, unless two tasks of the scheme
\* overlap: each reads, merges and writes the whole file.
THEOREM StoredPointsKept == Spec => PointsKept
<1>1. FundInv /\ [Next]_vars =>
        [\A s \in Schemes : s \notin mixed => file[s] \subseteq file'[s]]_vars
  <2> SUFFICES ASSUME FundInv, [Next]_vars, NEW s \in Schemes, s \notin mixed
               PROVE  file[s] \subseteq file'[s]
    OBVIOUS
  <2>1. CASE \E c \in Coroutines : Write(c)
    BY <2>1, WriteKeeps
  <2>2. CASE ~\E c \in Coroutines : Write(c)
    <3>1. file' = file
      BY <2>2 DEF Next, vars, Publish, Job, Sync, Backfill, Daily, Gathered,
          Wakes, StartAll, Aborts, Restart, Step, LatestNav, MarkInactive, History, Fetch,
          Row, Mark, Read, Series, Upsert, Fails, Open
    <3> QED
      BY <3>1
  <2> QED
    BY <2>1, <2>2
<1> QED
  BY <1>1, FundInvariant, PTL DEF Spec, PointsKept
=============================================================================
