------------------------------ MODULE OptionFeed ------------------------------
(***************************************************************************)
(* The option feed: how many holders every token has, the calls to the     *)
(* broker that threads of the executors are making, and what the broker    *)
(* has subscribed on the websocket.  The counts change under a lock; the   *)
(* instance to call is looked up after it, and the call waits in a loop    *)
(* until the websocket of that instance is connected.                      *)
(***************************************************************************)
EXTENDS FeedSocket, FiniteSets

CONSTANTS
  Tokens,
  Callers,  \* threads of the executors
  MaxApis,  \* bound: instances of the broker's library in a process
  MaxCount  \* bound: holders of a token

ASSUME FeedAssumption == MaxApis \in Nat \ {0} /\ MaxCount \in Nat \ {0}

VARIABLES
  counts,      \* _subscribed_tokens
  call,        \* what each thread is doing for the feed
  subscribed,  \* tokens the broker sends ticks of, on this websocket
  lists,       \* what threads of websockets have listed in _on_open and not
               \* yet subscribed again, each on an instance, 0: not looked up
  crossed      \* history: tokens with two calls under way at once, since
               \* the websocket was last opened

feedVars == <<counts, call, subscribed, lists, crossed>>

Calls == [op : {"ensure", "release"}, at : {"idle", "queued", "counted", "send"},
          tokens : SUBSET Tokens, on : Nat]
Lists == [tokens : SUBSET Tokens, on : Nat]
Resting == [op |-> "ensure", at |-> "idle", tokens |-> {}, on |-> 0]

FeedTypeOK ==
  /\ counts \in [Tokens -> Nat]
  /\ call \in [Callers -> Calls]
  /\ lists \subseteq Lists
  /\ {subscribed, crossed} \subseteq SUBSET Tokens

FeedInit ==
  /\ counts = [t \in Tokens |-> 0]
  /\ call = [c \in Callers |-> Resting]
  /\ subscribed = {} /\ lists = {} /\ crossed = {}

-----------------------------------------------------------------------------
\* Calls of ensure_subscribed and release, on a thread of an executor

Idle(c) == call[c].at = "idle"
Queued(op, t) ==
  \E c \in Callers : call[c].at = "queued" /\ call[c].op = op /\ t \in call[c].tokens

\* A call on an instance that was replaced waits for ever, and sends nothing.
Sending(op, t) ==
  \E c \in Callers :
    /\ call[c].op = op /\ t \in call[c].tokens
    /\ call[c].at = "counted" \/ (call[c].at = "send" /\ call[c].on >= feedApi)

\* So does a thread of a websocket, in _on_open.
Listed == UNION {l.tokens : l \in {m \in lists : m.on = 0 \/ m.on >= feedApi}}

\* Some thread is free; which one it is makes no difference.
Ask(op, tokens) ==
  /\ \E c \in Callers : Idle(c)
  /\ call' = [call EXCEPT ![CHOOSE c \in Callers : Idle(c)] =
                [op |-> op, at |-> "queued", tokens |-> tokens, on |-> 0]]

\* Tokens whose first holder comes or whose last one goes.
FirstOrLast(op, tokens) ==
  {t \in tokens : IF op = "ensure" THEN counts[t] = 0 ELSE counts[t] <= 1}

\* A slip: a token that is released loses all its holders.
DropAll(op, tokens) ==
  [t \in Tokens |-> IF t \notin tokens THEN counts[t]
                    ELSE IF op = "ensure" THEN counts[t] + 1 ELSE 0]

\* The new counts; a token that nobody holds may be released all the same.
Counted(op, tokens) ==
  [t \in Tokens |-> IF t \notin tokens THEN counts[t]
                    ELSE IF op = "ensure" THEN counts[t] + 1
                    ELSE IF counts[t] = 0 THEN 0 ELSE counts[t] - 1]

\* The part of a call that holds the lock; nothing may be left to send.
Count(c) ==
  /\ call[c].at = "queued"
  /\ LET op == call[c].op
         tokens == call[c].tokens
         send == FirstOrLast(op, tokens)
     IN /\ counts' = Counted(op, tokens)
        /\ call' = [call EXCEPT ![c] =
             IF send = {} THEN Resting
             ELSE [@ EXCEPT !.at = "counted", !.tokens = send]]
        /\ crossed' = crossed \cup
             {t \in send : Sending("ensure", t) \/ Sending("release", t) \/ t \in Listed}
  /\ UNCHANGED <<subscribed, lists, socketVars>>

\* self._shoonya._api is read after it, and called if there is one.
Address(c) ==
  /\ call[c].at = "counted"
  /\ call' = [call EXCEPT ![c] = IF api = 0 THEN Resting
                                 ELSE [@ EXCEPT !.at = "send", !.on = api]]
  /\ UNCHANGED <<counts, subscribed, lists, crossed, socketVars>>

\* subscribe() and unsubscribe() wait until their instance is connected.
Connected(on) == on = feedApi /\ socket = "open"

Send(c) ==
  /\ call[c].at = "send" /\ Connected(call[c].on)
  /\ subscribed' = IF call[c].op = "ensure" THEN subscribed \cup call[c].tokens
                   ELSE subscribed \ call[c].tokens
  /\ call' = [call EXCEPT ![c] = Resting]
  /\ UNCHANGED <<counts, lists, crossed, socketVars>>

-----------------------------------------------------------------------------
\* The websocket, and _on_open

Renewed ==
  /\ api < MaxApis /\ Login /\ UNCHANGED feedVars

\* The broker forgets what was subscribed on a websocket that is closed.  Who
\* waits for an instance that is replaced is not heard of again; the others
\* will be connected, on the new websocket.
Started ==
  /\ Start /\ subscribed' = {} /\ lists' = {l \in lists : l.on \in {0, api}}
  /\ UNCHANGED <<counts, call, crossed>>

\* A slip: nothing is subscribed again after a reconnection.
ListNone == {}

\* The keys of _subscribed_tokens.
Held == {t \in Tokens : counts[t] > 0}

Opened ==
  /\ Opens
  /\ lists' = lists \cup (IF Held = {} THEN {} ELSE {[tokens |-> Held, on |-> 0]})
  /\ crossed' = {t \in Tokens :
                   IF t \in Held THEN Sending("release", t)
                   ELSE Sending("ensure", t) \/ t \in Listed}
  /\ UNCHANGED <<counts, call, subscribed>>

\* The instance of now, which may not be the one that has opened.
Aimed(l) ==
  /\ l.on = 0 /\ lists' = (lists \ {l}) \cup {[l EXCEPT !.on = api]}
  /\ UNCHANGED <<counts, call, subscribed, crossed, socketVars>>

Resubscribed(l) ==
  /\ Connected(l.on)
  /\ subscribed' = subscribed \cup l.tokens /\ lists' = lists \ {l}
  /\ UNCHANGED <<counts, call, crossed, socketVars>>

Dropped ==
  /\ Drops /\ subscribed' = {}
  /\ UNCHANGED <<counts, call, lists, crossed>>

FeedStep(c) == Count(c) \/ Address(c) \/ Send(c)
SocketStep ==
  \/ Renewed \/ Started \/ Opened \/ Dropped
  \/ \E l \in lists : Aimed(l) \/ Resubscribed(l)
=============================================================================
