------------------------------ MODULE FeedSocket ------------------------------
(***************************************************************************)
(* What the session with the broker promises to the option feed: every     *)
(* login builds a new instance of the broker's library, on which calls are *)
(* made from then on; the websocket is opened on the instance of its time, *)
(* and there is never more than one.                                       *)
(***************************************************************************)
EXTENDS Naturals

VARIABLES
  api,      \* ShoonyaConnection._api: the instance calls are made on; 0: none
  feedApi,  \* ShoonyaOptionFeed._api_instance: the one with the websocket
  socket    \* that websocket: "off", "opening" or "open"

socketVars == <<api, feedApi, socket>>

SocketTypeOK ==
  /\ api \in Nat /\ feedApi \in Nat
  /\ socket \in {"off", "opening", "open"}

SocketInit == api = 0 /\ feedApi = 0 /\ socket = "off"

\* connect() builds a new instance, whether or not its token proves valid.
Login == api' = api + 1 /\ UNCHANGED <<feedApi, socket>>

\* start(): whatever was open is closed first; the library may then raise.
Start ==
  /\ api # 0 /\ feedApi' = api /\ socket' \in {"opening", "off"}
  /\ UNCHANGED api

Opens == socket = "opening" /\ socket' = "open" /\ UNCHANGED <<api, feedApi>>

Drops == socket # "off" /\ socket' = "off" /\ UNCHANGED <<api, feedApi>>

SocketNext == Login \/ Start \/ Opens \/ Drops

SocketSpec == SocketInit /\ [][SocketNext]_socketVars
=============================================================================
