----------------------------- MODULE LiveUpdates -----------------------------
(***************************************************************************)
(* The WebSocket hook of a page (frontend/lib/use-websocket.ts) and the     *)
(* verdict of the gateway on its handshake (HandleWebSocket): the page      *)
(* connects when it is mounted and again, after a growing delay, whenever   *)
(* its socket closes.                                                       *)
(***************************************************************************)
EXTENDS Naturals

CONSTANTS
  MaxRetries,      \* bound: the delay stops growing at 2^5 seconds, so 5 is enough
  NetworkFaults    \* may a handshake or a connection fail?

VARIABLES
  mounted,     \* is the page shown?
  socket,      \* its WebSocket
  timer,       \* is a reconnect due?
  retries,     \* retriesRef
  connected    \* the state the page is told

vars == <<mounted, socket, timer, retries, connected>>

Init == /\ mounted = "not yet" /\ socket = "none"
        /\ timer = FALSE /\ retries = 0 /\ connected = FALSE

(* The parameters of the URL the hook connects to, and the one without which *)
(* HandleWebSocket answers 401.                                              *)
Query == {"managerId"}
Refused == "token" \notin Query

(* useEffect calls connect, whatever the managerId is. *)
Mount ==
  /\ mounted = "not yet"
  /\ mounted' = "yes"
  /\ socket' = "connecting"
  /\ UNCHANGED <<timer, retries, connected>>

(* onopen *)
Open ==
  /\ socket = "connecting" /\ ~Refused
  /\ socket' = "open"
  /\ connected' = TRUE
  /\ retries' = 0
  /\ UNCHANGED <<mounted, timer>>

(* onclose, after onerror if the handshake failed: a reconnect is scheduled. *)
Close ==
  /\ \/ socket = "connecting" /\ (Refused \/ NetworkFaults)
     \/ socket = "open" /\ NetworkFaults
  /\ socket' = "none"
  /\ connected' = FALSE
  /\ timer' = TRUE
  /\ retries' = IF retries < MaxRetries THEN retries + 1 ELSE retries
  /\ UNCHANGED mounted

Reconnect ==
  /\ timer
  /\ timer' = FALSE
  /\ socket' = "connecting"
  /\ UNCHANGED <<mounted, retries, connected>>

(* The cleanup: no reconnect follows. *)
Unmount ==
  /\ mounted = "yes"
  /\ mounted' = "no more"
  /\ timer' = FALSE
  /\ socket' = "none"
  /\ UNCHANGED <<retries, connected>>

Next == Mount \/ Open \/ Close \/ Reconnect \/ Unmount

(* Handshakes are answered and timers fire. *)
Spec == Init /\ [][Next]_vars /\ WF_vars(Open \/ Close) /\ WF_vars(Reconnect)

(* The README: the system "pushes updates in real time - WebSocket refreshes *)
(* dashboards instantly".  With a network that works, a page that stays is   *)
(* connected in the end.                                                     *)
Connects == mounted = "yes" ~> connected \/ mounted = "no more"
==============================================================================
