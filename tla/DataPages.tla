------------------------------ MODULE DataPages ------------------------------
(***************************************************************************)
(* The pages that show data (home, dashboard, hiring requests, change log,  *)
(* notifications, market rates) and the badge of unread notifications in    *)
(* their layout: what they fetch, when they fetch again, what they display. *)
(* One page is mounted at a time; every section has a layout of its own, so *)
(* that navigation mounts page, layout and LiveUpdatesProvider anew, and    *)
(* answers to the page that was left change nothing any more.               *)
(*                                                                          *)
(* Page and layout share nothing but the steps that make them fetch: a      *)
(* behaviour follows the data of one of them, its part.  Data are the       *)
(* version of their topic, counted since the page was opened.  The filter   *)
(* stands for everything a fetch depends on: filters, page number and, on   *)
(* the home page, the session.                                              *)
(***************************************************************************)
EXTENDS Naturals, SequencesExt

CONSTANTS
  DataPage,      \* bound: the data pages that are visited
  Filters,       \* bound: what the user filters by; contains NoFilter
  NoFilter,
  MaxVersion,    \* bound: changes of a topic while a page is open
  MaxFetches,    \* bound: fetches in flight
  MaxOwn,     \* bound: own writes in flight
  Faults         \* may requests fail and the socket drop?

Routes == {"home", "dashboard", "requisitions", "changes", "notifications", "market"}

ASSUME DataPagesAssumption == DataPage \subseteq Routes /\ MaxVersion \in Nat

VARIABLES
  part,            \* whose data are followed: the page's ("view"), the layout's ("badge")
  route, filter,    \* the page that is mounted, what its fetch depends on
  shown,           \* the data: none, or {[filter, ver]}
  loading, crashed,
  timer,           \* the debounce of the hiring requests
  live,            \* on the hiring requests: is changeSequence of LiveUpdatesProvider above 0?
  socket, inbox,   \* its WebSocket and the messages on it
  server,          \* the version of the topic
  fetches,         \* GET requests in flight, in the order they were sent
  own,             \* mutations in flight; here: the page that sent them is mounted
  excused          \* history: why the data need not be current

dataVars == <<part, route, filter, shown, loading, crashed, timer, live, socket, inbox, server,
          fetches, own, excused>>

Topics   == {"change", "notification", "rates"}
Sessions == {"loading", "out", "admin", "manager"}
SignedIn == {"admin", "manager"}
Outcomes == {"ok", "error", "failed"}  \* data; an error object; the fetch rejects

-----------------------------------------------------------------------------
(* The pages: the topic each shows, the sequences on which it fetches again, *)
(* whether it has filters, and after which outcomes of its own writes it     *)
(* fetches.  (A message "refresh" is known to all of them, and nobody sends  *)
(* it.)                                                                      *)
HomePage == [topic |-> "change", watched |-> {"change", "notification"},
             filtered |-> FALSE, again |-> {}]
DashboardPage == [topic |-> "change", watched |-> {"change", "notification"},
                  filtered |-> FALSE, again |-> {}]
RequisitionsPage == [topic |-> "change", watched |-> {"change"},
                     filtered |-> TRUE, again |-> {"ok"}]
ChangesPage == [topic |-> "change", watched |-> {"change"}, filtered |-> TRUE, again |-> {}]
NotificationsPage == [topic |-> "notification", watched |-> {"notification"},
                      filtered |-> TRUE, again |-> {"ok", "error"}]
MarketPage == [topic |-> "rates", watched |-> {}, filtered |-> TRUE, again |-> Outcomes]

(* The badge in sidebar and header: unreadCount. *)
Badge == [topic |-> "notification", watched |-> {"notification"}, filtered |-> FALSE,
          again |-> {"ok", "error"}]

Mounted(p) == CASE p = "home" -> HomePage [] p = "dashboard" -> DashboardPage
                [] p = "requisitions" -> RequisitionsPage [] p = "changes" -> ChangesPage
                [] p = "notifications" -> NotificationsPage [] p = "market" -> MarketPage

InLayout(p) == p # "home"
Followed(p) == IF part = "view" THEN Mounted(p) ELSE Badge
Following(p) == part = "view" \/ InLayout(p)

(* What is on the screen.  "nothing" is what a page without data shows: an   *)
(* empty table, "You're all caught up!", a blank page, no badge.             *)
ErrorObject == [filter |-> NoFilter, ver |-> MaxVersion + 1]
Content == IF shown = {} THEN "nothing" ELSE "data"
Behind(placeholder) == IF loading THEN placeholder ELSE Content

HomeDisplay == CASE filter = "out" -> "landing" [] shown = {ErrorObject} -> "crash"
                 [] OTHER -> Behind("skeleton")
DashboardDisplay == IF loading THEN "skeleton"
                    ELSE IF shown = {ErrorObject} THEN "crash" ELSE Content
RequisitionsDisplay  == Behind("skeleton")
ChangesDisplay       == Behind("skeleton")
NotificationsDisplay == Behind("skeleton")
MarketDisplay        == Behind("skeleton")
BadgeDisplay         == Content

Display == CASE part = "badge" -> BadgeDisplay
             [] route = "home" -> HomeDisplay [] route = "dashboard" -> DashboardDisplay
             [] route = "requisitions" -> RequisitionsDisplay [] route = "changes" -> ChangesDisplay
             [] route = "notifications" -> NotificationsDisplay [] route = "market" -> MarketDisplay

-----------------------------------------------------------------------------
Fetch(f) == [filter |-> f, served |-> FALSE, ver |-> 0]

(* The step sends a fetch with filter f.  Alone and with the current filter  *)
(* it has to bring the newest data, whatever was before.                     *)
SendsFetch(f) ==
  /\ Len(fetches) < MaxFetches
  /\ fetches' = Append(fetches, Fetch(f))
  /\ excused' = IF f # filter' THEN excused \cup {"stale"}
                ELSE IF fetches = <<>> THEN {} ELSE excused

Silent == UNCHANGED <<fetches, excused>>

(* A page mounts with its layout: both fetch at once, but the hiring         *)
(* requests, whose fetch is debounced, and the home page while it has no     *)
(* session: SessionProvider, above all pages, knows it unless the window was *)
(* just loaded.  The writes of the page that is left go on without it; kept  *)
(* are those on the topic of the new one.                                    *)
Mount(p, writes) ==
  /\ route' = p
  /\ filter' \in IF p = "home" THEN Sessions ELSE {NoFilter}
  /\ shown' = {} /\ crashed' = FALSE
  /\ loading' = (part = "view" /\ (p = "home" => filter' \in SignedIn))
  /\ timer' = (p = "requisitions" /\ part = "view")
  /\ live' = FALSE /\ socket' = "connecting" /\ inbox' = {}
  /\ server' = 0
  /\ fetches' = IF timer' \/ (p = "home" /\ ~loading') THEN <<>> ELSE <<Fetch(filter')>>
  /\ own' = LET kept == SelectSeq(writes, LAMBDA w : Following(p) /\ w.topic = Followed(p).topic)
            IN  [i \in DOMAIN kept |-> [kept[i] EXCEPT !.here = FALSE, !.filter = NoFilter]]
  /\ excused' = {}
  /\ UNCHANGED part

DataInit ==
  /\ part \in {"view", "badge"}
  /\ route = "home" /\ filter = "loading"
  /\ shown = {} /\ loading = FALSE /\ crashed = FALSE
  /\ timer = FALSE /\ live = FALSE /\ socket = "connecting" /\ inbox = {}
  /\ server = 0
  /\ fetches = <<>> /\ own = <<>> /\ excused = {}

Unserved == SelectSeq(own, LAMBDA w : ~w.served)

Open(p) == p \in DataPage \ {route} /\ Mount(p, Unserved)

(* A click on an unread notification marks it as read and goes to the page   *)
(* it is about, without waiting.                                             *)
Click(p) ==
  /\ route = "notifications" /\ (part = "view" => Display = "data")
  /\ p \in DataPage \ {route} /\ Len(Unserved) < MaxOwn
  /\ Mount(p, Append(Unserved, [topic |-> "notification", filter |-> filter,
                                served |-> FALSE, here |-> FALSE]))

(* A manager who opens the home page is sent to the dashboard. *)
Redirect ==
  /\ route = "home" /\ filter = "manager" /\ Display = "data"
  /\ "dashboard" \in DataPage
  /\ Mount("dashboard", Unserved)

-----------------------------------------------------------------------------
(* The session of the home page is known: without one it shows the sign-in,  *)
(* with one it connects again, under a key that gets messages.               *)
SessionKnown(s) ==
  /\ route = "home" /\ filter = "loading" /\ s \in Sessions \ {"loading"}
  /\ filter' = s
  /\ crashed' = (s # "out" /\ shown = {ErrorObject})
  /\ IF s = "out" \/ part = "badge" \/ crashed' THEN Silent ELSE SendsFetch(s)
  /\ socket' = IF s = "out" THEN socket ELSE "connecting"
  /\ UNCHANGED <<part, route, shown, loading, timer, live, inbox, server, own>>

(* The controls of the filter bar, and the page number. *)
Offered == Filters \ {filter}

(* Mutation of SetFilter: the hiring requests start no timer. *)
SetFilterNoTimer(f) ==
  /\ ~crashed /\ part = "view" /\ Mounted(route).filtered /\ f \in Offered
  /\ filter' = f
  /\ IF route = "requisitions" THEN UNCHANGED loading /\ Silent
     ELSE loading' = TRUE /\ SendsFetch(f)
  /\ UNCHANGED <<part, route, shown, crashed, timer, live, socket, inbox, server, own>>

(* A filter is set: the page fetches with the loading display.  The hiring   *)
(* requests set their timer and, once they have been refreshed by a message, *)
(* also fetch at once, without the display.                                  *)
SetFilter(f) ==
  /\ ~crashed /\ part = "view" /\ Mounted(route).filtered /\ f \in Offered
  /\ filter' = f
  /\ IF route = "requisitions"
     THEN /\ timer' = TRUE /\ UNCHANGED loading
          /\ IF live THEN SendsFetch(f) ELSE Silent
     ELSE /\ UNCHANGED timer /\ loading' = TRUE
          /\ SendsFetch(f)
  /\ UNCHANGED <<part, route, shown, crashed, live, socket, inbox, server, own>>

TimerFires ==
  /\ timer /\ ~crashed
  /\ timer' = FALSE /\ loading' = TRUE
  /\ filter' = filter
  /\ SendsFetch(filter)
  /\ UNCHANGED <<part, route, shown, crashed, live, socket, inbox, server, own>>

(* A message arrives: the provider counts its sequence up, and the effects   *)
(* that watch it fetch, silently, with the current filter.                   *)
Deliver(m) ==
  /\ m \in inbox /\ ~crashed
  /\ inbox' = inbox \ {m}
  /\ live' = (live \/ (route = "requisitions" /\ m = "change"))
  /\ filter' = filter
  /\ SendsFetch(filter)
  /\ UNCHANGED <<part, route, shown, loading, crashed, timer, socket, server, own>>

-----------------------------------------------------------------------------
(* The server and the network *)

(* Message m is sent to the page: it is lost while the socket is not open,   *)
(* and on the home page without a session.  One that is not watched leaves   *)
(* no trace.                                                                 *)
Told(m) ==
  IF socket = "open" /\ filter \notin {"loading", "out"}
  THEN {m} \cap Followed(route).watched ELSE {}

(* Topics T change, and the page is sent message m, if it is one. *)
Changes(T, m) ==
  LET told == Told(m)
  IN  /\ Following(route)
      /\ IF Followed(route).topic \in T
         THEN /\ server < MaxVersion /\ server' = server + 1
              /\ excused' = IF told = {} THEN excused \cup {"stale"} ELSE excused
         ELSE UNCHANGED <<server, excused>>
      /\ inbox' = inbox \cup told

(* Others change hiring requests or are notified; import a file, of which    *)
(* the AI pipeline tells admins the change and UploadCSV nobody anything;    *)
(* and read their notifications in another window or collect market rates,   *)
(* which is not broadcast.                                                   *)
Others ==
  /\ \/ \E m \in {"change", "notification"} : Changes({m}, m)
     \/ Changes({"change", "notification"}, "change")
     \/ \E t \in {"change", "notification", "rates"} : Changes({t}, "none")
  /\ UNCHANGED <<part, route, filter, shown, loading, crashed, timer, live, socket, fetches, own>>

(* What is sent while the socket is down is lost, and nothing is fetched on  *)
(* reconnecting.                                                             *)
Socket ==
  /\ \/ socket = "connecting" /\ socket' = "open"
     \/ Faults /\ socket = "open" /\ inbox = {} /\ socket' = "connecting"
  /\ UNCHANGED <<part, route, filter, shown, loading, crashed, timer, live, inbox, server,
                 fetches, own, excused>>

Serve(i) ==
  /\ i \in DOMAIN fetches /\ ~crashed /\ ~fetches[i].served
  /\ fetches' = [fetches EXCEPT ![i] = [filter |-> @.filter, served |-> TRUE, ver |-> server]]
  /\ UNCHANGED <<part, route, filter, shown, loading, crashed, timer, live, socket, inbox,
                 server, own, excused>>

(* The newest answer overtakes an older one, which will have the last word,  *)
(* or is not the data asked for: then the data need not be current.  When    *)
(* they are, they have to stay so.                                           *)
Excuse(i, outcome) ==
  LET data == [filter |-> filter, ver |-> server]
  IN  IF i = Len(fetches) /\ (i > 1 \/ outcome # "ok") THEN excused \cup {"stale"}
      ELSE IF shown' = {data} /\ Len(fetches) = 1 THEN {} ELSE excused

(* An error object has no list, which is read as an empty one; the home page *)
(* and, of its two answers, the dashboard keep the object and crash on it.   *)
Misread ==
  IF part = "badge" \/ route \notin {"home", "dashboard"} THEN {{}}
  ELSE {{ErrorObject}} \cup (IF route = "dashboard" THEN {{}} ELSE {})

(* Mutation of Answer: the data are shown, the loading display stays. *)
AnswerKeepsLoading(i, outcome) ==
  /\ i \in DOMAIN fetches /\ outcome = "ok" /\ fetches[i].served
  /\ shown' = {[filter |-> fetches[i].filter, ver |-> fetches[i].ver]}
  /\ fetches' = RemoveAt(fetches, i)
  /\ excused' = Excuse(i, outcome)
  /\ UNCHANGED <<part, route, filter, loading, crashed, timer, live, socket, inbox, server, own>>

(* An answer: the data asked for, an error object, or none at all, after     *)
(* which the page shows what it had.  A page that crashed gets no more.      *)
Answer(i, outcome) ==
  /\ i \in DOMAIN fetches /\ ~crashed
  /\ IF outcome = "ok" THEN fetches[i].served ELSE Faults
  /\ CASE outcome = "ok"    -> shown' = {[filter |-> fetches[i].filter, ver |-> fetches[i].ver]}
       [] outcome = "error" -> shown' \in Misread
       [] OTHER             -> UNCHANGED shown
  /\ loading' = FALSE
  /\ crashed' = (shown' = {ErrorObject} /\ filter \notin {"loading", "out"})
  /\ fetches' = RemoveAt(fetches, i)
  /\ excused' = Excuse(i, outcome)
  /\ UNCHANGED <<part, route, filter, timer, live, socket, inbox, server, own>>

-----------------------------------------------------------------------------
(* The writes of the page: mutations of hiring requests, which the gateway   *)
(* broadcasts; marking notifications as read, alone or all; the collection   *)
(* of market rates, whose button is disabled while one runs.                 *)
SubmitWrite ==
  /\ ~crashed /\ Mounted(route).again # {}
  /\ route = "market" => \A i \in DOMAIN own : ~own[i].here
  /\ route = "notifications" /\ part = "view" => Content = "data"
  /\ Following(route) /\ Followed(route).topic = Mounted(route).topic
  /\ Len(own) < MaxOwn
  /\ own' = Append(own, [topic |-> Mounted(route).topic, filter |-> filter,
                         served |-> FALSE, here |-> TRUE])
  /\ UNCHANGED <<part, route, filter, shown, loading, crashed, timer, live, socket, inbox,
                 server, fetches, excused>>

(* The server does it.  Of one whose page is gone nobody awaits the answer.  *)
ServeWrite(i) ==
  /\ i \in DOMAIN own /\ ~own[i].served
  /\ LET w == own[i]
         told == IF w.topic = "change" THEN Told("change") ELSE {}
     IN  /\ server < MaxVersion /\ server' = server + 1
         /\ inbox' = inbox \cup told
         /\ own' = IF w.here THEN [own EXCEPT ![i].served = TRUE] ELSE RemoveAt(own, i)
         /\ excused' = IF told # {} THEN excused
                       ELSE excused \cup {IF part = "badge" /\ ~w.here THEN "click" ELSE "stale"}
  /\ UNCHANGED <<part, route, filter, shown, loading, crashed, timer, live, socket, fetches>>

(* Its answer: the handler, a closure of the render that was clicked, goes   *)
(* on and fetches with the filter of that time, after the outcomes the page  *)
(* takes for one.  A request that failed may still reach the server.         *)
AnswerWrite(i, outcome) ==
  /\ i \in DOMAIN own /\ own[i].here /\ ~crashed
  /\ IF outcome = "ok" THEN own[i].served ELSE Faults
  /\ own' = IF outcome = "failed" /\ ~own[i].served
            THEN [own EXCEPT ![i].here = FALSE] ELSE RemoveAt(own, i)
  /\ filter' = filter
  /\ IF outcome \in Mounted(route).again
     THEN loading' = (part = "view") /\ SendsFetch(own[i].filter)
     ELSE UNCHANGED loading /\ Silent
  /\ UNCHANGED <<part, route, shown, crashed, timer, live, socket, inbox, server>>

-----------------------------------------------------------------------------
DataNext ==
  \/ \E p \in DataPage : Open(p) \/ Click(p)
  \/ Redirect
  \/ \E s \in Sessions : SessionKnown(s)
  \/ \E f \in Filters : SetFilter(f)
  \/ TimerFires
  \/ \E m \in inbox : Deliver(m)
  \/ Others \/ Socket
  \/ \E i \in DOMAIN fetches : Serve(i) \/ \E o \in Outcomes : Answer(i, o)
  \/ SubmitWrite
  \/ \E i \in DOMAIN own : ServeWrite(i) \/ \E o \in Outcomes : AnswerWrite(i, o)

(* Requests are answered and timers fire; what users do is up to them. *)
DataFairness ==
  /\ WF_dataVars(\E i \in DOMAIN fetches : Serve(i))
  /\ WF_dataVars(\E i \in DOMAIN fetches : \E o \in Outcomes : Answer(i, o))
  /\ WF_dataVars(TimerFires)

DataSpec == DataInit /\ [][DataNext]_dataVars /\ DataFairness

-----------------------------------------------------------------------------
(* When nothing is under way a page shows the newest data for its filter,    *)
(* unless the last fetch failed or was overtaken, was sent by a handler with *)
(* the filter of an older render, or a change has not been announced to the  *)
(* page (fetchData, fetchChanges, fetchNotifications, fetchDashboard,        *)
(* fetchManagers and the effects that call them).  The badge shows the       *)
(* number of unread notifications (fetchUnread), unless one was read in      *)
(* another window or came while the socket was down, or after a click that   *)
(* marked one as read and went on to another page.                           *)
Settled == fetches = <<>> /\ own = <<>> /\ inbox = {} /\ ~timer /\ ~crashed
Current == shown = {[filter |-> filter, ver |-> server]}

ScreenIsCurrent ==
  Settled /\ excused = {} =>
    /\ part = "view" /\ filter \notin {"loading", "out"} => Display = "data" /\ Current
    /\ part = "badge" /\ InLayout(route) => Current

(* Every loading display ends, if its page is not left, even if requests     *)
(* fail (the catch of every fetch).                                          *)
LoadingEnds == <>[][route' = route]_dataVars => []<>(Display # "skeleton")
=============================================================================
