--------------------------- MODULE BrowserSessions ---------------------------
(***************************************************************************)
(* The tabs of one browser and the sessions of one user of the server.     *)
(*                                                                         *)
(* Tabs share the session cookie and localStorage, and hear of each        *)
(* other's sign-ins and sign-outs through storage events.  What a tab      *)
(* keeps in memory (its lock, its token, the id that scopes its keys) goes *)
(* with the page.  A call to the server is sent, answered and received in  *)
(* three steps; its cookie is the one it was sent with.                    *)
(*                                                                         *)
(* sessionGeneration is only ever compared with the value it had when a    *)
(* call was sent: here the step that increments it marks the calls that    *)
(* are out as stale.  Time is counted in ticks of about a minute; ages     *)
(* stop at Timeout.  Timers fire each second, calls and storage events     *)
(* take seconds, so no tick passes while one is due or under way.  The     *)
(* deployment is same-origin: the bearer token serves to sign out only.    *)
(***************************************************************************)
EXTENDS Naturals, Sequences

CONSTANTS
    Tab,           \* tabs of the browser
    Session,       \* ids of the sessions that sign-ins create
    None,          \* no session
    Timeout,       \* session_timeout in ticks
    MaxInputs,     \* bound: what users do: sign in, use the page, reload
    MaxRequests,   \* bound: calls other than session control
    MaxTroubles    \* bound: calls lost, sessions ended elsewhere

ASSUME NoneAssumption == None \notin Session
ASSUME TimeoutAssumption == Timeout \in Nat \ {0, 1}
ASSUME BoundsAssumption ==
    MaxInputs \in Nat /\ MaxRequests \in Nat /\ MaxTroubles \in Nat

Key == Session \cup {None} \* coordination ids, None for the unscoped keys
Unknown == Timeout + 1     \* no expiry is stored
Lost == "lost"             \* the answer of a call that failed
ASSUME LostAssumption == Lost \notin Key
Kinds == {"boot", "join", "login", "refresh", "logout", "undo", "data"}

VARIABLES
    session,  \* HumanSession rows: state and ticks before they expire
    cookie,   \* the session named by the cookie
    expiry,   \* [Key -> ticks before the expiry stored in localStorage]
    activity, \* [Key -> age of the activity stamp in localStorage]
    tab,      \* [Tab -> what the page keeps in memory]
    calls,    \* [Tab -> [Kinds -> call]], the calls that are out
    notices,  \* [Tab -> storage events not yet handled]
    budget    \* what is left of the bounds

vars == <<session, cookie, expiry, activity, tab, calls, notices, budget>>

NoCall == [phase |-> "none", with |-> None, answer |-> None,
           stale |-> FALSE, again |-> FALSE]
Sent(s) == [NoCall EXCEPT !.phase = "sent", !.with = s]

(* A page as it loads: module state of client.js and state of useAuth. *)
FreshPage == [booting |-> TRUE, user |-> None, locked |-> FALSE,
              coord |-> None, hook |-> None, token |-> None,
              idle |-> 0, seen |-> FALSE, refused |-> FALSE]
Loading == [k \in Kinds |-> IF k = "boot" THEN Sent(cookie) ELSE NoCall]

(* The pages were loaded while nobody was signed in. *)
Init ==
    /\ session = [s \in Session |-> [state |-> "unused", left |-> 0]]
    /\ cookie = None
    /\ expiry = [k \in Key |-> Unknown]
    /\ activity = [k \in Key |-> Timeout] \* no stamp
    /\ tab = [t \in Tab |-> [FreshPage EXCEPT !.booting = FALSE]]
    /\ calls = [t \in Tab |-> [k \in Kinds |-> NoCall]]
    /\ notices = [t \in Tab |-> <<>>]
    /\ budget = [inputs |-> MaxInputs, requests |-> MaxRequests,
                 troubles |-> MaxTroubles]

-----------------------------------------------------------------------------
(* Helpers *)

Live(s) == s # None /\ session[s].state = "live" /\ session[s].left > 0
Youngest(a, b) == IF a < b THEN a ELSE b
Spend(what) ==
    /\ budget[what] > 0
    /\ budget' = [budget EXCEPT ![what] = @ - 1]

(* Mutant: the timer reads only the tab's own input. *)
BadAge(t) == tab[t].idle

(* readActivity: the later of the tab's own input and the shared stamp. *)
Age(t) == Youngest(tab[t].idle, activity[tab[t].hook])
SignedIn(t) == tab[t].user # None
TimedOut(t) == SignedIn(t) /\ Age(t) >= Timeout

(* startSessionTransition and lockSession: the generation goes up. *)
Stale(cs) == [k \in Kinds |-> [cs[k] EXCEPT !.stale = (@ \/ cs[k].phase # "none")]]
Locked(page) == [page EXCEPT !.locked = TRUE, !.token = None]
ClearExpiry(t) == expiry' = [expiry EXCEPT ![tab[t].coord] = Unknown]

(* useSessionTimeout starts over when a user appears or its key changes; it *)
(* begins with a stamp.                                                     *)
Continues(page, k) == page.user # None /\ page.hook = k
Watched(page, s, k) ==
    IF Continues(page, k) THEN [page EXCEPT !.user = s]
    ELSE [page EXCEPT !.user = s, !.hook = k, !.idle = 0, !.seen = FALSE]
Stamp(k) == activity' = [activity EXCEPT ![k] = 0]

(* Mutant: adds what is left to the stored deadline. *)
BadRemember(s) == expiry' = [expiry EXCEPT ![s] = @ + session[s].left]

(* The session a token names becomes the tab's own; the tab is unlocked. *)
WithToken(page, s) == [page EXCEPT !.token = s, !.coord = s, !.locked = FALSE]
Remember(s) ==
    expiry' = [expiry EXCEPT ![s] = IF session[s].left > 0 THEN session[s].left ELSE @]

(* A storage event goes to every other tab. *)
Announce(t, notice) ==
    notices' = [u \in Tab |-> IF u = t THEN notices[u] ELSE Append(notices[u], notice)]

(* Mutant: waits for the deadline itself instead of the minute before. *)
BadRefreshDue(t) ==
    /\ calls[t]["refresh"].phase = "none" /\ ~tab[t].refused
    /\ expiry[tab[t].coord] = 0

(* handleSessionActivity: is a refresh due, and is none under way?  After  *)
(* an error the next is 5 seconds later: a lost call is repeated at once   *)
(* here, and a refused one once per tick.                                  *)
RefreshDue(t) ==
    /\ calls[t]["refresh"].phase = "none" /\ ~tab[t].refused
    /\ expiry[tab[t].coord] <= 1 \/ expiry[tab[t].coord] = Unknown

(* refreshSession, which a locked tab does not send. *)
Refreshing(t, cs) ==
    IF RefreshDue(t) /\ ~tab[t].locked
    THEN [cs EXCEPT !["refresh"] = Sent(cookie)]
    ELSE cs

-----------------------------------------------------------------------------
(* What a user does in a tab *)

(* login: the sign-in form, which is shown when no user is. *)
SignIn(t) ==
    /\ ~tab[t].booting /\ ~SignedIn(t)
    /\ calls[t]["login"].phase = "none" /\ calls[t]["undo"].phase = "none"
    /\ Spend("inputs")
    /\ tab' = [tab EXCEPT ![t].token = None]
    /\ ClearExpiry(t)
    /\ calls' = [calls EXCEPT ![t] = [Stale(@) EXCEPT !["login"] = Sent(None)]]
    /\ UNCHANGED <<session, cookie, activity, notices>>

(* SSO leaves the page and comes back with the cookie of a new session. *)
SingleSignOn(t) ==
    /\ ~tab[t].booting /\ ~SignedIn(t)
    /\ Spend("inputs")
    /\ \E s \in Session :
        /\ session[s].state = "unused"
        /\ session' = [session EXCEPT ![s] = [state |-> "live", left |-> Timeout]]
        /\ cookie' = s
        /\ calls' = [calls EXCEPT ![t] =
               [k \in Kinds |-> IF k = "boot" THEN Sent(s) ELSE NoCall]]
    /\ tab' = [tab EXCEPT ![t] = FreshPage]
    /\ notices' = [notices EXCEPT ![t] = <<>>]
    /\ UNCHANGED <<expiry, activity>>

Reload(t) ==
    /\ Spend("inputs")
    /\ tab' = [tab EXCEPT ![t] = FreshPage]
    /\ calls' = [calls EXCEPT ![t] = Loading]
    /\ notices' = [notices EXCEPT ![t] = <<>>]
    /\ UNCHANGED <<session, cookie, expiry, activity>>

(* Mutant: tells the server and the other tabs but keeps the user. *)
BadLeave(t) ==
    /\ calls[t]["logout"].phase = "none"
    /\ tab' = [tab EXCEPT ![t] = Locked(@)]
    /\ ClearExpiry(t)
    /\ calls' = [calls EXCEPT ![t] =
           [Stale(@) EXCEPT !["data"] = NoCall, !["logout"] = Sent(cookie)]]
    /\ Announce(t, [name |-> "logout", key |-> tab[t].coord])
    /\ UNCHANGED <<session, cookie, activity>>

(* handleLogout and handleSessionTimeout: lock, tell the other tabs, drop  *)
(* the queries, and ask the server to revoke the token's or the cookie's   *)
(* session.                                                                *)
Leave(t) ==
    LET named == IF tab[t].token # None THEN tab[t].token ELSE cookie
    IN
    /\ calls[t]["logout"].phase = "none"
    /\ tab' = [tab EXCEPT ![t] = [Locked(@) EXCEPT !.user = None]]
    /\ ClearExpiry(t)
    /\ calls' = [calls EXCEPT ![t] =
           [Stale(@) EXCEPT !["data"] = NoCall, !["logout"] = Sent(named)]]
    /\ Announce(t, [name |-> "logout", key |-> tab[t].coord])
    /\ UNCHANGED <<session, cookie, activity>>

SignOut(t) ==
    /\ SignedIn(t)
    /\ Leave(t)
    /\ Spend("inputs")

(* check, each second: nobody was active for the whole timeout. *)
TimeOut(t) ==
    /\ TimedOut(t)
    /\ Leave(t)
    /\ UNCHANGED budget

(* handleActivity: stamps the activity under the hook's key. *)
Input(t) ==
    /\ SignedIn(t) /\ ~TimedOut(t)
    /\ Spend("inputs")
    /\ tab' = [tab EXCEPT ![t].idle = 0, ![t].seen = TRUE]
    /\ Stamp(tab[t].hook)
    /\ calls' = [calls EXCEPT ![t] = Refreshing(t, @)]
    /\ UNCHANGED <<session, cookie, expiry, notices>>

(* check, while activity stays fresh. *)
KeepAliveDue(t) ==
    /\ SignedIn(t) /\ ~TimedOut(t)
    /\ tab[t].seen \/ activity[tab[t].hook] < tab[t].idle
    /\ RefreshDue(t) /\ ~tab[t].locked

KeepAlive(t) ==
    /\ KeepAliveDue(t)
    /\ calls' = [calls EXCEPT ![t] = Refreshing(t, @)]
    /\ UNCHANGED <<session, cookie, expiry, activity, tab, notices, budget>>

(* request: any call but session control waits for a refresh, which it     *)
(* starts when one is due and its key was stamped; a locked tab sends none. *)
Request(t) ==
    LET fresh == activity[tab[t].coord] < Timeout
        mine == IF fresh THEN Refreshing(t, calls[t]) ELSE calls[t]
    IN
    /\ SignedIn(t) /\ ~tab[t].locked
    /\ calls[t]["data"].phase = "none"
    /\ Spend("requests")
    /\ calls' = [calls EXCEPT ![t] = [mine EXCEPT !["data"] =
           IF mine["refresh"].phase = "none"
           THEN Sent(cookie) ELSE [NoCall EXCEPT !.phase = "waiting"]]]
    /\ UNCHANGED <<session, cookie, expiry, activity, tab, notices>>

-----------------------------------------------------------------------------
(* The server and the network *)

Answered(t, k, a) ==
    calls' = [calls EXCEPT ![t][k].phase = "answered", ![t][k].answer = a]
Done(t, k) == calls' = [calls EXCEPT ![t][k] = NoCall]

ServeLogin(t) ==
    /\ calls[t]["login"].phase = "sent"
    /\ \/ \E s \in Session :
            /\ session[s].state = "unused"
            /\ session' = [session EXCEPT ![s] = [state |-> "live", left |-> Timeout]]
            /\ Answered(t, "login", s)
       \/ /\ Answered(t, "login", None) \* wrong password
          /\ UNCHANGED session
    /\ UNCHANGED <<cookie, expiry, activity, tab, notices, budget>>

ServeRefresh(t) ==
    LET s == calls[t]["refresh"].with
    IN
    /\ calls[t]["refresh"].phase = "sent"
    /\ Answered(t, "refresh", IF Live(s) THEN s ELSE None)
    /\ session' = IF Live(s) THEN [session EXCEPT ![s].left = Timeout] ELSE session
    /\ UNCHANGED <<cookie, expiry, activity, tab, notices, budget>>

(* revoke_session leaves a tombstone, whatever the session's state.  What   *)
(* the server answers changes nothing in the tab.                           *)
ServeLogout(t, k) ==
    LET s == calls[t][k].with
    IN
    /\ k \in {"logout", "undo"}
    /\ calls[t][k].phase = "sent"
    /\ Done(t, k)
    /\ session' = IF s = None THEN session
                  ELSE [session EXCEPT ![s] = [state |-> "revoked", left |-> 0]]
    /\ UNCHANGED <<cookie, expiry, activity, tab, notices, budget>>

(* GET /session and every protected endpoint: get_active_session. *)
ServeRead(t, k) ==
    LET s == calls[t][k].with
    IN
    /\ k \in {"boot", "join", "data"}
    /\ calls[t][k].phase = "sent"
    /\ Answered(t, k, IF Live(s) THEN s ELSE None)
    /\ UNCHANGED <<session, cookie, expiry, activity, tab, notices, budget>>

(* The call or its answer is lost. *)
Lose(t, k) ==
    /\ calls[t][k].phase \in {"sent", "answered"} /\ calls[t][k].answer # Lost
    /\ Spend("troubles")
    /\ IF k \in {"logout", "undo"} THEN Done(t, k) ELSE Answered(t, k, Lost)
    /\ UNCHANGED <<session, cookie, expiry, activity, tab, notices>>

(* An administrator, or a password change on another device, ends a session. *)
EndElsewhere(s) ==
    /\ Live(s)
    /\ Spend("troubles")
    /\ session' = [session EXCEPT ![s] = [state |-> "revoked", left |-> 0]]
    /\ UNCHANGED <<cookie, expiry, activity, tab, calls, notices>>

Quiet(t) == notices[t] = <<>> /\ \A k \in Kinds : calls[t][k].phase = "none"

Tick ==
    /\ \A t \in Tab : Quiet(t) /\ ~TimedOut(t) /\ ~KeepAliveDue(t)
    /\ session' = [s \in Session |->
           [session[s] EXCEPT !.left = IF @ > 0 THEN @ - 1 ELSE 0]]
    /\ expiry' = [k \in Key |-> IF expiry[k] \in 1..Timeout THEN expiry[k] - 1
                                ELSE expiry[k]]
    /\ activity' = [k \in Key |-> Youngest(activity[k] + 1, Timeout)]
    /\ tab' = [t \in Tab |-> [tab[t] EXCEPT !.idle = Youngest(@ + 1, Timeout),
                                         !.refused = FALSE]]
    /\ UNCHANGED <<cookie, calls, notices, budget>>

-----------------------------------------------------------------------------
(* What a tab does with an answer *)

Ready(t, k) == calls[t][k].phase = "answered"

(* getSession as the page loads; locked tabs and stale answers say no. *)
ReceiveBoot(t) ==
    LET a == calls[t]["boot"].answer
        good == a \in Session /\ ~calls[t]["boot"].stale /\ ~tab[t].locked
    IN
    /\ Ready(t, "boot")
    /\ Done(t, "boot")
    /\ IF good
       THEN /\ tab' = [tab EXCEPT ![t] =
                  [Watched(@, a, a) EXCEPT !.booting = FALSE, !.coord = a]]
            /\ Remember(a)
            /\ IF Continues(tab[t], a) THEN UNCHANGED activity ELSE Stamp(a)
       ELSE /\ tab' = [tab EXCEPT ![t].booting = FALSE]
            /\ UNCHANGED <<expiry, activity>>
    /\ UNCHANGED <<session, cookie, notices, budget>>

(* getSession after another tab signed in: unlocks, whoever was shown. *)
ReceiveJoin(t) ==
    LET a == calls[t]["join"].answer
        good == a \in Session /\ ~calls[t]["join"].stale
    IN
    /\ Ready(t, "join")
    /\ Done(t, "join")
    /\ IF good
       THEN /\ tab' = [tab EXCEPT ![t] =
                  [Watched(@, a, a) EXCEPT !.coord = a, !.locked = FALSE]]
            /\ Remember(a)
            /\ IF Continues(tab[t], a) THEN UNCHANGED activity ELSE Stamp(a)
       ELSE UNCHANGED <<tab, expiry, activity>>
    /\ UNCHANGED <<session, cookie, notices, budget>>

(* The browser stores the cookie; then login looks at the generation.  An  *)
(* answer overtaken by a lock is revoked again.                            *)
ReceiveLogin(t) ==
    LET a == calls[t]["login"].answer
        granted == a \in Session
        late == calls[t]["login"].stale
    IN
    /\ Ready(t, "login") /\ (granted \/ late \/ a = Lost)
    /\ calls[t]["undo"].phase = "none"
    /\ cookie' = IF granted THEN a ELSE cookie
    /\ calls' = [calls EXCEPT ![t]["login"] = NoCall,
                              ![t]["undo"] = IF granted /\ late THEN Sent(a) ELSE @]
    /\ IF granted /\ ~late
       THEN /\ tab' = [tab EXCEPT ![t] = Watched(WithToken(@, a), a, @.hook)]
            /\ Remember(a)
            /\ Stamp(tab[t].hook)
            /\ Announce(t, [name |-> "authenticated", key |-> None])
       ELSE UNCHANGED <<tab, expiry, activity, notices>>
    /\ UNCHANGED <<session, budget>>

(* 401 to a sign-in in the present generation: lock and load the page again. *)
LoginRefused(t) ==
    /\ Ready(t, "login")
    /\ calls[t]["login"].answer = None /\ ~calls[t]["login"].stale
    /\ tab' = [tab EXCEPT ![t] = FreshPage]
    /\ calls' = [calls EXCEPT ![t] = Loading]
    /\ ClearExpiry(t)
    /\ notices' = [notices EXCEPT ![t] = <<>>]
    /\ UNCHANGED <<session, cookie, activity, budget>>

(* A call that waited goes out when the refresh ends, unless locked. *)
ReceiveRefresh(t) ==
    LET a == calls[t]["refresh"].answer
        good == a \in Session /\ ~calls[t]["refresh"].stale
        released == IF tab[t].locked /\ ~good THEN NoCall
                    ELSE [Sent(cookie) EXCEPT !.again = calls[t]["data"].again]
    IN
    /\ Ready(t, "refresh")
    /\ calls' = [calls EXCEPT ![t]["refresh"] = NoCall,
           ![t]["data"] = IF @.phase = "waiting" THEN released ELSE @]
    /\ IF good
       THEN tab' = [tab EXCEPT ![t] = WithToken(@, a)] /\ Remember(a)
       ELSE /\ tab' = [tab EXCEPT ![t].refused = (a = None)]
            /\ UNCHANGED expiry
    /\ UNCHANGED <<session, cookie, activity, notices, budget>>

(* 401 in the present generation: wait once for a refresh that is under    *)
(* way, otherwise lock and load the page again.                            *)
ReceiveData(t) ==
    LET call == calls[t]["data"]
        refused == call.answer = None /\ ~call.stale
        retries == calls[t]["refresh"].phase # "none" /\ ~call.again
    IN
    /\ Ready(t, "data")
    /\ IF refused /\ ~retries
       THEN /\ tab' = [tab EXCEPT ![t] = FreshPage]
            /\ calls' = [calls EXCEPT ![t] = Loading]
            /\ ClearExpiry(t)
            /\ notices' = [notices EXCEPT ![t] = <<>>]
       ELSE /\ calls' = [calls EXCEPT ![t]["data"] =
                  IF refused THEN [NoCall EXCEPT !.phase = "waiting", !.again = TRUE]
                  ELSE NoCall]
            /\ UNCHANGED <<tab, expiry, notices>>
    /\ UNCHANGED <<session, cookie, activity, budget>>

(* handleStorage: a sign-out under the tab's own key, or any sign-in. *)
HearSignOut(t) ==
    /\ notices[t] # <<>> /\ Head(notices[t]).name = "logout"
    /\ notices' = [notices EXCEPT ![t] = Tail(@)]
    /\ IF Head(notices[t]).key = tab[t].coord
       THEN /\ tab' = [tab EXCEPT ![t] = [Locked(@) EXCEPT !.user = None]]
            /\ ClearExpiry(t)
            /\ calls' = [calls EXCEPT ![t] = [Stale(@) EXCEPT !["data"] = NoCall]]
       ELSE UNCHANGED <<tab, expiry, calls>>
    /\ UNCHANGED <<session, cookie, activity, budget>>

HearSignIn(t) ==
    /\ notices[t] # <<>> /\ Head(notices[t]).name = "authenticated"
    /\ calls[t]["join"].phase = "none"
    /\ notices' = [notices EXCEPT ![t] = Tail(@)]
    /\ calls' = [calls EXCEPT ![t]["join"] = Sent(cookie)]
    /\ UNCHANGED <<session, cookie, expiry, activity, tab, budget>>

-----------------------------------------------------------------------------
(* Specification *)

UserActs(t) ==
    \/ SignIn(t) \/ SingleSignOn(t) \/ Reload(t) \/ SignOut(t)
    \/ Input(t) \/ Request(t)

Serve(t) ==
    \/ ServeLogin(t)
    \/ ServeRefresh(t)
    \/ \E k \in Kinds : ServeLogout(t, k) \/ ServeRead(t, k)

Receive(t) ==
    \/ ReceiveBoot(t) \/ ReceiveJoin(t) \/ ReceiveLogin(t)
    \/ LoginRefused(t) \/ ReceiveRefresh(t) \/ ReceiveData(t)

Hear(t) == HearSignOut(t) \/ HearSignIn(t)

Next ==
    \/ \E t \in Tab :
        \/ UserActs(t) \/ TimeOut(t) \/ KeepAlive(t)
        \/ Serve(t) \/ Receive(t) \/ Hear(t)
        \/ \E k \in Kinds : Lose(t, k)
    \/ \E s \in Session : EndElsewhere(s)
    \/ Tick

(* The network answers or fails, events are delivered, time and the timers *)
(* go on; nobody has to use the page.                                      *)
Fairness ==
    /\ WF_vars(Tick)
    /\ \A t \in Tab : /\ WF_vars(Serve(t)) /\ WF_vars(Receive(t))
                      /\ WF_vars(Hear(t)) /\ WF_vars(TimeOut(t))
                      /\ WF_vars(KeepAlive(t))

Spec == Init /\ [][Next]_vars
FairSpec == Spec /\ Fairness

-----------------------------------------------------------------------------
(* Properties *)

CallType == [phase : {"none", "waiting", "sent", "answered"}, with : Key,
             answer : Key \cup {Lost}, stale : BOOLEAN, again : BOOLEAN]
PageType == [booting : BOOLEAN, user : Key, locked : BOOLEAN, coord : Key,
             hook : Key, token : Key, idle : 0..Timeout, seen : BOOLEAN, refused : BOOLEAN]
NoticeType == [name : {"logout", "authenticated"}, key : Key]

(* Every variable keeps its shape. *)
TypeOK ==
    /\ session \in [Session -> [state : {"unused", "live", "revoked"}, left : 0..Timeout]]
    /\ cookie \in Key
    /\ expiry \in [Key -> 0..Unknown]
    /\ activity \in [Key -> 0..Timeout]
    /\ tab \in [Tab -> PageType]
    /\ calls \in [Tab -> [Kinds -> CallType]]
    /\ notices \in [Tab -> Seq(NoticeType)]
    /\ budget \in [{"inputs", "requests", "troubles"} -> Nat]

(* ... as far as their keys agree: every input is at least as old as the   *)
(* stamp its tab's timer reads, after any reload, sign-in or refresh.      *)
TabsOfOneKeyShareActivity ==
    \A t, u \in Tab :
        TimedOut(t) /\ SignedIn(u) /\ tab[u].hook = tab[t].hook =>
            tab[u].idle >= Timeout

(* The server's expiry slides with the activity: time alone never runs out *)
(* the session of a page that was used within the timeout.                 *)
ActiveSessionsLast ==
    [][Live(cookie) /\ ~Live(cookie)' /\ cookie' = cookie =>
          \A t \in Tab : SignedIn(t) /\ tab[t].seen /\ tab[t].idle < tab'[t].idle =>
              tab'[t].idle >= Timeout]_vars

(* When nobody uses the pages any more, all of them end at the sign-in     *)
(* form (inputs are bounded).                                              *)
IdleSessionsEnd == <>[](\A t \in Tab : ~SignedIn(t))
=============================================================================
