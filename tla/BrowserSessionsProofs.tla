------------------------ MODULE BrowserSessionsProofs ------------------------
(***************************************************************************)
(* Types, shared activity and sliding expiry of the browser's sessions,    *)
(* for any number of tabs and sign-ins, any timeout of at least two ticks  *)
(* and any number of lost calls and sessions ended elsewhere.              *)
(***************************************************************************)
EXTENDS BrowserSessions, TLAPS

(* Every tab that shows a user works under the key of a session and may    *)
(* call the server.                                                        *)
ShownIsUnlocked ==
    \A t \in Tab : SignedIn(t) => ~tab[t].locked /\ tab[t].coord \in Session

(* A session that is not live, or has just been created or refreshed. *)
Fresh(s) == ~Live(s) \/ session[s].left = Timeout

(* The cookie and the sign-ins under way name sessions that were created;  *)
(* no tick passes while a sign-in is under way.                            *)
SignInsAreFresh ==
    /\ cookie # None => session[cookie].state # "unused"
    /\ \A t \in Tab : \A a \in Session :
          calls[t]["login"].phase = "answered" /\ calls[t]["login"].answer = a =>
              session[a].state # "unused" /\ Fresh(a)

(* A call that reads or refreshes the session is about the cookie's, or    *)
(* the cookie has changed since, in the same tick.                         *)
Reading == {"boot", "join", "refresh"}
CallsAreAboutTheCookie ==
    \A t \in Tab, k \in Reading :
        \/ Fresh(cookie)
        \/ /\ calls[t][k].phase = "sent" => calls[t][k].with = cookie
           /\ calls[t][k].phase = "answered" => calls[t][k].answer \in {cookie, Lost}

(* A refresh is only refused when the cookie's session has ended. *)
RefusedHasEnded == \A t \in Tab : tab[t].refused => Fresh(cookie)

(* No tab believes that it has more time left than the cookie's session. *)
ExpiryIsSafe ==
    Live(cookie) =>
        \A s \in Session : expiry[s] = Unknown \/ expiry[s] <= session[cookie].left

SlidingInv ==
    /\ TypeOK
    /\ ShownIsUnlocked
    /\ SignInsAreFresh
    /\ CallsAreAboutTheCookie
    /\ RefusedHasEnded
    /\ ExpiryIsSafe

(* The stamp a tab's timer reads is at least as young as the tab's own     *)
(* last input.                                                             *)
StampsAreYounger ==
    \A t \in Tab : SignedIn(t) => activity[tab[t].hook] <= tab[t].idle

-----------------------------------------------------------------------------
(* Types. *)

LEMMA KeysAreDistinct ==
    /\ None \in Key /\ Session \subseteq Key
    /\ \A a \in Key : a # Lost
    /\ \A a \in Key : a # None => a \in Session
  BY LostAssumption DEF Key

LEMMA CallTypes ==
    /\ NoCall \in CallType
    /\ \A s \in Key : Sent(s) \in CallType
  BY KeysAreDistinct, Zenon DEF NoCall, Sent, CallType

LEMMA StaleType ==
    ASSUME NEW cs \in [Kinds -> CallType]
    PROVE  Stale(cs) \in [Kinds -> CallType]
  BY DEF Stale, CallType

LEMMA RefreshingType ==
    ASSUME TypeOK, NEW t \in Tab, NEW cs \in [Kinds -> CallType]
    PROVE  Refreshing(t, cs) \in [Kinds -> CallType]
<1>1. Sent(cookie) \in CallType
  BY CallTypes DEF TypeOK
<1>2. [cs EXCEPT !["refresh"] = Sent(cookie)] \in [Kinds -> CallType]
  BY <1>1
<1> QED
  BY <1>2 DEF Refreshing

LEMMA PageTypes ==
    /\ FreshPage \in PageType
    /\ \A p \in PageType :
          /\ Locked(p) \in PageType
          /\ [Locked(p) EXCEPT !.user = None] \in PageType
    /\ \A p \in PageType, s \in Session : WithToken(p, s) \in PageType
    /\ \A p \in PageType, s \in Session, k \in Key : Watched(p, s, k) \in PageType
<1> USE KeysAreDistinct, TimeoutAssumption
<1>1. FreshPage \in PageType
  BY DEF FreshPage, PageType
<1>2. ASSUME NEW p \in PageType
      PROVE  Locked(p) \in PageType /\ [Locked(p) EXCEPT !.user = None] \in PageType
  <2>1. Locked(p) \in PageType
    BY DEF Locked, PageType
  <2> QED
    BY <2>1 DEF PageType
<1>3. ASSUME NEW p \in PageType, NEW s \in Session
      PROVE  WithToken(p, s) \in PageType
  BY DEF WithToken, PageType
<1>4. ASSUME NEW p \in PageType, NEW s \in Session, NEW k \in Key
      PROVE  Watched(p, s, k) \in PageType
  <2>1. [p EXCEPT !.user = s] \in PageType
    BY DEF PageType
  <2>2. s \in Key /\ 0 \in 0..Timeout
    OBVIOUS
  <2>3. [p EXCEPT !.user = s, !.hook = k, !.idle = 0, !.seen = FALSE] \in PageType
    BY <2>2 DEF PageType
  <2> QED
    BY <2>1, <2>3 DEF Watched
<1> QED
  BY <1>1, <1>2, <1>3, <1>4

LEMMA RowTypes ==
    ASSUME TypeOK
    PROVE  /\ \A t \in Tab : ClearExpiry(t) => expiry' \in [Key -> 0..Unknown]
           /\ \A s \in Session : Remember(s) => expiry' \in [Key -> 0..Unknown]
           /\ \A k \in Key : Stamp(k) => activity' \in [Key -> 0..Timeout]
           /\ \A what \in {"inputs", "requests", "troubles"} : Spend(what) =>
                 budget' \in [{"inputs", "requests", "troubles"} -> Nat]
<1> USE TimeoutAssumption DEF TypeOK
<1>1. ASSUME NEW t \in Tab, ClearExpiry(t)
      PROVE  expiry' \in [Key -> 0..Unknown]
  <2>1. Unknown \in 0..Unknown /\ expiry \in [Key -> 0..Unknown]
    BY DEF Unknown
  <2> QED
    BY <1>1, <2>1 DEF ClearExpiry
<1>2. ASSUME NEW s \in Session, Remember(s)
      PROVE  expiry' \in [Key -> 0..Unknown]
  BY <1>2 DEF Remember, Unknown, Key
<1>3. ASSUME NEW k \in Key, Stamp(k)
      PROVE  activity' \in [Key -> 0..Timeout]
  BY <1>3 DEF Stamp
<1>4. ASSUME NEW what \in {"inputs", "requests", "troubles"}, Spend(what)
      PROVE  budget' \in [{"inputs", "requests", "troubles"} -> Nat]
  <2>1. budget \in [{"inputs", "requests", "troubles"} -> Nat]
    OBVIOUS
  <2>2. budget[what] - 1 \in Nat
    BY <1>4, <2>1 DEF Spend
  <2> HIDE DEF TypeOK
  <2> QED
    BY <1>4, <2>1, <2>2 DEF Spend
<1> QED
  BY <1>1, <1>2, <1>3, <1>4

LEMMA NoticeTypes ==
    ASSUME TypeOK, NEW t \in Tab
    PROVE  /\ \A n \in NoticeType : Announce(t, n) => notices' \in [Tab -> Seq(NoticeType)]
           /\ notices[t] # <<>> =>
                 /\ [notices EXCEPT ![t] = Tail(@)] \in [Tab -> Seq(NoticeType)]
                 /\ Head(notices[t]) \in NoticeType
           /\ [notices EXCEPT ![t] = <<>>] \in [Tab -> Seq(NoticeType)]
<1>1. notices \in [Tab -> Seq(NoticeType)]
  BY DEF TypeOK
<1>2. ASSUME NEW n \in NoticeType, Announce(t, n)
      PROVE  notices' \in [Tab -> Seq(NoticeType)]
  <2>1. \A u \in Tab : Append(notices[u], n) \in Seq(NoticeType)
    BY <1>1
  <2> QED
    BY <1>1, <1>2, <2>1 DEF Announce
<1>3. ASSUME notices[t] # <<>>
      PROVE  /\ [notices EXCEPT ![t] = Tail(@)] \in [Tab -> Seq(NoticeType)]
             /\ Head(notices[t]) \in NoticeType
  BY <1>1, <1>3
<1> QED
  BY <1>1, <1>2, <1>3

(* What a user does keeps the types. *)
LEMMA UserActsType ==
    ASSUME TypeOK, NEW t \in Tab, UserActs(t) \/ TimeOut(t) \/ KeepAlive(t)
    PROVE  TypeOK'
<1> DEFINE SessionsOK == session \in [Session -> [state : {"unused", "live", "revoked"},
                                                  left : 0..Timeout]]
<1> USE KeysAreDistinct, CallTypes, PageTypes, RowTypes, NoticeTypes
<1>1. /\ calls[t] \in [Kinds -> CallType] /\ calls \in [Tab -> [Kinds -> CallType]]
      /\ tab[t] \in PageType /\ tab \in [Tab -> PageType]
      /\ cookie \in Key
      /\ tab[t].token \in Key /\ tab[t].hook \in Key /\ tab[t].coord \in Key
  BY DEF TypeOK, PageType
<1>2. Stale(calls[t]) \in [Kinds -> CallType]
  BY <1>1, StaleType
<1>3. CASE SignIn(t)
  <2>1. tab' \in [Tab -> PageType]
    <3>1. [tab[t] EXCEPT !.token = None] \in PageType
      BY <1>1 DEF PageType
    <3> QED
      BY <1>1, <1>3, <3>1 DEF SignIn
  <2>2. calls' \in [Tab -> [Kinds -> CallType]]
    <3>1. [Stale(calls[t]) EXCEPT !["login"] = Sent(None)] \in [Kinds -> CallType]
      BY <1>2
    <3> QED
      BY <1>1, <1>3, <3>1 DEF SignIn
  <2> QED
    BY <1>3, <2>1, <2>2 DEF SignIn, TypeOK
<1>4. CASE SingleSignOn(t)
  <2> PICK s \in Session :
        /\ session' = [session EXCEPT ![s] = [state |-> "live", left |-> Timeout]]
        /\ cookie' = s
        /\ calls' = [calls EXCEPT ![t] =
               [k \in Kinds |-> IF k = "boot" THEN Sent(s) ELSE NoCall]]
    BY <1>4 DEF SingleSignOn
  <2>1. SessionsOK'
    BY TimeoutAssumption DEF TypeOK
  <2>2. calls' \in [Tab -> [Kinds -> CallType]]
    BY <1>1
  <2>3. tab' \in [Tab -> PageType]
    BY <1>1, <1>4 DEF SingleSignOn
  <2>4. notices' \in [Tab -> Seq(NoticeType)]
    BY <1>4 DEF SingleSignOn
  <2> QED
    BY <1>4, <2>1, <2>2, <2>3, <2>4 DEF SingleSignOn, TypeOK
<1>5. CASE Reload(t)
  <2>1. Loading \in [Kinds -> CallType]
    BY <1>1 DEF Loading
  <2> QED
    BY <1>1, <1>5, <2>1 DEF Reload, TypeOK
<1>6. CASE Leave(t) /\ (UNCHANGED budget \/ Spend("inputs"))
  <2>1. tab' \in [Tab -> PageType]
    BY <1>1, <1>6 DEF Leave
  <2>2. calls' \in [Tab -> [Kinds -> CallType]]
    <3> DEFINE named == IF tab[t].token # None THEN tab[t].token ELSE cookie
    <3>1. Sent(named) \in CallType /\ NoCall \in CallType
      BY <1>1
    <3> HIDE DEF named
    <3>2. [Stale(calls[t]) EXCEPT !["data"] = NoCall, !["logout"] = Sent(named)]
             \in [Kinds -> CallType]
      BY <1>2, <3>1
    <3> QED
      BY <1>1, <1>6, <3>2 DEF Leave, named
  <2>3. notices' \in [Tab -> Seq(NoticeType)]
    <3>1. [name |-> "logout", key |-> tab[t].coord] \in NoticeType
      BY <1>1 DEF NoticeType
    <3> QED
      BY <1>6, <3>1 DEF Leave
  <2> QED
    BY <1>6, <2>1, <2>2, <2>3 DEF Leave, TypeOK
<1>7. CASE Input(t)
  <2>1. [tab[t] EXCEPT !.idle = 0, !.seen = TRUE] \in PageType
    <3>1. 0 \in 0..Timeout
      BY TimeoutAssumption
    <3> QED
      BY <1>1, <3>1 DEF PageType
  <2>2. tab' \in [Tab -> PageType]
    BY <1>1, <1>7, <2>1 DEF Input
  <2>3. calls' \in [Tab -> [Kinds -> CallType]]
    BY <1>1, <1>7, RefreshingType DEF Input
  <2> QED
    BY <1>1, <1>7, <2>2, <2>3 DEF Input, TypeOK
<1>8. CASE KeepAlive(t)
  <2>1. calls' \in [Tab -> [Kinds -> CallType]]
    BY <1>1, <1>8, RefreshingType DEF KeepAlive
  <2> QED
    BY <1>8, <2>1 DEF KeepAlive, TypeOK
<1>9. CASE Request(t)
  <2>1. [NoCall EXCEPT !.phase = "waiting"] \in CallType
    BY DEF CallType
  <2>2. \A mine \in [Kinds -> CallType] :
          [mine EXCEPT !["data"] = IF mine["refresh"].phase = "none"
             THEN Sent(cookie) ELSE [NoCall EXCEPT !.phase = "waiting"]]
             \in [Kinds -> CallType]
    BY <1>1, <2>1
  <2>3. calls' \in [Tab -> [Kinds -> CallType]]
    BY <1>1, <1>9, <2>2, RefreshingType DEF Request
  <2> QED
    BY <1>9, <2>3 DEF Request, TypeOK
<1> QED
  BY <1>3, <1>4, <1>5, <1>6, <1>7, <1>8, <1>9 DEF UserActs, SignOut, TimeOut

LEMMA AnswerTypes ==
    ASSUME TypeOK, NEW t \in Tab, NEW k \in Kinds
    PROVE  /\ calls[t][k] \in CallType
           /\ Done(t, k) => calls' \in [Tab -> [Kinds -> CallType]]
           /\ \A a \in Key \cup {Lost} :
                 Answered(t, k, a) => calls' \in [Tab -> [Kinds -> CallType]]
<1>1. /\ calls \in [Tab -> [Kinds -> CallType]] /\ calls[t] \in [Kinds -> CallType]
      /\ calls[t][k] \in CallType
  BY DEF TypeOK
<1>2. ASSUME Done(t, k)
      PROVE  calls' \in [Tab -> [Kinds -> CallType]]
  BY <1>1, <1>2, CallTypes DEF Done
<1>3. ASSUME NEW a \in Key \cup {Lost}, Answered(t, k, a)
      PROVE  calls' \in [Tab -> [Kinds -> CallType]]
  <2>1. [calls[t][k] EXCEPT !.phase = "answered", !.answer = a] \in CallType
    BY <1>1 DEF CallType
  <2>2. [calls[t] EXCEPT ![k] =
           [calls[t][k] EXCEPT !.phase = "answered", !.answer = a]]
             \in [Kinds -> CallType]
    BY <1>1, <2>1
  <2>3. calls' = [calls EXCEPT ![t] = [calls[t] EXCEPT ![k] =
           [calls[t][k] EXCEPT !.phase = "answered", !.answer = a]]]
    BY <1>1, <1>3 DEF Answered
  <2> QED
    BY <1>1, <2>2, <2>3
<1> QED
  BY <1>1, <1>2, <1>3

(* What the server and the network do keeps the types. *)
LEMMA ServeType ==
    ASSUME TypeOK, NEW t \in Tab, Serve(t) \/ \E k \in Kinds : Lose(t, k)
    PROVE  TypeOK'
<1> DEFINE Rows == [state : {"unused", "live", "revoked"}, left : 0..Timeout]
<1> USE KeysAreDistinct, RowTypes
<1>1. /\ session \in [Session -> Rows]
      /\ 0 \in 0..Timeout /\ Timeout \in 0..Timeout
      /\ \A x \in {"unused", "live", "revoked"}, n \in 0..Timeout :
            [state |-> x, left |-> n] \in Rows
  BY TimeoutAssumption DEF TypeOK
<1>2. "login" \in Kinds /\ "refresh" \in Kinds
  BY DEF Kinds
<1>3. ASSUME NEW k \in Kinds
      PROVE  calls[t][k].with \in Key
  BY AnswerTypes DEF CallType
<1>4. CASE ServeLogin(t)
  <2>1. session' \in [Session -> Rows]
    BY <1>1, <1>4 DEF ServeLogin
  <2>2. calls' \in [Tab -> [Kinds -> CallType]]
    BY <1>2, <1>4, AnswerTypes DEF ServeLogin
  <2> QED
    BY <1>4, <2>1, <2>2 DEF ServeLogin, TypeOK
<1>5. CASE ServeRefresh(t)
  <2>1. session' \in [Session -> Rows]
    <3>1. \A s \in Session : [session[s] EXCEPT !.left = Timeout] \in Rows
      BY <1>1
    <3> HIDE DEF Rows
    <3> QED
      BY <1>1, <1>5, <3>1 DEF ServeRefresh
  <2>2. calls' \in [Tab -> [Kinds -> CallType]]
    BY <1>2, <1>3, <1>5, AnswerTypes DEF ServeRefresh
  <2> QED
    BY <1>5, <2>1, <2>2 DEF ServeRefresh, TypeOK
<1>6. ASSUME NEW k \in Kinds, ServeLogout(t, k)
      PROVE  TypeOK'
  <2>1. session' \in [Session -> Rows]
    BY <1>1, <1>6 DEF ServeLogout
  <2>2. calls' \in [Tab -> [Kinds -> CallType]]
    BY <1>6, AnswerTypes DEF ServeLogout
  <2> QED
    BY <1>6, <2>1, <2>2 DEF ServeLogout, TypeOK
<1>7. ASSUME NEW k \in Kinds, ServeRead(t, k)
      PROVE  TypeOK'
  <2>1. calls' \in [Tab -> [Kinds -> CallType]]
    BY <1>3, <1>7, AnswerTypes DEF ServeRead
  <2> QED
    BY <1>7, <2>1 DEF ServeRead, TypeOK
<1>8. ASSUME NEW k \in Kinds, Lose(t, k)
      PROVE  TypeOK'
  <2>1. calls' \in [Tab -> [Kinds -> CallType]]
    BY <1>8, AnswerTypes DEF Lose
  <2> QED
    BY <1>8, <2>1 DEF Lose, TypeOK
<1> QED
  BY <1>4, <1>5, <1>6, <1>7, <1>8 DEF Serve

(* The end of a refresh lets the call that waited for it go, or drops it.  *)
LEMMA RefreshReleases ==
    ASSUME TypeOK, NEW t \in Tab, ReceiveRefresh(t)
    PROVE  \E c \in {NoCall, calls[t]["data"],
                     [Sent(cookie) EXCEPT !.again = calls[t]["data"].again]} :
              calls' = [calls EXCEPT ![t] =
                          [calls[t] EXCEPT !["refresh"] = NoCall, !["data"] = c]]
<1> DEFINE good == calls[t]["refresh"].answer \in Session /\ ~calls[t]["refresh"].stale
           released == IF tab[t].locked /\ ~good THEN NoCall
                       ELSE [Sent(cookie) EXCEPT !.again = calls[t]["data"].again]
<1>1. calls' = [calls EXCEPT ![t] = [calls[t] EXCEPT !["refresh"] = NoCall,
           !["data"] = IF calls[t]["data"].phase = "waiting" THEN released ELSE calls[t]["data"]]]
  BY DEF ReceiveRefresh
<1>2. released \in {NoCall, [Sent(cookie) EXCEPT !.again = calls[t]["data"].again]}
  OBVIOUS
<1> HIDE DEF released
<1> QED
  BY <1>1, <1>2

(* What a tab does with an answer keeps the types. *)
LEMMA ReceiveType ==
    ASSUME TypeOK, NEW t \in Tab, Receive(t)
    PROVE  TypeOK'
<1> USE KeysAreDistinct, CallTypes, PageTypes, RowTypes, NoticeTypes
<1>1. /\ calls[t] \in [Kinds -> CallType] /\ calls \in [Tab -> [Kinds -> CallType]]
      /\ tab[t] \in PageType /\ tab \in [Tab -> PageType]
      /\ cookie \in Key /\ tab[t].hook \in Key
      /\ {"boot", "join", "login", "refresh", "undo", "data"} \subseteq Kinds
  BY DEF TypeOK, PageType, Kinds
<1>2. \A k \in Kinds : Done(t, k) => calls' \in [Tab -> [Kinds -> CallType]]
  BY AnswerTypes
<1>3. \A p \in PageType :
        /\ [p EXCEPT !.booting = FALSE] \in PageType
        /\ [p EXCEPT !.locked = FALSE] \in PageType
        /\ \A s \in Session : [p EXCEPT !.coord = s] \in PageType
        /\ \A s \in Session : [p EXCEPT !.booting = FALSE, !.coord = s] \in PageType
        /\ \A s \in Session : [p EXCEPT !.coord = s, !.locked = FALSE] \in PageType
        /\ \A b \in BOOLEAN : [p EXCEPT !.refused = b] \in PageType
  BY Zenon DEF PageType
<1>4. CASE ReceiveBoot(t)
  <2> DEFINE a == calls[t]["boot"].answer
  <2>1. a \in Session => [Watched(tab[t], a, a) EXCEPT !.booting = FALSE, !.coord = a]
                           \in PageType
    <3>1. a \in Session => Watched(tab[t], a, a) \in PageType
      BY <1>1
    <3> QED
      BY <1>3, <3>1, Zenon
  <2>2. tab' \in [Tab -> PageType]
    BY <1>1, <1>3, <1>4, <2>1, Zenon DEF ReceiveBoot
  <2>3. /\ expiry' \in [Key -> 0..Unknown] /\ activity' \in [Key -> 0..Timeout]
    BY <1>1, <1>4 DEF ReceiveBoot, TypeOK
  <2> QED
    BY <1>1, <1>2, <1>4, <2>2, <2>3 DEF ReceiveBoot, TypeOK
<1>5. CASE ReceiveJoin(t)
  <2> DEFINE a == calls[t]["join"].answer
  <2>1. a \in Session => [Watched(tab[t], a, a) EXCEPT !.coord = a, !.locked = FALSE]
                           \in PageType
    <3>1. a \in Session => Watched(tab[t], a, a) \in PageType
      BY <1>1
    <3> QED
      BY <1>3, <3>1, Zenon
  <2>2. tab' \in [Tab -> PageType]
    BY <1>1, <1>5, <2>1 DEF ReceiveJoin
  <2>3. /\ expiry' \in [Key -> 0..Unknown] /\ activity' \in [Key -> 0..Timeout]
    BY <1>1, <1>5 DEF ReceiveJoin, TypeOK
  <2> QED
    BY <1>1, <1>2, <1>5, <2>2, <2>3 DEF ReceiveJoin, TypeOK
<1>6. CASE ReceiveLogin(t)
  <2> DEFINE a == calls[t]["login"].answer
  <2>1. a \in Session => Watched(WithToken(tab[t], a), a, WithToken(tab[t], a).hook)
                           \in PageType
    <3>1. a \in Session => WithToken(tab[t], a) \in PageType
      BY <1>1
    <3>2. \A p \in PageType : p.hook \in Key
      BY DEF PageType
    <3> QED
      BY <3>1, <3>2
  <2>2. tab' \in [Tab -> PageType]
    BY <1>1, <1>6, <2>1 DEF ReceiveLogin
  <2>3. calls' \in [Tab -> [Kinds -> CallType]]
    <3>1. ASSUME NEW c \in CallType
          PROVE  [calls[t] EXCEPT !["login"] = NoCall, !["undo"] = c]
                    \in [Kinds -> CallType]
      BY <1>1
    <3>2. calls[t]["undo"] \in CallType
      BY <1>1
    <3>3. \E c \in CallType :
            calls' = [calls EXCEPT ![t]["login"] = NoCall, ![t]["undo"] = c]
      BY <1>1, <1>6, <3>2 DEF ReceiveLogin
    <3>4. PICK c \in CallType :
            calls' = [calls EXCEPT ![t]["login"] = NoCall, ![t]["undo"] = c]
      BY <3>3
    <3> QED
      BY <1>1, <3>4
  <2>4. /\ expiry' \in [Key -> 0..Unknown] /\ activity' \in [Key -> 0..Timeout]
        /\ cookie' \in Key
    BY <1>1, <1>6 DEF ReceiveLogin, TypeOK
  <2>5. notices' \in [Tab -> Seq(NoticeType)]
    <3>1. [name |-> "authenticated", key |-> None] \in NoticeType
      BY DEF NoticeType
    <3> QED
      BY <1>6, <3>1 DEF ReceiveLogin, TypeOK
  <2> QED
    BY <1>6, <2>2, <2>3, <2>4, <2>5 DEF ReceiveLogin, TypeOK
<1>7. CASE ReceiveRefresh(t)
  <2> DEFINE a == calls[t]["refresh"].answer
  <2>1. tab' \in [Tab -> PageType]
    <3>1. CASE a \in Session /\ tab' = [tab EXCEPT ![t] = WithToken(tab[t], a)]
      BY <1>1, <3>1
    <3>2. CASE tab' = [tab EXCEPT ![t].refused = (a = None)]
      <4>1. (a = None) \in BOOLEAN
        OBVIOUS
      <4>2. [tab[t] EXCEPT !.refused = (a = None)] \in PageType
        BY <1>1, <1>3, <4>1, Zenon
      <4>3. tab' = [tab EXCEPT ![t] = [tab[t] EXCEPT !.refused = (a = None)]]
        BY <1>1, <3>2
      <4> QED
        BY <1>1, <4>2, <4>3
    <3> QED
      BY <1>7, <3>1, <3>2 DEF ReceiveRefresh
  <2>2. calls' \in [Tab -> [Kinds -> CallType]]
    <3>1. calls[t]["data"].again \in BOOLEAN
      BY <1>1 DEF CallType
    <3>2. [Sent(cookie) EXCEPT !.again = calls[t]["data"].again] \in CallType
      BY <1>1, <3>1 DEF CallType
    <3>3. \A c \in CallType : [calls[t] EXCEPT !["refresh"] = NoCall, !["data"] = c]
                                \in [Kinds -> CallType]
      BY <1>1
    <3>4. calls[t]["data"] \in CallType
      BY <1>1
    <3>5. PICK c \in CallType :
            calls' = [calls EXCEPT ![t] =
                        [calls[t] EXCEPT !["refresh"] = NoCall, !["data"] = c]]
      BY <1>1, <1>7, <3>2, <3>4, RefreshReleases
    <3> QED
      BY <1>1, <3>3, <3>5
  <2>3. expiry' \in [Key -> 0..Unknown]
    BY <1>7 DEF ReceiveRefresh, TypeOK
  <2> QED
    BY <1>7, <2>1, <2>2, <2>3 DEF ReceiveRefresh, TypeOK
<1>8. CASE ReceiveData(t)
  <2>1. Loading \in [Kinds -> CallType]
    BY <1>1 DEF Loading
  <2>2. [NoCall EXCEPT !.phase = "waiting", !.again = TRUE] \in CallType
    BY DEF CallType
  <2>3. calls' \in [Tab -> [Kinds -> CallType]]
    <3>1. \/ calls' = [calls EXCEPT ![t] = Loading]
          \/ \E c \in CallType : calls' = [calls EXCEPT ![t]["data"] = c]
      BY <1>1, <1>8, <2>2 DEF ReceiveData
    <3>2. \A c \in CallType : [calls[t] EXCEPT !["data"] = c] \in [Kinds -> CallType]
      BY <1>1
    <3>3. CASE \E c \in CallType : calls' = [calls EXCEPT ![t]["data"] = c]
      <4> PICK c \in CallType : calls' = [calls EXCEPT ![t]["data"] = c]
        BY <3>3
      <4>1. calls' = [calls EXCEPT ![t] = [calls[t] EXCEPT !["data"] = c]]
        BY <1>1
      <4> QED
        BY <1>1, <3>2, <4>1
    <3> QED
      BY <1>1, <2>1, <3>1, <3>3
  <2>4. tab' \in [Tab -> PageType]
    BY <1>1, <1>8 DEF ReceiveData
  <2>5. expiry' \in [Key -> 0..Unknown] /\ notices' \in [Tab -> Seq(NoticeType)]
    BY <1>8 DEF ReceiveData, TypeOK
  <2> QED
    BY <1>8, <2>3, <2>4, <2>5 DEF ReceiveData, TypeOK
<1>9. CASE LoginRefused(t)
  <2>1. Loading \in [Kinds -> CallType]
    BY <1>1 DEF Loading
  <2>2. /\ calls' \in [Tab -> [Kinds -> CallType]]
        /\ tab' \in [Tab -> PageType]
    BY <1>1, <1>9, <2>1 DEF LoginRefused
  <2>3. expiry' \in [Key -> 0..Unknown] /\ notices' \in [Tab -> Seq(NoticeType)]
    BY <1>9 DEF LoginRefused, TypeOK
  <2> QED
    BY <1>9, <2>2, <2>3 DEF LoginRefused, TypeOK
<1> QED
  BY <1>4, <1>5, <1>6, <1>7, <1>8, <1>9 DEF Receive

(* Storage events, sessions ended elsewhere and time keep the types. *)
LEMMA EventsType ==
    ASSUME TypeOK,
           \/ \E t \in Tab : Hear(t)
           \/ \E s \in Session : EndElsewhere(s)
           \/ Tick
    PROVE  TypeOK'
<1> USE KeysAreDistinct, CallTypes, PageTypes, RowTypes, NoticeTypes
<1>1. ASSUME NEW t \in Tab, HearSignOut(t)
      PROVE  TypeOK'
  <2>1. /\ calls[t] \in [Kinds -> CallType] /\ calls \in [Tab -> [Kinds -> CallType]]
        /\ tab[t] \in PageType /\ tab \in [Tab -> PageType]
    BY DEF TypeOK
  <2>2. tab' \in [Tab -> PageType]
    BY <1>1, <2>1 DEF HearSignOut
  <2>3. calls' \in [Tab -> [Kinds -> CallType]]
    <3>1. [Stale(calls[t]) EXCEPT !["data"] = NoCall] \in [Kinds -> CallType]
      BY <2>1, StaleType
    <3> QED
      BY <1>1, <2>1, <3>1 DEF HearSignOut
  <2>4. notices' \in [Tab -> Seq(NoticeType)] /\ expiry' \in [Key -> 0..Unknown]
    BY <1>1 DEF HearSignOut, TypeOK
  <2> QED
    BY <1>1, <2>2, <2>3, <2>4 DEF HearSignOut, TypeOK
<1>2. ASSUME NEW t \in Tab, HearSignIn(t)
      PROVE  TypeOK'
  <2>1. /\ calls[t] \in [Kinds -> CallType] /\ calls \in [Tab -> [Kinds -> CallType]]
        /\ cookie \in Key
    BY DEF TypeOK
  <2>2. calls' \in [Tab -> [Kinds -> CallType]]
    <3>1. [calls[t] EXCEPT !["join"] = Sent(cookie)] \in [Kinds -> CallType]
      BY <2>1
    <3>2. calls' = [calls EXCEPT ![t] = [calls[t] EXCEPT !["join"] = Sent(cookie)]]
      BY <1>2 DEF HearSignIn
    <3> QED
      BY <2>1, <3>1, <3>2
  <2>3. notices' \in [Tab -> Seq(NoticeType)]
    BY <1>2 DEF HearSignIn
  <2> QED
    BY <1>2, <2>2, <2>3 DEF HearSignIn, TypeOK
<1>3. ASSUME NEW s \in Session, EndElsewhere(s)
      PROVE  TypeOK'
  <2>1. session' \in [Session -> [state : {"unused", "live", "revoked"}, left : 0..Timeout]]
    BY <1>3, TimeoutAssumption DEF EndElsewhere, TypeOK
  <2> QED
    BY <1>3, <2>1 DEF EndElsewhere, TypeOK
<1>4. CASE Tick
  <2>1. session' \in [Session -> [state : {"unused", "live", "revoked"}, left : 0..Timeout]]
    <3>1. ASSUME NEW s \in Session
          PROVE  [session[s] EXCEPT !.left = IF @ > 0 THEN @ - 1 ELSE 0]
                    \in [state : {"unused", "live", "revoked"}, left : 0..Timeout]
      <4>1. session[s] \in [state : {"unused", "live", "revoked"}, left : 0..Timeout]
        BY DEF TypeOK
      <4>2. (IF session[s].left > 0 THEN session[s].left - 1 ELSE 0) \in 0..Timeout
        BY <4>1, TimeoutAssumption
      <4> QED
        BY <4>1, <4>2
    <3> QED
      BY <1>4, <3>1, Zenon DEF Tick
  <2>2. expiry' \in [Key -> 0..Unknown]
    <3>1. ASSUME NEW k \in Key
          PROVE  (IF expiry[k] \in 1..Timeout THEN expiry[k] - 1 ELSE expiry[k])
                    \in 0..Unknown
      <4>1. expiry[k] \in 0..Unknown
        BY DEF TypeOK
      <4> QED
        BY <4>1, TimeoutAssumption DEF Unknown
    <3> QED
      BY <1>4, <3>1, Zenon DEF Tick
  <2>3. activity' \in [Key -> 0..Timeout]
    <3>1. ASSUME NEW k \in Key
          PROVE  Youngest(activity[k] + 1, Timeout) \in 0..Timeout
      <4>1. activity[k] \in 0..Timeout
        BY DEF TypeOK
      <4> QED
        BY <4>1, TimeoutAssumption DEF Youngest
    <3> QED
      BY <1>4, <3>1, Zenon DEF Tick
  <2>4. tab' \in [Tab -> PageType]
    <3>1. ASSUME NEW t \in Tab
          PROVE  [tab[t] EXCEPT !.idle = Youngest(@ + 1, Timeout), !.refused = FALSE]
                    \in PageType
      <4>1. tab[t] \in PageType
        BY DEF TypeOK
      <4>2. Youngest(tab[t].idle + 1, Timeout) \in 0..Timeout
        BY <4>1, TimeoutAssumption DEF PageType, Youngest
      <4> QED
        BY <4>1, <4>2 DEF PageType
    <3> QED
      BY <1>4, <3>1, Zenon DEF Tick
  <2> QED
    BY <1>4, <2>1, <2>2, <2>3, <2>4, Zenon DEF Tick, TypeOK
<1> QED
  BY <1>1, <1>2, <1>3, <1>4 DEF Hear

LEMMA TypeStep ==
    ASSUME TypeOK, [Next]_vars
    PROVE  TypeOK'
<1>1. CASE UNCHANGED vars
  BY <1>1 DEF vars, TypeOK
<1> QED
  BY <1>1, UserActsType, ServeType, ReceiveType, EventsType DEF Next

LEMMA TypeInit == Init => TypeOK
<1> SUFFICES ASSUME Init PROVE TypeOK
  OBVIOUS
<1> USE KeysAreDistinct, CallTypes, TimeoutAssumption
<1>1. tab \in [Tab -> PageType]
  <2>1. [FreshPage EXCEPT !.booting = FALSE] \in PageType
    BY PageTypes DEF PageType
  <2> QED
    BY <2>1 DEF Init
<1>2. notices \in [Tab -> Seq(NoticeType)]
  BY DEF Init
<1>3. budget \in [{"inputs", "requests", "troubles"} -> Nat]
  BY BoundsAssumption DEF Init
<1>4. /\ session \in [Session -> [state : {"unused", "live", "revoked"}, left : 0..Timeout]]
      /\ expiry \in [Key -> 0..Unknown] /\ activity \in [Key -> 0..Timeout]
  BY DEF Init, Unknown
<1>5. calls \in [Tab -> [Kinds -> CallType]] /\ cookie \in Key
  BY DEF Init
<1> QED
  BY <1>1, <1>2, <1>3, <1>4, <1>5 DEF TypeOK

(* Whatever calls are lost, tabs reloaded and sessions ended elsewhere,    *)
(* the pages, the calls that are out, the storage and the sessions keep    *)
(* the shapes that client.js, useAuth and session_service.py give them.    *)
THEOREM TypeCorrect == Spec => []TypeOK
  BY TypeInit, TypeStep, PTL DEF Spec

-----------------------------------------------------------------------------
(* Shared activity. *)

LEMMA StampsStep ==
    ASSUME TypeOK, StampsAreYounger, [Next]_vars
    PROVE  StampsAreYounger'
<1> USE TimeoutAssumption DEF SignedIn
<1>1. /\ activity \in [Key -> 0..Timeout]
      /\ \A t \in Tab : /\ tab[t] \in PageType /\ tab[t].hook \in Key
                        /\ tab[t].idle \in 0..Timeout
      /\ tab \in [Tab -> PageType]
  BY DEF TypeOK, PageType
<1>2. ASSUME NEW t \in Tab,
             \A u \in Tab \ {t} : tab'[u] = tab[u],
             \/ tab'[t].user = None
             \/ tab[t].user # None /\ tab'[t].hook = tab[t].hook /\ tab'[t].idle = tab[t].idle
             \/ activity'[tab'[t].hook] = 0 /\ tab'[t].idle \in 0..Timeout,
             \A k \in Key : activity'[k] = activity[k] \/ activity'[k] = 0
      PROVE  StampsAreYounger'
  BY <1>1, <1>2 DEF StampsAreYounger
<1>3. UNCHANGED <<tab, activity>> => StampsAreYounger'
  BY DEF StampsAreYounger
<1>4. ASSUME NEW t \in Tab, SignIn(t) \/ SingleSignOn(t) \/ Reload(t) \/ Leave(t)
      PROVE  StampsAreYounger'
  <2>1. \A u \in Tab \ {t} : tab'[u] = tab[u]
    BY <1>1, <1>4 DEF SignIn, SingleSignOn, Reload, Leave
  <2>2. UNCHANGED activity
    BY <1>4 DEF SignIn, SingleSignOn, Reload, Leave
  <2>3. tab'[t].user = None
    <3>1. tab[t] \in PageType
      BY <1>1
    <3>2. CASE SignIn(t)
      BY <1>1, <3>1, <3>2 DEF SignIn, PageType
    <3>3. CASE SingleSignOn(t) \/ Reload(t)
      BY <1>1, <3>3 DEF SingleSignOn, Reload, FreshPage
    <3>4. CASE Leave(t)
      <4>1. tab'[t] = [Locked(tab[t]) EXCEPT !.user = None]
        BY <1>1, <3>4 DEF Leave
      <4> QED
        BY <3>1, <4>1 DEF Locked, PageType
    <3> QED
      BY <1>4, <3>2, <3>3, <3>4
  <2> QED
    BY <1>2, <2>1, <2>2, <2>3
<1>5. ASSUME NEW t \in Tab, Input(t)
      PROVE  StampsAreYounger'
  <2>1. /\ tab'[t].hook = tab[t].hook /\ tab'[t].idle = 0
        /\ \A u \in Tab \ {t} : tab'[u] = tab[u]
    BY <1>1, <1>5 DEF Input, PageType
  <2>2. activity' = [activity EXCEPT ![tab[t].hook] = 0]
    BY <1>5 DEF Input, Stamp
  <2> QED
    BY <1>1, <1>2, <2>1, <2>2
<1>6. ASSUME NEW t \in Tab, NEW p \in PageType, NEW a \in Session, NEW k \in Key,
             tab'[t].user = Watched(p, a, k).user,
             tab'[t].hook = Watched(p, a, k).hook,
             tab'[t].idle = Watched(p, a, k).idle,
             p.user = tab[t].user, p.hook = tab[t].hook, p.idle = tab[t].idle,
             \/ Continues(p, k) /\ UNCHANGED activity
             \/ Stamp(k),
             \A u \in Tab \ {t} : tab'[u] = tab[u]
      PROVE  StampsAreYounger'
  <2>1. CASE Continues(p, k)
    <3>1. tab'[t].hook = tab[t].hook /\ tab'[t].idle = tab[t].idle /\ tab[t].user # None
      BY <1>6, <2>1 DEF Watched, Continues, PageType
    <3> QED
      BY <1>1, <1>2, <1>6, <3>1 DEF Stamp
  <2>2. CASE ~Continues(p, k)
    <3>1. tab'[t].hook = k /\ tab'[t].idle = 0
      BY <1>6, <2>2 DEF Watched, PageType
    <3>2. activity' = [activity EXCEPT ![k] = 0]
      BY <1>6, <2>2 DEF Stamp
    <3> QED
      BY <1>1, <1>2, <1>6, <3>1, <3>2
  <2> QED
    BY <2>1, <2>2
<1>7. ASSUME NEW t \in Tab, Receive(t)
      PROVE  StampsAreYounger'
  <2>0. Session \subseteq Key
    BY KeysAreDistinct
  <2>1. CASE ReceiveBoot(t)
    <3> DEFINE a == calls[t]["boot"].answer
    <3>1. CASE UNCHANGED activity /\ tab' = [tab EXCEPT ![t].booting = FALSE]
      BY <1>1, <1>2, <3>1 DEF PageType, StampsAreYounger
    <3>2. CASE /\ a \in Session
               /\ tab' = [tab EXCEPT ![t] =
                     [Watched(tab[t], a, a) EXCEPT !.booting = FALSE, !.coord = a]]
               /\ IF Continues(tab[t], a) THEN UNCHANGED activity ELSE Stamp(a)
      <4>1. Watched(tab[t], a, a) \in PageType
        BY <1>1, <2>0, <3>2, PageTypes
      <4> QED
        BY <1>1, <1>6, <2>0, <3>2, <4>1 DEF PageType
    <3> QED
      BY <2>1, <3>1, <3>2 DEF ReceiveBoot
  <2>2. CASE ReceiveJoin(t)
    <3> DEFINE a == calls[t]["join"].answer
    <3>1. CASE UNCHANGED <<tab, activity>>
      BY <1>3, <3>1
    <3>2. CASE /\ a \in Session
               /\ tab' = [tab EXCEPT ![t] =
                     [Watched(tab[t], a, a) EXCEPT !.coord = a, !.locked = FALSE]]
               /\ IF Continues(tab[t], a) THEN UNCHANGED activity ELSE Stamp(a)
      <4>1. Watched(tab[t], a, a) \in PageType
        BY <1>1, <2>0, <3>2, PageTypes
      <4> QED
        BY <1>1, <1>6, <2>0, <3>2, <4>1 DEF PageType
    <3> QED
      BY <2>2, <3>1, <3>2 DEF ReceiveJoin
  <2>3. CASE ReceiveLogin(t)
    <3> DEFINE a == calls[t]["login"].answer
    <3>1. CASE UNCHANGED <<tab, activity>>
      BY <1>3, <3>1
    <3>2. CASE /\ a \in Session
               /\ tab' = [tab EXCEPT ![t] = Watched(WithToken(@, a), a, @.hook)]
               /\ Stamp(tab[t].hook)
      <4>1. WithToken(tab[t], a) \in PageType
        BY <1>1, <3>2, PageTypes
      <4>2. /\ WithToken(tab[t], a).user = tab[t].user
            /\ WithToken(tab[t], a).hook = tab[t].hook
            /\ WithToken(tab[t], a).idle = tab[t].idle
        BY <1>1 DEF WithToken, PageType
      <4>3. tab'[t] = Watched(WithToken(tab[t], a), a, tab[t].hook)
            /\ \A u \in Tab \ {t} : tab'[u] = tab[u]
        BY <1>1, <3>2
      <4> QED
        BY <1>1, <1>6, <3>2, <4>1, <4>2, <4>3
    <3> QED
      BY <2>3, <3>1, <3>2 DEF ReceiveLogin
  <2>4. CASE ReceiveRefresh(t)
    <3>1. /\ UNCHANGED activity
          /\ \/ \E a \in Session : tab' = [tab EXCEPT ![t] = WithToken(tab[t], a)]
             \/ \E b : tab' = [tab EXCEPT ![t].refused = b]
      BY <2>4 DEF ReceiveRefresh
    <3>2. /\ tab'[t].user = tab[t].user /\ tab'[t].hook = tab[t].hook
          /\ tab'[t].idle = tab[t].idle
          /\ \A u \in Tab \ {t} : tab'[u] = tab[u]
      BY <1>1, <3>1, Zenon DEF WithToken, PageType
    <3> QED
      BY <1>2, <3>1, <3>2
  <2>5. CASE ReceiveData(t)
    <3>1. UNCHANGED activity /\ (UNCHANGED tab \/ tab' = [tab EXCEPT ![t] = FreshPage])
      BY <2>5 DEF ReceiveData
    <3> QED
      BY <1>1, <1>2, <1>3, <3>1 DEF FreshPage
  <2>6. CASE LoginRefused(t)
    <3>1. UNCHANGED activity /\ tab' = [tab EXCEPT ![t] = FreshPage]
      BY <2>6 DEF LoginRefused
    <3> QED
      BY <1>1, <1>2, <1>3, <3>1 DEF FreshPage
  <2> QED
    BY <1>7, <2>1, <2>2, <2>3, <2>4, <2>5, <2>6 DEF Receive
<1>8. ASSUME NEW t \in Tab, Serve(t) \/ KeepAlive(t) \/ Request(t)
                            \/ \E k \in Kinds : Lose(t, k)
      PROVE  StampsAreYounger'
  BY <1>3, <1>8 DEF Serve, ServeLogin, ServeRefresh, ServeLogout, ServeRead,
                    KeepAlive, Request, Lose
<1>9. ASSUME NEW t \in Tab, Hear(t)
      PROVE  StampsAreYounger'
  <2>1. UNCHANGED activity
    BY <1>9 DEF Hear, HearSignIn, HearSignOut
  <2>2. \/ UNCHANGED tab
        \/ tab' = [tab EXCEPT ![t] = [Locked(tab[t]) EXCEPT !.user = None]]
    BY <1>9 DEF Hear, HearSignIn, HearSignOut
  <2> QED
    BY <1>1, <1>2, <1>3, <2>1, <2>2, Zenon DEF Locked, PageType
<1>10. CASE Tick
  <2>1. ASSUME NEW t \in Tab
        PROVE  /\ tab'[t].user = tab[t].user /\ tab'[t].hook = tab[t].hook
               /\ tab'[t].idle = Youngest(tab[t].idle + 1, Timeout)
    BY <1>1, <1>10, Zenon DEF Tick, PageType
  <2>2. \A k \in Key : activity'[k] = Youngest(activity[k] + 1, Timeout)
    BY <1>10, Zenon DEF Tick
  <2> QED
    BY <1>1, <2>1, <2>2 DEF StampsAreYounger, Youngest
<1>11. CASE UNCHANGED vars \/ \E s \in Session : EndElsewhere(s)
  BY <1>3, <1>11 DEF vars, EndElsewhere
<1> QED
  BY <1>4, <1>5, <1>7, <1>8, <1>9, <1>10, <1>11
  DEF Next, UserActs, SignOut, TimeOut

(* A timer only times a tab out when no tab that works under the same key  *)
(* had an input within the timeout (readActivity, sessionActivity.js): the *)
(* stamp it reads is never older than an input of any of them.             *)
THEOREM TabsShareActivity == Spec => []TabsOfOneKeyShareActivity
<1>1. Init => StampsAreYounger
  BY DEF Init, StampsAreYounger, SignedIn, FreshPage
<1>2. TypeOK /\ StampsAreYounger /\ [Next]_vars => StampsAreYounger'
  BY StampsStep
<1>3. TypeOK /\ StampsAreYounger => TabsOfOneKeyShareActivity
  <2> SUFFICES ASSUME TypeOK, StampsAreYounger, NEW t \in Tab, NEW u \in Tab,
                      TimedOut(t), SignedIn(u), tab[u].hook = tab[t].hook
               PROVE  tab[u].idle >= Timeout
    BY DEF TabsOfOneKeyShareActivity
  <2>1. activity[tab[u].hook] <= tab[u].idle
    BY DEF StampsAreYounger
  <2>2. /\ activity[tab[t].hook] \in 0..Timeout /\ tab[t].idle \in 0..Timeout
        /\ tab[u].idle \in 0..Timeout
    BY DEF TypeOK, PageType
  <2>3. activity[tab[t].hook] >= Timeout
    BY <2>2, TimeoutAssumption DEF TimedOut, Age, Youngest
  <2> QED
    BY <2>1, <2>2, <2>3, TimeoutAssumption
<1> QED
  BY <1>1, <1>2, <1>3, TypeCorrect, PTL DEF Spec

-----------------------------------------------------------------------------
(* Sliding expiry.  All steps of the tabs and of the server fall in one    *)
(* tick: what they do to the sessions' rows makes these fresh.             *)

Acts(t) ==
    \/ UserActs(t) \/ TimeOut(t) \/ KeepAlive(t)
    \/ Serve(t) \/ Receive(t) \/ Hear(t)
    \/ \E k \in Kinds : Lose(t, k)

LEMMA RowsAreFresh ==
    ASSUME TypeOK, NEW s \in Session,
           (\E t \in Tab : Acts(t)) \/ (\E x \in Session : EndElsewhere(x))
    PROVE  \/ session'[s] = session[s]
           \/ session'[s].state # "unused" /\ Fresh(s)'
<1> USE KeysAreDistinct
<1>1. session \in [Session -> [state : {"unused", "live", "revoked"}, left : 0..Timeout]]
  BY DEF TypeOK
<1>2. ASSUME NEW x \in Session,
             \/ session' = [session EXCEPT ![x] = [state |-> "live", left |-> Timeout]]
             \/ session' = [session EXCEPT ![x] = [state |-> "revoked", left |-> 0]]
             \/ Live(x) /\ session' = [session EXCEPT ![x].left = Timeout]
      PROVE  \/ session'[s] = session[s]
             \/ session'[s].state # "unused" /\ Fresh(s)'
  <2>1. CASE x # s
    BY <1>1, <1>2, <2>1
  <2>2. CASE x = s
    BY <1>1, <1>2, <2>2 DEF Fresh, Live
  <2> QED
    BY <2>1, <2>2
<1>3. CASE \E x \in Session : EndElsewhere(x)
  BY <1>2, <1>3 DEF EndElsewhere
<1>4. ASSUME NEW t \in Tab, Acts(t), session' # session
      PROVE  \E x \in Session :
               \/ session' = [session EXCEPT ![x] = [state |-> "live", left |-> Timeout]]
               \/ session' = [session EXCEPT ![x] = [state |-> "revoked", left |-> 0]]
               \/ Live(x) /\ session' = [session EXCEPT ![x].left = Timeout]
  <2>1. CASE UserActs(t) \/ TimeOut(t) \/ KeepAlive(t)
    BY <1>4, <2>1 DEF UserActs, SignIn, SingleSignOn, Reload, SignOut, Leave, Input,
                      Request, TimeOut, KeepAlive
  <2>2. \A k \in Kinds : calls[t][k].with # None => calls[t][k].with \in Session
    <3>1. \A k \in Kinds : calls[t][k].with \in Key
      BY AnswerTypes DEF CallType
    <3> QED
      BY <3>1
  <2>3. CASE ServeLogin(t)
    BY <1>4, <2>3 DEF ServeLogin
  <2>4. CASE ServeRefresh(t)
    BY <1>4, <2>2, <2>4 DEF ServeRefresh, Live, Kinds
  <2>5. CASE \E k \in Kinds : ServeLogout(t, k) \/ ServeRead(t, k)
    BY <1>4, <2>2, <2>5 DEF ServeLogout, ServeRead
  <2>6. CASE Receive(t) \/ Hear(t) \/ \E k \in Kinds : Lose(t, k)
    BY <1>4, <2>6 DEF Receive, ReceiveBoot, ReceiveJoin, ReceiveLogin, LoginRefused,
                      ReceiveRefresh, ReceiveData, Hear, HearSignIn, HearSignOut, Lose
  <2> QED
    BY <1>4, <2>1, <2>3, <2>4, <2>5, <2>6 DEF Acts, Serve
<1> QED
  BY <1>2, <1>3, <1>4

(* The cookie stays, or names a session that is fresh. *)
LEMMA CookieMoves ==
    ASSUME TypeOK, SignInsAreFresh, NEW t \in Tab, Acts(t)
    PROVE  \/ cookie' = cookie
           \/ /\ cookie' \in Session
              /\ session'[cookie'].state # "unused"
              /\ Fresh(cookie)'
<1> USE KeysAreDistinct
<1>1. session \in [Session -> [state : {"unused", "live", "revoked"}, left : 0..Timeout]]
  BY DEF TypeOK
<1>2. CASE SingleSignOn(t)
  BY <1>1, <1>2 DEF SingleSignOn, Fresh
<1>3. CASE ReceiveLogin(t)
  BY <1>3 DEF ReceiveLogin, Ready, SignInsAreFresh, Fresh, Live
<1>4. CASE ~SingleSignOn(t) /\ ~ReceiveLogin(t)
  BY <1>4 DEF Acts, UserActs, SignIn, Reload, SignOut, Leave, Input, Request, TimeOut,
              KeepAlive, Serve, ServeLogin, ServeRefresh, ServeLogout, ServeRead,
              Receive, ReceiveBoot, ReceiveJoin, LoginRefused, ReceiveRefresh, ReceiveData,
              Hear, HearSignIn, HearSignOut, Lose
<1> QED
  BY <1>2, <1>3, <1>4

(* What one step makes of a call c: it goes on, ends, is sent with the     *)
(* cookie, fails, or is answered by what the server knows of its session.  *)
Follows(c, d) ==
    \/ d.phase = c.phase /\ d.with = c.with /\ d.answer = c.answer
    \/ d.phase = "none"
    \/ d.phase = "sent" /\ d.with = cookie'
    \/ d.phase = "answered" /\ d.answer = Lost
    \/ /\ c.phase = "sent" /\ d.phase = "answered"
       /\ d.answer = IF Live(c.with) THEN c.with ELSE None

LEMMA StaleFollows ==
    ASSUME NEW cs \in [Kinds -> CallType], NEW k \in Kinds
    PROVE  Follows(cs[k], Stale(cs)[k])
  BY DEF Follows, Stale, CallType

LEMMA CallsFollow ==
    ASSUME TypeOK, NEW t \in Tab, Acts(t), NEW u \in Tab, NEW k \in Reading
    PROVE  Follows(calls[u][k], calls'[u][k])
<1>1. /\ calls \in [Tab -> [Kinds -> CallType]] /\ calls[t] \in [Kinds -> CallType]
      /\ \A j \in Kinds : calls[t][j] \in CallType
      /\ k \in Kinds /\ k \notin {"login", "logout", "undo", "data"}
  BY DEF TypeOK, Reading, Kinds
<1>2. /\ NoCall.phase = "none"
      /\ \A s \in Key : Sent(s).phase = "sent" /\ Sent(s).with = s
      /\ Follows(calls[u][k], calls[u][k])
      /\ Follows(calls[t][k], NoCall)
      /\ cookie' = cookie => Follows(calls[t][k], Sent(cookie))
  BY <1>1 DEF NoCall, Sent, Follows
<1>3. CASE u # t
  <2>1. CASE Leave(t)
    BY <1>1, <1>2, <1>3, <2>1 DEF Leave
  <2>2. CASE UserActs(t) /\ ~SignOut(t)
    BY <1>1, <1>2, <1>3, <2>2 DEF UserActs, SignIn, SingleSignOn, Reload, Input, Request
  <2>3. CASE KeepAlive(t) \/ Hear(t)
    BY <1>1, <1>2, <1>3, <2>3 DEF KeepAlive, Hear, HearSignIn, HearSignOut
  <2>4. CASE Serve(t) \/ \E j \in Kinds : Lose(t, j)
    BY <1>1, <1>2, <1>3, <2>4 DEF Serve, ServeLogin, ServeRefresh, ServeLogout, ServeRead,
                                  Lose, Answered, Done
  <2>5. CASE Receive(t)
    BY <1>1, <1>2, <1>3, <2>5 DEF Receive, ReceiveBoot, ReceiveJoin, ReceiveLogin,
                                  LoginRefused, ReceiveRefresh, ReceiveData, Done
  <2> QED
    BY <2>1, <2>2, <2>3, <2>4, <2>5 DEF Acts, UserActs, SignOut, TimeOut
<1>4. CASE u = t
  <2>1. CASE SignIn(t) \/ Leave(t) \/ HearSignOut(t)
    <3>1. \/ calls'[t] = calls[t]
          \/ calls'[t] = [Stale(calls[t]) EXCEPT !["login"] = Sent(None)]
          \/ calls'[t] = [Stale(calls[t]) EXCEPT !["data"] = NoCall]
          \/ \E c : calls'[t] = [Stale(calls[t]) EXCEPT !["data"] = NoCall, !["logout"] = c]
      BY <1>1, <2>1 DEF SignIn, Leave, HearSignOut
    <3>2. calls'[t][k] = calls[t][k] \/ calls'[t][k] = Stale(calls[t])[k]
      <4>1. Stale(calls[t]) \in [Kinds -> CallType]
        BY <1>1, StaleType
      <4> QED
        BY <1>1, <3>1, <4>1
    <3> QED
      BY <1>1, <1>2, <1>4, <3>2, StaleFollows
  <2>2. CASE SingleSignOn(t)
    <3>1. calls'[t][k] = NoCall \/ calls'[t][k] = Sent(cookie')
      BY <1>1, <2>2 DEF SingleSignOn
    <3>2. cookie' \in Key
      BY <2>2, KeysAreDistinct DEF SingleSignOn
    <3> QED
      BY <1>2, <1>4, <3>1, <3>2 DEF Follows
  <2>3. ASSUME cookie' = cookie,
               \/ calls'[t][k] = calls[t][k] \/ calls'[t][k] = NoCall
               \/ calls'[t][k] = Sent(cookie)
        PROVE  Follows(calls[u][k], calls'[u][k])
    BY <1>2, <1>4, <2>3
  <2>4. CASE Reload(t) \/ KeepAlive(t) \/ Input(t) \/ HearSignIn(t)
    <3>1. cookie' = cookie
      BY <2>4 DEF Reload, KeepAlive, Input, HearSignIn
    <3> QED
      BY <1>1, <2>3, <2>4, <3>1 DEF Reload, Loading, KeepAlive, Input, Refreshing, HearSignIn
  <2>5. CASE Request(t)
    <3>1. \E mine \in {calls[t], Refreshing(t, calls[t])}, c \in CallType :
             calls' = [calls EXCEPT ![t] = [mine EXCEPT !["data"] = c]]
      <4>1. Sent(cookie) \in CallType /\ [NoCall EXCEPT !.phase = "waiting"] \in CallType
        <5>1. cookie \in Key
          BY DEF TypeOK
        <5> QED
          BY <5>1, CallTypes DEF CallType
      <4> QED
        BY <2>5, <4>1 DEF Request
    <3>2. Refreshing(t, calls[t]) \in [Kinds -> CallType]
      BY <1>1, RefreshingType
    <3>3. calls'[t][k] = calls[t][k] \/ calls'[t][k] = Refreshing(t, calls[t])[k]
      BY <1>1, <3>1, <3>2
    <3>4. Refreshing(t, calls[t])[k] = calls[t][k] \/ Refreshing(t, calls[t])[k] = Sent(cookie)
      BY <1>1 DEF Refreshing
    <3>5. cookie' = cookie
      BY <2>5 DEF Request
    <3> QED
      BY <2>3, <3>3, <3>4, <3>5
  <2>6. ASSUME NEW j \in Kinds, NEW a, Answered(t, j, a),
               \/ j \notin Reading \/ a = Lost
               \/ calls[t][j].phase = "sent"
                  /\ a = IF Live(calls[t][j].with) THEN calls[t][j].with ELSE None
        PROVE  Follows(calls[u][k], calls'[u][k])
    <3>1. calls'[t][k] = IF j = k THEN [calls[t][k] EXCEPT !.phase = "answered", !.answer = a]
                         ELSE calls[t][k]
      BY <1>1, <2>6 DEF Answered
    <3>2. CASE j = k
      BY <1>1, <1>4, <2>6, <3>1, <3>2 DEF Follows, CallType
    <3>3. CASE j # k
      BY <1>2, <1>4, <3>1, <3>3
    <3> QED
      BY <3>2, <3>3
  <2>7. ASSUME NEW j \in Kinds, Done(t, j)
        PROVE  Follows(calls[u][k], calls'[u][k])
    BY <1>1, <1>2, <1>4, <2>7 DEF Done
  <2>8. CASE Serve(t)
    <3>1. "login" \in Kinds \ Reading /\ "refresh" \in Kinds
      BY DEF Kinds, Reading
    <3> QED
      BY <2>6, <2>7, <2>8, <3>1 DEF Serve, ServeLogin, ServeRefresh, ServeLogout, ServeRead
  <2>9. CASE \E j \in Kinds : Lose(t, j)
    BY <2>6, <2>7, <2>9 DEF Lose
  <2>10. CASE ReceiveBoot(t) \/ ReceiveJoin(t)
    BY <2>7, <2>10 DEF ReceiveBoot, ReceiveJoin, Kinds
  <2>11. CASE ReceiveLogin(t)
    <3>1. \E c : calls' = [calls EXCEPT ![t] = [calls[t] EXCEPT !["login"] = NoCall,
                                                                !["undo"] = c]]
      BY <2>11 DEF ReceiveLogin
    <3> QED
      BY <1>1, <1>2, <1>4, <3>1
  <2>12. CASE ReceiveRefresh(t)
    <3>1. \E c : calls' = [calls EXCEPT ![t] =
                             [calls[t] EXCEPT !["refresh"] = NoCall, !["data"] = c]]
      BY <2>12, RefreshReleases
    <3> QED
      BY <1>1, <1>2, <1>4, <3>1
  <2>13. CASE ReceiveData(t)
    <3>1. /\ cookie' = cookie
          /\ \/ calls' = [calls EXCEPT ![t] = Loading]
             \/ \E c : calls' = [calls EXCEPT ![t]["data"] = c]
      BY <2>13 DEF ReceiveData
    <3>2. CASE calls' = [calls EXCEPT ![t] = Loading]
      BY <1>1, <2>3, <3>1, <3>2 DEF Loading
    <3>3. CASE \E c : calls' = [calls EXCEPT ![t]["data"] = c]
      BY <1>1, <1>2, <1>4, <3>3
    <3> QED
      BY <3>1, <3>2, <3>3
  <2>14. CASE LoginRefused(t)
    <3>1. cookie' = cookie /\ calls' = [calls EXCEPT ![t] = Loading]
      BY <2>14 DEF LoginRefused
    <3> QED
      BY <1>1, <2>3, <3>1 DEF Loading
  <2> QED
    BY <2>1, <2>2, <2>4, <2>5, <2>8, <2>9, <2>10, <2>11, <2>12, <2>13, <2>14
    DEF Acts, UserActs, SignOut, TimeOut, Receive, Hear
<1> QED
  BY <1>3, <1>4

(* A sign-in that is answered was so before, or creates its session now.   *)
LEMMA LoginsFollow ==
    ASSUME TypeOK, NEW t \in Tab, Acts(t), NEW u \in Tab, NEW a \in Session,
           calls'[u]["login"].phase = "answered", calls'[u]["login"].answer = a
    PROVE  \/ calls[u]["login"].phase = "answered" /\ calls[u]["login"].answer = a
           \/ session'[a].state # "unused" /\ Fresh(a)'
<1>1. /\ calls \in [Tab -> [Kinds -> CallType]] /\ calls[t] \in [Kinds -> CallType]
      /\ \A k \in Kinds : calls[t][k] \in CallType
      /\ "login" \in Kinds
      /\ session \in [Session -> [state : {"unused", "live", "revoked"}, left : 0..Timeout]]
  <2>1. /\ calls \in [Tab -> [Kinds -> CallType]]
        /\ session \in [Session -> [state : {"unused", "live", "revoked"}, left : 0..Timeout]]
    BY DEF TypeOK
  <2> QED
    BY <2>1 DEF Kinds
<1>0. a # None /\ a # Lost
  BY KeysAreDistinct, NoneAssumption
<1>2. NoCall.phase = "none" /\ \A s \in Key : Sent(s).phase = "sent"
  BY DEF NoCall, Sent
<1>3. cookie \in Key /\ None \in Key /\ Session \subseteq Key
  BY DEF TypeOK, Key
<1>4. CASE ServeLogin(t)
  <2>1. CASE u = t
    <3>1. calls'[t]["login"].answer = a => session' = [session EXCEPT ![a] =
                                               [state |-> "live", left |-> Timeout]]
      <4>1. ASSUME NEW x, Answered(t, "login", x)
            PROVE  calls'[t]["login"].answer = x
        BY <1>1, <4>1 DEF Answered, CallType
      <4> QED
        BY <1>0, <1>4, <4>1 DEF ServeLogin
    <3> QED
      BY <1>1, <2>1, <3>1 DEF Fresh
  <2>2. CASE u # t
    BY <1>1, <1>4, <2>2 DEF ServeLogin, Answered
  <2> QED
    BY <2>1, <2>2
<1>5. CASE ~ServeLogin(t)
  <2>1. \/ calls'[u]["login"].phase # "answered"
        \/ calls'[u]["login"].answer = Lost
        \/ /\ calls'[u]["login"].phase = calls[u]["login"].phase
           /\ calls'[u]["login"].answer = calls[u]["login"].answer
    <3>1. CASE SignIn(t) \/ Leave(t) \/ HearSignOut(t)
      <4>1. \/ calls' = calls
            \/ calls' = [calls EXCEPT ![t] = [Stale(calls[t]) EXCEPT !["login"] = Sent(None)]]
            \/ calls' = [calls EXCEPT ![t] = [Stale(calls[t]) EXCEPT !["data"] = NoCall]]
            \/ \E c : calls' = [calls EXCEPT ![t] =
                         [Stale(calls[t]) EXCEPT !["data"] = NoCall, !["logout"] = c]]
        BY <3>1 DEF SignIn, Leave, HearSignOut
      <4>2. Stale(calls[t]) \in [Kinds -> CallType]
        BY <1>1, StaleType
      <4>3. \/ calls'[u]["login"] = calls[u]["login"]
            \/ calls'[u]["login"] = Sent(None)
            \/ u = t /\ calls'[u]["login"] = Stale(calls[t])["login"]
        BY <1>1, <4>1, <4>2
      <4>4. /\ Stale(calls[t])["login"].phase = calls[t]["login"].phase
            /\ Stale(calls[t])["login"].answer = calls[t]["login"].answer
        BY <1>1 DEF Stale, CallType
      <4> QED
        BY <1>2, <1>3, <4>3, <4>4
    <3>2. CASE SingleSignOn(t)
      BY <1>1, <1>2, <3>2 DEF SingleSignOn
    <3>3. CASE Reload(t) \/ KeepAlive(t) \/ Input(t) \/ HearSignIn(t)
      <4>1. CASE Reload(t)
        BY <1>1, <1>2, <1>3, <4>1 DEF Reload, Loading
      <4>2. CASE KeepAlive(t) \/ Input(t) \/ HearSignIn(t)
        <5>1. \E j \in {"refresh", "join"} : \E c :
                 \/ calls' = [calls EXCEPT ![t] = [calls[t] EXCEPT ![j] = c]]
                 \/ calls' = [calls EXCEPT ![t] = calls[t]]
          BY <1>1, <4>2 DEF KeepAlive, Input, Refreshing, HearSignIn
        <5> QED
          BY <1>1, <5>1
      <4> QED
        BY <3>3, <4>1, <4>2
    <3>4. CASE Request(t)
      <4>1. \E mine \in {calls[t], Refreshing(t, calls[t])} : \E c :
               calls' = [calls EXCEPT ![t] = [mine EXCEPT !["data"] = c]]
        BY <3>4 DEF Request
      <4>2. Refreshing(t, calls[t]) \in [Kinds -> CallType]
        BY <1>1, RefreshingType
      <4>3. Refreshing(t, calls[t])["login"] = calls[t]["login"]
        BY <1>1 DEF Refreshing
      <4> QED
        BY <1>1, <4>1, <4>2, <4>3
    <3>5. CASE Serve(t)
      <4>1. \E k \in Kinds : k # "login" /\ (Done(t, k) \/ \E x : Answered(t, k, x))
        BY <1>5, <3>5 DEF Serve, ServeRefresh, ServeLogout, ServeRead, Kinds
      <4> QED
        BY <1>1, <1>2, <4>1 DEF Done, Answered
    <3>6. CASE \E k \in Kinds : Lose(t, k)
      <4> PICK k \in Kinds : Done(t, k) \/ Answered(t, k, Lost)
        BY <3>6 DEF Lose
      <4>1. CASE Done(t, k)
        BY <1>1, <1>2, <4>1 DEF Done
      <4>2. CASE Answered(t, k, Lost)
        BY <1>1, <4>2 DEF Answered, CallType
      <4> QED
        BY <4>1, <4>2
    <3>7. CASE ReceiveBoot(t) \/ ReceiveJoin(t)
      BY <1>1, <1>2, <3>7 DEF ReceiveBoot, ReceiveJoin, Done
    <3>8. CASE ReceiveLogin(t)
      <4>1. \E c : calls' = [calls EXCEPT ![t] = [calls[t] EXCEPT !["login"] = NoCall,
                                                                  !["undo"] = c]]
        BY <3>8 DEF ReceiveLogin
      <4> QED
        BY <1>1, <1>2, <4>1
    <3>9. CASE ReceiveRefresh(t)
      <4>1. \E c : calls' = [calls EXCEPT ![t] =
                               [calls[t] EXCEPT !["refresh"] = NoCall, !["data"] = c]]
        BY <3>9, RefreshReleases
      <4> QED
        BY <1>1, <1>2, <4>1
    <3>10. CASE ReceiveData(t)
      <4>1. \/ calls' = [calls EXCEPT ![t] = Loading]
            \/ \E c : calls' = [calls EXCEPT ![t]["data"] = c]
        BY <3>10 DEF ReceiveData
      <4>2. Loading \in [Kinds -> CallType] /\ Loading["login"] = NoCall
        <5>1. NoCall \in CallType /\ Sent(cookie) \in CallType
          BY <1>3, CallTypes
        <5> QED
          BY <1>1, <5>1 DEF Loading
      <4>3. calls' = [calls EXCEPT ![t] = Loading] => calls'[u]["login"] \in {NoCall, calls[u]["login"]}
        BY <1>1, <4>2
      <4>4. (\E c : calls' = [calls EXCEPT ![t]["data"] = c]) => calls'[u]["login"] = calls[u]["login"]
        BY <1>1
      <4> QED
        BY <1>2, <4>1, <4>3, <4>4, Zenon
    <3>11. CASE LoginRefused(t)
      <4>1. calls' = [calls EXCEPT ![t] = Loading]
        BY <3>11 DEF LoginRefused
      <4> QED
        BY <1>1, <1>2, <1>3, <4>1 DEF Loading
    <3> QED
      BY <1>5, <3>1, <3>2, <3>3, <3>4, <3>5, <3>6, <3>7, <3>8, <3>9, <3>10, <3>11
      DEF Acts, UserActs, SignOut, TimeOut, Receive, Hear
  <2> QED
    BY <1>0, <1>1, <2>1
<1> QED
  BY <1>4, <1>5

(* A page shows a user only when it is unlocked and knows its session; it  *)
(* takes a refusal from its own refresh; its idle time starts over or goes *)
(* on.                                                                     *)
LEMMA PagesFollow ==
    ASSUME TypeOK, ShownIsUnlocked, NEW t \in Tab, Acts(t), NEW u \in Tab
    PROVE  /\ tab'[u].user # None => ~tab'[u].locked /\ tab'[u].coord \in Session
           /\ tab'[u].refused =>
                \/ tab[u].refused
                \/ /\ calls[u]["refresh"].phase = "answered"
                   /\ calls[u]["refresh"].answer = None
           /\ tab'[u].idle = tab[u].idle \/ tab'[u].idle = 0
<1>1. tab \in [Tab -> PageType] /\ tab[t] \in PageType
  BY DEF TypeOK
<1>2. tab[u].user # None => ~tab[u].locked /\ tab[u].coord \in Session
  BY DEF ShownIsUnlocked, SignedIn
<1>3. CASE tab'[u] = tab[u]
  BY <1>2, <1>3
<1>4. \A v \in Tab \ {t} : tab'[v] = tab[v]
  <2>1. tab' = tab \/ \E p : tab' = [tab EXCEPT ![t] = p]
    <3>1. CASE UserActs(t) \/ TimeOut(t) \/ KeepAlive(t) \/ Hear(t)
      BY <3>1 DEF UserActs, SignIn, SingleSignOn, Reload, SignOut, Leave, Input, Request,
                  TimeOut, KeepAlive, Hear, HearSignIn, HearSignOut
    <3>2. CASE Serve(t) \/ \E k \in Kinds : Lose(t, k)
      BY <3>2 DEF Serve, ServeLogin, ServeRefresh, ServeLogout, ServeRead, Lose
    <3>3. CASE Receive(t)
      BY <3>3 DEF Receive, ReceiveBoot, ReceiveJoin, ReceiveLogin, LoginRefused,
                  ReceiveRefresh, ReceiveData
    <3> QED
      BY <3>1, <3>2, <3>3 DEF Acts
  <2> QED
    BY <1>1, <2>1
<1>5. CASE u = t
  <2>1. CASE tab' = [tab EXCEPT ![t] = FreshPage]
    BY <1>1, <1>5, <2>1 DEF FreshPage
  <2>2. CASE SignIn(t)
    BY <1>1, <1>2, <1>5, <2>2 DEF SignIn, SignedIn, PageType
  <2>3. CASE tab' = [tab EXCEPT ![t] = [Locked(tab[t]) EXCEPT !.user = None]]
    BY <1>1, <1>5, <2>3 DEF Locked, PageType
  <2>4. CASE Input(t)
    BY <1>1, <1>2, <1>5, <2>4 DEF Input, PageType
  <2>5. CASE ReceiveBoot(t)
    <3>1. CASE tab' = [tab EXCEPT ![t].booting = FALSE]
      BY <1>1, <1>2, <1>5, <3>1 DEF PageType
    <3>2. CASE \E a \in Session :
                 /\ ~tab[t].locked
                 /\ tab' = [tab EXCEPT ![t] =
                       [Watched(tab[t], a, a) EXCEPT !.booting = FALSE, !.coord = a]]
      BY <1>1, <1>5, <3>2 DEF Watched, PageType
    <3> QED
      BY <2>5, <3>1, <3>2, Zenon DEF ReceiveBoot
  <2>6. CASE ReceiveJoin(t)
    BY <1>1, <1>2, <1>5, <2>6, Zenon DEF ReceiveJoin, Watched, PageType
  <2>7. CASE ReceiveLogin(t)
    <3>1. \/ tab' = tab
          \/ \E a \in Session :
                tab' = [tab EXCEPT ![t] = Watched(WithToken(tab[t], a), a, tab[t].hook)]
      BY <2>7 DEF ReceiveLogin
    <3> QED
      BY <1>1, <1>2, <1>5, <3>1, Zenon DEF Watched, WithToken, PageType
  <2>8. CASE ReceiveRefresh(t)
    <3>1. \/ \E a \in Session : tab' = [tab EXCEPT ![t] = WithToken(tab[t], a)]
          \/ /\ calls[t]["refresh"].phase = "answered"
             /\ tab' = [tab EXCEPT ![t].refused = (calls[t]["refresh"].answer = None)]
      BY <2>8 DEF ReceiveRefresh, Ready
    <3>2. CASE \E a \in Session : tab' = [tab EXCEPT ![t] = WithToken(tab[t], a)]
      BY <1>1, <1>2, <1>5, <3>2 DEF WithToken, PageType
    <3>3. CASE /\ calls[t]["refresh"].phase = "answered"
               /\ tab' = [tab EXCEPT ![t].refused = (calls[t]["refresh"].answer = None)]
      BY <1>1, <1>2, <1>5, <3>3, Zenon DEF PageType
    <3> QED
      BY <3>1, <3>2, <3>3, Zenon
  <2>9. CASE tab' = tab
    BY <1>3, <2>9
  <2>10. CASE UserActs(t) \/ TimeOut(t) \/ KeepAlive(t) \/ Hear(t)
    BY <2>1, <2>2, <2>3, <2>4, <2>9, <2>10
    DEF UserActs, SingleSignOn, Reload, SignOut, Leave, Request, TimeOut, KeepAlive,
        Hear, HearSignIn, HearSignOut
  <2>11. CASE Serve(t) \/ \E k \in Kinds : Lose(t, k)
    BY <2>9, <2>11 DEF Serve, ServeLogin, ServeRefresh, ServeLogout, ServeRead, Lose
  <2>12. CASE ReceiveData(t)
    BY <2>1, <2>9, <2>12 DEF ReceiveData
  <2>13. CASE LoginRefused(t)
    BY <2>1, <2>13 DEF LoginRefused
  <2> QED
    BY <2>5, <2>6, <2>7, <2>8, <2>10, <2>11, <2>12, <2>13 DEF Acts, Receive
<1> QED
  BY <1>3, <1>4, <1>5

(* The deadline stored under a key is kept, forgotten, or taken from the   *)
(* session that an answer names.                                           *)
LEMMA ExpiryFollows ==
    ASSUME TypeOK, NEW t \in Tab, Acts(t), NEW s \in Session
    PROVE  \/ expiry'[s] = expiry[s]
           \/ expiry'[s] = Unknown
           \/ /\ expiry'[s] = session[s].left
              /\ \/ \E k \in Reading : /\ calls[t][k].phase = "answered"
                                       /\ calls[t][k].answer = s
                 \/ /\ calls[t]["login"].phase = "answered" /\ calls[t]["login"].answer = s
                    /\ cookie' = s
<1>1. expiry \in [Key -> 0..Unknown] /\ s \in Key
  BY KeysAreDistinct DEF TypeOK
<1>2. expiry' = expiry \/ ClearExpiry(t) \/ Receive(t)
  <2>1. CASE UserActs(t) \/ TimeOut(t) \/ KeepAlive(t) \/ Hear(t)
    BY <2>1 DEF UserActs, SignIn, SingleSignOn, Reload, SignOut, Leave, Input, Request,
                TimeOut, KeepAlive, Hear, HearSignIn, HearSignOut
  <2>2. CASE Serve(t) \/ \E k \in Kinds : Lose(t, k)
    BY <2>2 DEF Serve, ServeLogin, ServeRefresh, ServeLogout, ServeRead, Lose
  <2> QED
    BY <2>1, <2>2 DEF Acts
<1>3. CASE expiry' = expiry
  BY <1>3
<1>4. CASE ClearExpiry(t)
  BY <1>1, <1>4 DEF ClearExpiry
<1>5. ASSUME NEW a \in Session, Remember(a)
      PROVE  expiry'[s] = expiry[s] \/ (s = a /\ expiry'[s] = session[s].left)
  BY <1>1, <1>5 DEF Remember
<1>6. CASE Receive(t)
  <2>1. CASE ReceiveBoot(t)
    BY <1>3, <1>5, <2>1 DEF ReceiveBoot, Ready, Reading
  <2>2. CASE ReceiveJoin(t)
    BY <1>3, <1>5, <2>2 DEF ReceiveJoin, Ready, Reading
  <2>3. CASE ReceiveLogin(t)
    BY <1>3, <1>5, <2>3 DEF ReceiveLogin, Ready
  <2>4. CASE ReceiveRefresh(t)
    BY <1>3, <1>5, <2>4 DEF ReceiveRefresh, Ready, Reading
  <2>5. CASE ReceiveData(t)
    BY <1>3, <1>4, <2>5 DEF ReceiveData
  <2>6. CASE LoginRefused(t)
    BY <1>4, <2>6 DEF LoginRefused
  <2> QED
    BY <1>6, <2>1, <2>2, <2>3, <2>4, <2>5, <2>6 DEF Receive
<1> QED
  BY <1>2, <1>3, <1>4, <1>6

(* Within one tick the invariant is kept: while the cookie's session is    *)
(* not fresh, neither its row nor the cookie has moved.                    *)
LEMMA SlidingActs ==
    ASSUME SlidingInv, TypeOK', NEW t \in Tab, Acts(t)
    PROVE  SlidingInv'
<1> USE KeysAreDistinct
<1>1. /\ TypeOK /\ ShownIsUnlocked /\ SignInsAreFresh /\ CallsAreAboutTheCookie
      /\ RefusedHasEnded /\ ExpiryIsSafe
  BY DEF SlidingInv
<1>2. ASSUME NEW s \in Session
      PROVE  session'[s] = session[s] \/ (session'[s].state # "unused" /\ Fresh(s)')
  BY <1>1, RowsAreFresh
<1>3. \/ cookie' = cookie
      \/ cookie' \in Session /\ session'[cookie'].state # "unused" /\ Fresh(cookie)'
  BY <1>1, CookieMoves
<1>4. cookie \in Key /\ cookie' \in Key
  BY <1>1 DEF TypeOK
<1>5. ~Fresh(cookie)' => /\ cookie' = cookie /\ cookie \in Session
                         /\ session'[cookie] = session[cookie] /\ ~Fresh(cookie)
  BY <1>2, <1>3, <1>4 DEF Fresh, Live
<1>6. ShownIsUnlocked'
  BY <1>1, PagesFollow DEF ShownIsUnlocked, SignedIn
<1>7. SignInsAreFresh'
  <2>1. cookie' # None => session'[cookie'].state # "unused"
    BY <1>1, <1>2, <1>3, <1>4 DEF SignInsAreFresh
  <2>2. ASSUME NEW u \in Tab, NEW a \in Session,
               calls'[u]["login"].phase = "answered", calls'[u]["login"].answer = a
        PROVE  session'[a].state # "unused" /\ Fresh(a)'
    <3>1. CASE calls[u]["login"].phase = "answered" /\ calls[u]["login"].answer = a
      <4>1. session[a].state # "unused" /\ Fresh(a)
        BY <1>1, <3>1 DEF SignInsAreFresh
      <4>2. session'[a] = session[a] => session'[a].state # "unused" /\ Fresh(a)'
        BY <4>1 DEF Fresh, Live
      <4> QED
        BY <1>2, <4>2
    <3> QED
      BY <1>1, <2>2, <3>1, LoginsFollow
  <2> QED
    BY <2>1, <2>2 DEF SignInsAreFresh
<1>8. CallsAreAboutTheCookie'
  <2> SUFFICES ASSUME NEW u \in Tab, NEW k \in Reading, ~Fresh(cookie)'
               PROVE  /\ calls'[u][k].phase = "sent" => calls'[u][k].with = cookie'
                      /\ calls'[u][k].phase = "answered" => calls'[u][k].answer \in {cookie', Lost}
    BY DEF CallsAreAboutTheCookie
  <2>1. /\ calls[u][k].phase = "sent" => calls[u][k].with = cookie
        /\ calls[u][k].phase = "answered" => calls[u][k].answer \in {cookie, Lost}
    BY <1>1, <1>5 DEF CallsAreAboutTheCookie
  <2>2. Follows(calls[u][k], calls'[u][k])
    BY <1>1, CallsFollow
  <2>3. Live(cookie)
    BY <1>5 DEF Fresh
  <2> QED
    BY <1>5, <2>1, <2>2, <2>3 DEF Follows
<1>9. RefusedHasEnded'
  <2> SUFFICES ASSUME NEW u \in Tab, tab'[u].refused, ~Fresh(cookie)'
               PROVE  FALSE
    BY DEF RefusedHasEnded
  <2>1. ~tab[u].refused
    BY <1>1, <1>5 DEF RefusedHasEnded
  <2>2. calls[u]["refresh"].phase = "answered" /\ calls[u]["refresh"].answer = None
    BY <1>1, <2>1, PagesFollow
  <2>3. calls[u]["refresh"].answer \in {cookie, Lost}
    BY <1>1, <1>5, <2>2 DEF CallsAreAboutTheCookie, Reading
  <2> QED
    BY <1>5, <2>2, <2>3, NoneAssumption
<1>10. ExpiryIsSafe'
  <2> SUFFICES ASSUME Live(cookie)', NEW s \in Session
               PROVE  expiry'[s] = Unknown \/ expiry'[s] <= session'[cookie'].left
    BY DEF ExpiryIsSafe, Unknown
  <2>1. CASE Fresh(cookie)'
    <3>1. session'[cookie'].left = Timeout
      BY <2>1 DEF Fresh
    <3>2. expiry'[s] \in 0..Unknown
      BY DEF TypeOK
    <3> QED
      BY <3>1, <3>2, TimeoutAssumption DEF Unknown
  <2>2. CASE ~Fresh(cookie)'
    <3>1. expiry[s] = Unknown \/ expiry[s] <= session'[cookie'].left
      BY <1>1, <1>5, <2>2 DEF ExpiryIsSafe, Fresh
    <3>2. \/ expiry'[s] \in {expiry[s], Unknown}
          \/ s = cookie /\ expiry'[s] = session[s].left
      <4>1. ASSUME NEW k \in Reading, calls[t][k].phase = "answered", calls[t][k].answer = s
            PROVE  s = cookie
        BY <1>1, <1>5, <2>2, <4>1 DEF CallsAreAboutTheCookie
      <4> QED
        BY <1>1, <1>5, <2>2, <4>1, ExpiryFollows
    <3>3. session[cookie].left \in 0..Timeout
      BY <1>1, <1>5, <2>2 DEF TypeOK
    <3> QED
      BY <1>5, <2>2, <3>1, <3>2, <3>3, TimeoutAssumption
  <2> QED
    BY <2>1, <2>2
<1> QED
  BY <1>6, <1>7, <1>8, <1>9, <1>10 DEF SlidingInv

(* A tick passes when no call is under way; it takes as much from what the *)
(* tabs believe as from the session.                                       *)
LEMMA SlidingTick ==
    ASSUME SlidingInv, TypeOK', Tick
    PROVE  SlidingInv'
<1> USE KeysAreDistinct
<1>1. /\ TypeOK /\ ShownIsUnlocked /\ SignInsAreFresh /\ ExpiryIsSafe
  BY DEF SlidingInv
<1>2. /\ cookie' = cookie /\ calls' = calls
      /\ \A u \in Tab, k \in Kinds : calls[u][k].phase = "none"
      /\ Reading \subseteq Kinds /\ "login" \in Kinds
  BY Zenon DEF Tick, Quiet, Reading, Kinds
<1>3. ASSUME NEW s \in Session
      PROVE  /\ session'[s].state = session[s].state
             /\ session[s].left \in 0..Timeout
             /\ session'[s].left = IF session[s].left > 0 THEN session[s].left - 1 ELSE 0
  <2>1. session[s] \in [state : {"unused", "live", "revoked"}, left : 0..Timeout]
    BY <1>1 DEF TypeOK
  <2>2. session'[s] = [session[s] EXCEPT !.left = IF @ > 0 THEN @ - 1 ELSE 0]
    BY <1>3, Zenon DEF Tick
  <2> QED
    BY <2>1, <2>2
<1>4. ASSUME NEW u \in Tab
      PROVE  /\ tab'[u].user = tab[u].user /\ tab'[u].locked = tab[u].locked
             /\ tab'[u].coord = tab[u].coord /\ tab'[u].refused = FALSE
  <2>1. tab[u] \in PageType
    BY <1>1 DEF TypeOK
  <2>2. tab'[u] = [tab[u] EXCEPT !.idle = Youngest(tab[u].idle + 1, Timeout),
                               !.refused = FALSE]
    BY Zenon DEF Tick
  <2> QED
    BY <2>1, <2>2 DEF PageType
<1>5. ShownIsUnlocked' /\ RefusedHasEnded'
  BY <1>1, <1>4 DEF ShownIsUnlocked, SignedIn, RefusedHasEnded
<1>6. SignInsAreFresh' /\ CallsAreAboutTheCookie'
  <2>1. cookie \in Key
    BY <1>1 DEF TypeOK
  <2> QED
    BY <1>1, <1>2, <1>3, <2>1 DEF SignInsAreFresh, CallsAreAboutTheCookie
<1>7. ExpiryIsSafe'
  <2> SUFFICES ASSUME Live(cookie)', NEW s \in Session
               PROVE  expiry'[s] = Unknown \/ expiry'[s] <= session'[cookie'].left
    BY DEF ExpiryIsSafe, Unknown
  <2>1. cookie \in Session /\ session'[cookie].state = "live" /\ session'[cookie].left > 0
    BY <1>1, <1>2 DEF Live, TypeOK
  <2>2. /\ session[cookie].left \in 1..Timeout /\ Live(cookie)
        /\ session'[cookie].left = session[cookie].left - 1
    BY <1>3, <2>1, NoneAssumption, TimeoutAssumption DEF Live
  <2>3. expiry[s] = Unknown \/ expiry[s] <= session[cookie].left
    BY <1>1, <2>2 DEF ExpiryIsSafe
  <2>4. /\ expiry[s] \in 0..Unknown
        /\ expiry'[s] = IF expiry[s] \in 1..Timeout THEN expiry[s] - 1 ELSE expiry[s]
    BY <1>1, Zenon DEF Tick, TypeOK
  <2> QED
    BY <1>2, <2>1, <2>2, <2>3, <2>4, TimeoutAssumption DEF Unknown
<1> QED
  BY <1>5, <1>6, <1>7 DEF SlidingInv

LEMMA SlidingInit == Init => SlidingInv
<1> SUFFICES ASSUME Init PROVE SlidingInv
  OBVIOUS
<1>1. TypeOK
  BY TypeInit
<1>2. ShownIsUnlocked /\ RefusedHasEnded
  BY DEF Init, ShownIsUnlocked, SignedIn, RefusedHasEnded, FreshPage
<1>3. /\ cookie = None /\ ~Live(cookie) /\ Fresh(cookie)
      /\ \A t \in Tab : calls[t]["login"] = NoCall
  BY DEF Init, Live, Fresh, Kinds
<1> QED
  BY <1>1, <1>2, <1>3
  DEF SlidingInv, SignInsAreFresh, CallsAreAboutTheCookie, ExpiryIsSafe, NoCall

LEMMA SlidingStep ==
    ASSUME SlidingInv, [Next]_vars
    PROVE  SlidingInv'
<1>1. TypeOK'
  BY TypeStep DEF SlidingInv
<1>2. CASE \E s \in Session : EndElsewhere(s)
  <2>1. /\ cookie' = cookie /\ calls' = calls /\ tab' = tab /\ expiry' = expiry
        /\ \A a \in Session : \/ session'[a] = session[a]
                              \/ session'[a].state # "unused" /\ Fresh(a)'
        /\ Live(cookie)' => session'[cookie] = session[cookie]
    <3>1. TypeOK
      BY DEF SlidingInv
    <3>2. ASSUME NEW a \in Session
          PROVE  session'[a] = session[a] \/ (session'[a].state # "unused" /\ Fresh(a)')
      BY <1>2, <3>1, RowsAreFresh
    <3>3. Live(cookie)' => session'[cookie] = session[cookie]
      <4> PICK x \in Session :
            /\ cookie' = cookie
            /\ session' = [session EXCEPT ![x] = [state |-> "revoked", left |-> 0]]
        BY <1>2 DEF EndElsewhere
      <4>1. cookie \in Key /\ session \in [Session -> [state : {"unused", "live", "revoked"},
                                                     left : 0..Timeout]]
        BY <3>1 DEF TypeOK
      <4>2. cookie = x => session'[cookie].state = "revoked"
        BY <4>1
      <4>3. cookie \in Session /\ cookie # x => session'[cookie] = session[cookie]
        BY <4>1
      <4> QED
        BY <4>1, <4>2, <4>3, KeysAreDistinct DEF Live
    <3> QED
      BY <1>2, <3>2, <3>3 DEF EndElsewhere
  <2>2. Fresh(cookie) => Fresh(cookie)'
    BY <2>1 DEF Fresh, Live
  <2>3. ShownIsUnlocked' /\ RefusedHasEnded' /\ CallsAreAboutTheCookie' /\ ExpiryIsSafe'
    BY <2>1, <2>2 DEF SlidingInv, ShownIsUnlocked, SignedIn, RefusedHasEnded,
                      CallsAreAboutTheCookie, ExpiryIsSafe, Live
  <2>4. SignInsAreFresh'
    <3>1. cookie \in Key
      BY DEF SlidingInv, TypeOK
    <3>2. \A a \in Session : Fresh(a) /\ session'[a] = session[a] => Fresh(a)'
      BY DEF Fresh, Live
    <3> QED
      BY <2>1, <3>1, <3>2, KeysAreDistinct DEF SlidingInv, SignInsAreFresh
  <2> QED
    BY <1>1, <2>3, <2>4 DEF SlidingInv
<1>3. CASE UNCHANGED vars
  BY <1>3 DEF vars, SlidingInv, TypeOK, ShownIsUnlocked, SignedIn, SignInsAreFresh, Fresh,
              Live, CallsAreAboutTheCookie, RefusedHasEnded, ExpiryIsSafe
<1> QED
  BY <1>1, <1>2, <1>3, SlidingActs, SlidingTick DEF Next, Acts

(* Only time ages a tab, and when it runs the cookie's session out, no tab *)
(* that was used is still shown: its timer would have asked for a refresh  *)
(* before the tick.                                                        *)
LEMMA UsedTabsRefresh ==
    ASSUME SlidingInv, Next, Live(cookie), ~Live(cookie)', cookie' = cookie,
           NEW t \in Tab, SignedIn(t), tab[t].seen, tab[t].idle < tab'[t].idle
    PROVE  FALSE
<1>1. TypeOK /\ ShownIsUnlocked /\ RefusedHasEnded /\ ExpiryIsSafe
  BY DEF SlidingInv
<1>2. tab[t].idle \in 0..Timeout /\ cookie \in Key
  BY <1>1 DEF TypeOK, PageType
<1>3. Tick
  <2>1. ASSUME NEW u \in Tab, Acts(u)
        PROVE  FALSE
    BY <1>1, <1>2, <2>1, PagesFollow, TimeoutAssumption
  <2>2. tab' # tab
    BY <1>2
  <2> QED
    BY <2>1, <2>2 DEF Next, Acts, EndElsewhere
<1>4. session[cookie].left = 1 /\ ~Fresh(cookie)
  <2>1. cookie \in Session /\ session[cookie].left \in 1..Timeout /\ session[cookie].state = "live"
    BY <1>1, <1>2, KeysAreDistinct DEF Live, TypeOK
  <2>2. /\ session'[cookie].state = session[cookie].state
        /\ session'[cookie].left = session[cookie].left - 1
    <3>1. session[cookie] \in [state : {"unused", "live", "revoked"}, left : 0..Timeout]
      BY <1>1, <2>1 DEF TypeOK
    <3>2. session'[cookie] = [session[cookie] EXCEPT !.left =
                                IF session[cookie].left > 0 THEN session[cookie].left - 1 ELSE 0]
      BY <1>3, <2>1, Zenon DEF Tick
    <3>3. session[cookie].left > 0
      BY <2>1, TimeoutAssumption
    <3> QED
      BY <3>1, <3>2, <3>3
  <2>3. session[cookie].left = 1
    BY <2>1, <2>2, KeysAreDistinct, TimeoutAssumption, NoneAssumption DEF Live
  <2> QED
    BY <2>3, TimeoutAssumption DEF Fresh
<1>5. RefreshDue(t)
  <2>1. tab[t].coord \in Session /\ ~tab[t].refused
    BY <1>1, <1>4 DEF ShownIsUnlocked, RefusedHasEnded
  <2>2. expiry[tab[t].coord] <= 1 \/ expiry[tab[t].coord] = Unknown
    BY <1>1, <1>4, <2>1 DEF ExpiryIsSafe
  <2>3. calls[t]["refresh"].phase = "none"
    BY <1>3, Zenon DEF Tick, Quiet, Kinds
  <2> QED
    BY <2>1, <2>2, <2>3 DEF RefreshDue
<1>6. ~tab[t].locked
  BY <1>1 DEF ShownIsUnlocked
<1> QED
  BY <1>3, <1>5, <1>6, Zenon DEF Tick, KeepAliveDue

(* Time alone never runs out the session of a page that was used within    *)
(* the timeout: the deadline a tab believes in is never later than the     *)
(* server's (rememberSessionExpiry, client.js), a refresh is only refused  *)
(* once the session has ended, and the timer asks for one in the last      *)
(* tick (useSessionTimeout, handleSessionActivity).                        *)
THEOREM SessionsOfActiveTabsLast == Spec => ActiveSessionsLast
<1>1. SlidingInv /\ [Next]_vars =>
          [Live(cookie) /\ ~Live(cookie)' /\ cookie' = cookie =>
             \A t \in Tab : SignedIn(t) /\ tab[t].seen /\ tab[t].idle < tab'[t].idle =>
                 tab'[t].idle >= Timeout]_vars
  BY UsedTabsRefresh
<1> QED
  BY <1>1, SlidingInit, SlidingStep, PTL DEF Spec, ActiveSessionsLast
=============================================================================
