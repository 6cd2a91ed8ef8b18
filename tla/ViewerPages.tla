---------------------------- MODULE ViewerPages ----------------------------
(***************************************************************************)
(* The pages of one browser.  Shares of different owners are served from    *)
(* one origin, with one viewer cookie for all of its tabs                  *)
(* (relay/src/server.ts: the shells, what is injected into them and the    *)
(* routes of pages; relay/src/api: activate, leave, viewerCookie;          *)
(* relay/src/proxy/adapter.ts: requireViewer, readableSessionId).          *)
(*                                                                         *)
(* The relay answers in one step, redirects followed, with the cookie the  *)
(* browser held as it asked; the answer, and the cookie it sets, arrive in *)
(* a later one.  Only the walk of a subagent's page is a step of its own.  *)
(* The page of no share, at /terminal, is left out.                        *)
(***************************************************************************)
EXTENDS Naturals, FiniteSets

CONSTANTS
  Tabs, Shares, None,
  LinkOf,       \* the share whose link each tab was opened with
  Children,     \* sessions that are no share
  ParentOf,     \* the share each is a subagent of
  MaxTokens,    \* bound: viewer tokens minted
  MaxEnds,      \* bound: shares that end, tokens that lapse or are handed back
  MaxVisits     \* bound: addresses the user opens later

ASSUME EveryChildHasAShare == ParentOf \in [Children -> Shares]
ASSUME EveryTabHasALink == LinkOf \in [Tabs -> Shares]
ASSUME NamesDiffer == None \notin Shares \cup Children /\ Shares \cap Children = {}
ASSUME BoundsAreNatural == MaxTokens \in Nat /\ MaxEnds \in Nat /\ MaxVisits \in Nat

Tokens == 1..MaxTokens
NoToken == 0
Sessions == Shares \cup Children

VARIABLES
  live,      \* shares that are registered
  ends,      \* shares that have ended, tokens lapsed or handed back
  shareOf,   \* the share each token was minted for, None for tokens to come
  valid,     \* tokens in the store
  visits,    \* addresses opened so far
  cookie,    \* viewer_token
  page,      \* of each tab
  nav,       \* the page a tab is on its way to
  fetch,     \* the request a page has made
  guarded,   \* tabs whose guard went home less than AUTH_GUARD_WINDOW_MS ago
  key,       \* localStorage: DRAFTS_SHARE_KEY
  drafts,    \* IndexedDB: the shares whose prompts are there
  seen,      \* the shares whose prompts a page's history has
  kept,      \* tabs whose page could not clear the drafts
  ran,       \* history: the request the last step carried out, where and for whom
  steady,    \* history: tabs whose page was served with the cookie there still is
  mixed      \* history: drafts were not kept apart (see DraftsAreKeptApart)

relayVars   == <<live, ends, shareOf, valid>>
browserVars == <<visits, cookie, page, nav, fetch, guarded>>
draftVars   == <<key, drafts, seen, kept, mixed>>
vars        == <<relayVars, browserVars, draftVars, ran, steady>>

\* "ui": the shell, for a share, at a session's address, served with a token;
\* "code": the code page of a share, or of none; "ended".
Page == [kind : {"ui", "code", "ended"}, share : Shares \cup {None}, id : Sessions \cup {None},
         token : {NoToken} \cup Tokens]
Shell(share, id, token) == [kind |-> "ui", share |-> share, id |-> id, token |-> token]
Code(share) == [kind |-> "code", share |-> share, id |-> None, token |-> NoToken]
Ended       == [kind |-> "ended", share |-> None, id |-> None, token |-> NoToken]

Home == None                       \* / and /join; any other address is /<session>
UiPages == {<<id>> : id \in Sessions}    \* or the UI's page of a session
Addresses == {Home} \cup Sessions \cup UiPages

NoNav   == [phase |-> "none", shows |-> Ended]
NoFetch == [phase |-> "none", sets |-> NoToken]

TypeOK ==
  /\ live \subseteq Shares /\ ends \in 0..MaxEnds
  /\ shareOf \in [Tokens -> Shares \cup {None}]
  /\ valid \subseteq {n \in Tokens : shareOf[n] \in live}
  /\ visits \in 0..MaxVisits
  /\ cookie \in {NoToken} \cup Tokens
  /\ page \in [Tabs -> Page]
  /\ nav \in [Tabs -> [phase : {"none", "walking", "answered"}, shows : Page]]
  /\ fetch \in [Tabs -> [phase : {"none", "answered", "refused", "joined", "left"}, sets : {NoToken} \cup Tokens]]
  /\ guarded \subseteq Tabs /\ kept \subseteq Tabs /\ steady \subseteq Tabs
  /\ key \in Shares \cup {None} /\ drafts \subseteq Shares /\ seen \in [Tabs -> SUBSET Shares]
  /\ ran \in {None} \cup [tab : Tabs, at : Sessions \cup {None}, share : Shares]
  /\ mixed \in BOOLEAN

Init ==
  /\ live = Shares /\ ends = 0
  /\ shareOf = [n \in Tokens |-> None] /\ valid = {}
  /\ visits = 0 /\ cookie = NoToken
  /\ page = [t \in Tabs |-> Code(LinkOf[t])]
  /\ nav = [t \in Tabs |-> NoNav] /\ fetch = [t \in Tabs |-> NoFetch]
  /\ guarded = {} /\ kept = {} /\ steady = {}
  /\ key = None /\ drafts = {} /\ seen = [t \in Tabs |-> {}]
  /\ ran = None /\ mixed = FALSE

---------------------------------------------------------------------------
(* The relay's records *)

\* getSessionByViewerToken, and verifyViewer of a share.
ShareOf(token) == IF token \in valid THEN shareOf[token] ELSE None

\* stopped, expired, replaced: a share that ends takes its tokens with it.
EndShare(s) ==
  /\ s \in live /\ ends < MaxEnds
  /\ live' = live \ {s}
  /\ ends' = ends + 1
  /\ valid' = {n \in valid : shareOf[n] # s}
  /\ UNCHANGED <<shareOf, browserVars, draftVars>>

\* The session is shared again.
StartShare(s) ==
  /\ s \notin live
  /\ live' = live \cup {s}
  /\ UNCHANGED <<ends, shareOf, valid, browserVars, draftVars>>

\* A token that sat idle, or lost its seat.
Expire(n) ==
  /\ n \in valid /\ ends < MaxEnds
  /\ valid' = valid \ {n}
  /\ ends' = ends + 1
  /\ UNCHANGED <<live, shareOf, browserVars, draftVars>>

---------------------------------------------------------------------------
(* Pages *)

Answered(shows) == [phase |-> "answered", shows |-> shows]

\* GET /<share>, and its redirect to the share's UI
ShareAnswer(s, token) ==
  Answered(IF s \notin live THEN Ended
           ELSE IF ShareOf(token) = s THEN Shell(s, s, token)
           ELSE Code(s))

\* GET / and /join: viewerHome, and its redirect to the share it names
HomeAnswer(token) ==
  IF ShareOf(token) # None THEN ShareAnswer(ShareOf(token), token) ELSE Answered(Code(None))

\* sessionPage, and its redirect to the code page
SessionAnswer(id, token) ==
  IF id \in live THEN ShareAnswer(id, token)
  ELSE IF ShareOf(token) = None THEN Answered(Ended)
  ELSE [phase |-> "walking", shows |-> Shell(ShareOf(token), id, token)]

\* What the relay answers at an address to a browser with that cookie.
Visit(to, token) ==
  CASE to = Home       -> HomeAnswer(token)
    [] to \in Sessions -> ShareAnswer(to, token)
    [] to \in UiPages  -> SessionAnswer(to[1], token)

\* The user opens an address in a tab, or reloads it.
Open(t, to) ==
  /\ nav[t].phase = "none" /\ visits < MaxVisits
  /\ visits' = visits + 1
  /\ nav' = [nav EXCEPT ![t] = Visit(to, cookie)]
  /\ UNCHANGED <<relayVars, cookie, page, fetch, guarded, draftVars>>

\* shareAncestry's verdict on a session: by its parents, or none.
Verdicts(share, id) == {"undefined", IF id \in Children /\ ParentOf[id] = share THEN "true" ELSE "false"}

\* Mutant: a subagent's page names the subagent for its share.
NamesItself(p) == [p EXCEPT !.share = p.id]

NamesItsShare(p) == p

\* The end of that walk.
Walked(t) ==
  LET p == nav[t].shows IN
  /\ nav[t].phase = "walking"
  /\ \E v \in Verdicts(p.share, p.id) :
       nav' = [nav EXCEPT ![t] = Answered(IF v = "false" \/ p.token \notin valid THEN Ended ELSE NamesItsShare(p))]
  /\ UNCHANGED <<relayVars, visits, cookie, page, fetch, guarded, draftVars>>

\* setViewerCookie
Cookie(sets) == IF sets = NoToken THEN cookie ELSE sets

\* Mutant: drafts that could not be cleared are recorded as if they had been.
RecordsAnyway(share, cleared) == TRUE

\* draftsReset: the clear committed, or there is nothing to clear.
Records(share, cleared) == cleared

\* draftsReset, and the UI reading what is left.  The clear fails if the database
\* does not open or the page goes before it ends.
LoadDrafts(t, share, cleared) ==
  /\ key' = IF Records(share, cleared) THEN share ELSE key
  /\ drafts' = IF cleared /\ key # share THEN {} ELSE drafts
  /\ seen' = [seen EXCEPT ![t] = drafts']
  /\ kept' = IF cleared THEN kept \ {t} ELSE kept \cup {t}
  /\ UNCHANGED mixed

\* Drafts that were not kept apart are followed no further.
StopFollowing == mixed' = TRUE /\ key' = None /\ drafts' = {} /\ seen' = [t \in Tabs |-> {}] /\ kept' = {}

Close(t) == seen' = [seen EXCEPT ![t] = {}] /\ kept' = kept \ {t} /\ UNCHANGED <<key, drafts, mixed>>

\* The page comes up in its tab.
Commit(t) ==
  LET p == nav[t].shows IN
  /\ nav[t].phase = "answered"
  /\ cookie' = Cookie(p.token)
  /\ page' = [page EXCEPT ![t] = p]
  /\ nav' = [nav EXCEPT ![t] = NoNav]
  /\ fetch' = [fetch EXCEPT ![t] = NoFetch]
  /\ IF mixed THEN UNCHANGED draftVars
     ELSE IF p.kind # "ui" THEN Close(t)
     ELSE IF \E o \in Tabs \ {t} : page[o].kind = "ui" /\ page[o].share # p.share THEN StopFollowing
     ELSE \E cleared \in BOOLEAN : (key = p.share => cleared) /\ LoadDrafts(t, p.share, cleared)
  /\ UNCHANGED <<relayVars, visits, guarded>>

\* The viewer sends a prompt: the UI keeps it, with the others it has.
Prompt(t) ==
  LET s == page[t].share IN
  /\ page[t].kind = "ui" /\ ~mixed
  /\ IF t \in kept
     THEN StopFollowing
     ELSE /\ s \notin seen[t] \/ drafts # seen[t]
          /\ seen' = [seen EXCEPT ![t] = @ \cup {s}]
          /\ drafts' = seen'[t]
          /\ UNCHANGED <<key, kept, mixed>>
  /\ UNCHANGED <<relayVars, browserVars>>

---------------------------------------------------------------------------
(* Requests of pages *)

Answer(t, phase, sets) == fetch' = [fetch EXCEPT ![t] = [phase |-> phase, sets |-> sets]]

\* Mutant: the share a page names is not looked at.
AnyShare(t, share) == share # None

\* requireViewer: the cookie's share, and the page's.
IsItsShare(t, share) == share # None /\ page[t].share = share

\* What a page's UI asks about: no session, the one at its address, and the tree of
\* the share it was served for.
AskedBy(p) == {None, p.id, p.share} \cup {x \in Children : ParentOf[x] = p.share}

\* ALLOWED_ROUTES: requireViewer, then readableSessionId's verdict.
Ask(t, at) ==
  LET share == ShareOf(cookie) IN
  /\ page[t].kind = "ui" /\ at \in AskedBy(page[t]) /\ nav[t].phase = "none" /\ fetch[t].phase = "none"
  /\ IF ~IsItsShare(t, share)
     THEN Answer(t, "refused", NoToken) /\ ran' = None
     ELSE \E v \in IF at \in {None, share} THEN {"true"} ELSE Verdicts(share, at) :
            /\ Answer(t, IF v = "false" THEN "refused" ELSE "answered", cookie)
            /\ ran' = IF v = "true" THEN [tab |-> t, at |-> at, share |-> share] ELSE None
  /\ UNCHANGED <<relayVars, visits, cookie, page, nav, guarded, draftVars>>

\* POST /api/activate, with the code of the share the page is for.
Activate(t) ==
  LET s == page[t].share IN
  /\ page[t].kind = "code" /\ s \in live /\ nav[t].phase = "none" /\ fetch[t].phase = "none"
  /\ \E n \in Tokens :
       /\ shareOf[n] = None
       /\ \A m \in 1..(n - 1) : shareOf[m] # None
       /\ shareOf' = [shareOf EXCEPT ![n] = s]
       /\ valid' = valid \cup {n}
       /\ Answer(t, "joined", n)
  /\ UNCHANGED <<live, ends, visits, cookie, page, nav, guarded, draftVars>>

\* POST /api/leave
Leave(t) ==
  /\ page[t].kind = "ui" /\ nav[t].phase = "none" /\ fetch[t].phase = "none"
  /\ cookie # NoToken /\ ends < MaxEnds
  /\ ends' = ends + 1
  /\ valid' = valid \ {cookie}
  /\ Answer(t, "left", NoToken)
  /\ UNCHANGED <<live, shareOf, visits, cookie, page, nav, guarded, draftVars>>

\* Mutant: a guard that went home once never does again.
ForGood(t) == FALSE

\* AUTH_GUARD_WINDOW_MS
WindowIsOver(t) == t \in guarded

\* The guard's next navigation is allowed again.
WindowEnds(t) ==
  /\ WindowIsOver(t)
  /\ guarded' = guarded \ {t}
  /\ UNCHANGED <<relayVars, visits, cookie, page, nav, fetch, draftVars>>

\* An answer arrives at a page: authGuard, join.html, or what an answer to leave
\* takes from the browser.
Arrive(t) ==
  LET f == fetch[t] IN
  /\ f.phase # "none"
  /\ fetch' = [fetch EXCEPT ![t] = NoFetch]
  /\ cookie' = IF f.phase = "left" THEN NoToken ELSE Cookie(f.sets)
  /\ CASE f.phase = "refused" /\ t \notin guarded ->
            nav' = [nav EXCEPT ![t] = Visit(page[t].share, cookie')] /\ guarded' = guarded \cup {t}
       [] f.phase = "joined" ->
            nav' = [nav EXCEPT ![t] = Visit(page[t].share, cookie')] /\ UNCHANGED guarded
       [] f.phase = "left"     -> guarded' = {} /\ UNCHANGED nav
       [] f.phase = "answered" -> UNCHANGED <<nav, guarded>>
       [] f.phase = "refused" /\ t \in guarded -> UNCHANGED <<nav, guarded>>
  /\ IF f.phase = "left"
     THEN key' = None /\ drafts' = {}
     ELSE UNCHANGED <<key, drafts>>
  /\ UNCHANGED <<relayVars, visits, page, seen, kept, mixed>>

---------------------------------------------------------------------------
Others ==
  \/ \E s \in Shares : EndShare(s) \/ StartShare(s)
  \/ \E n \in Tokens : Expire(n)
  \/ \E t \in Tabs :
       \/ \E to \in Addresses : Open(t, to)
       \/ Walked(t) \/ Commit(t) \/ Prompt(t)
       \/ Activate(t) \/ Leave(t) \/ Arrive(t) \/ WindowEnds(t)

\* A page is steady from the moment it comes up for as long as the token it was
\* served with is valid and the browser's.
Steady ==
  steady' = {t \in Tabs :
    /\ page'[t].kind = "ui"
    /\ t \in steady \/ (nav[t].phase = "answered" /\ nav'[t].phase = "none")
    /\ cookie' = page'[t].token /\ page'[t].token \in valid'}

Next ==
  /\ \/ Others /\ ran' = None
     \/ \E t \in Tabs, at \in Sessions \cup {None} : Ask(t, at)
  /\ Steady

\* The relay answers and its answers arrive; the UI's event reader asks again for
\* as long as the page lives; time passes.
Fairness ==
  \A t \in Tabs :
    /\ WF_vars((Walked(t) \/ Commit(t)) /\ ran' = None /\ Steady)
    /\ WF_vars(Ask(t, None) /\ Steady)
    /\ WF_vars(Arrive(t) /\ ran' = None /\ Steady)
    /\ WF_vars(WindowEnds(t) /\ ran' = None /\ Steady)

Spec == Init /\ [][Next]_vars /\ Fairness

---------------------------------------------------------------------------
(* Properties *)

InShare(id, share) == id \in {None, share} \/ (id \in Children /\ ParentOf[id] = share)

(* A request is carried out in the share its page is for, and in the share   *)
(* whose session it is addressed to: a join in another tab, which gives the  *)
(* cookie of this one to another share, has requests refused and none        *)
(* answered from there (VIEWER_SHARE_HEADER; readableSessionId).              *)
PagesKeepToTheirShare ==
  /\ TypeOK
  /\ ran # None => page[ran.tab].share = ran.share /\ InShare(ran.at, ran.share)

(* The guard takes a page away only if the access it was served with is      *)
(* over, or gave way to another (authGuard: "a marked 401 on a page loaded   *)
(* with a working cookie can only mean the cookie changed in between").      *)
GuardLeavesForAReason ==
  [][\A t \in Tabs :
       fetch[t].phase = "refused" /\ fetch'[t].phase = "none" /\ nav[t] # nav'[t] /\ nav'[t].phase # "none"
         /\ InShare(page[t].id, page[t].share) => t \notin steady]_vars

\* The page is one of a share that the browser no longer has access to.
Dead(t) == page[t].kind = "ui" /\ ShareOf(cookie) # page[t].share

(* A page whose access is over does not stay: its guard takes it to its      *)
(* share's own page, which has the code field or says that the share ended,  *)
(* unless the access comes back first (authGuard).                           *)
DeadPagesLeave == \A t \in Tabs : Dead(t) ~> ~Dead(t)

OfOneShare(S) == \A s, r \in S : s = r

(* A page offers the prompts of one share at most: its own, or, if it could   *)
(* not clear the drafts as it came up, the one whose prompts it found; a      *)
(* later page that can clear them finds them recorded for no share but theirs *)
(* (draftsReset).  So it is until pages of two shares are open at once, or a  *)
(* page that could not clear sends a prompt; then drafts are mixed.           *)
DraftsAreKeptApart ==
  \A t \in Tabs : page[t].kind = "ui" =>
    /\ OfOneShare(seen[t])
    /\ t \notin kept => seen[t] \subseteq {page[t].share}
=============================================================================
