------------------------- MODULE ViewerPagesProofs -------------------------
(***************************************************************************)
(* What holds of a browser's pages for any number of tabs, shares,         *)
(* subagents and viewer tokens: requests are carried out in the share      *)
(* their page is for, the guard leaves no page whose access still is what  *)
(* it was served with, and prompts of one share stay off the pages of      *)
(* another.                                                                *)
(***************************************************************************)
EXTENDS ViewerPages, TLAPS

Navs == [phase : {"none", "walking", "answered"}, shows : Page]
Fetches == [phase : {"none", "answered", "refused", "joined", "left"}, sets : {NoToken} \cup Tokens]

RelayInv ==
  /\ live \subseteq Shares /\ ends \in 0..MaxEnds
  /\ shareOf \in [Tokens -> Shares \cup {None}]
  /\ valid \subseteq {n \in Tokens : shareOf[n] \in live}

\* A page of the UI was served, to a token of its share.
Served(p, of) == p.kind = "ui" => p.share \in Shares /\ p.token \in Tokens /\ of[p.token] = p.share

BrowserInv ==
  /\ visits \in 0..MaxVisits
  /\ cookie \in {NoToken} \cup Tokens
  /\ page \in [Tabs -> Page] /\ \A t \in Tabs : Served(page[t], shareOf)
  /\ nav \in [Tabs -> Navs] /\ \A t \in Tabs : Served(nav[t].shows, shareOf)
  /\ fetch \in [Tabs -> Fetches]
  /\ guarded \subseteq Tabs

Ui(t) == page[t].kind = "ui"

\* Drafts are followed while the pages that are open are those of one share; they,
\* and what a page has seen of them, are one share's, and the key's if there is one;
\* the key says the share of the page, or nothing, on every page that could clear them.
DraftInv ==
  /\ kept \subseteq Tabs /\ key \in Shares \cup {None} /\ drafts \subseteq Shares
  /\ seen \in [Tabs -> SUBSET Shares] /\ mixed \in BOOLEAN
  /\ mixed => \A t \in Tabs : seen[t] = {}
  /\ ~mixed =>
       /\ \A t, o \in Tabs : Ui(t) /\ Ui(o) => page[t].share = page[o].share
       /\ key \in Shares => drafts \subseteq {key}
       /\ OfOneShare(drafts) /\ \A t \in Tabs : OfOneShare(seen[t])
       /\ \A t \in Tabs \ kept : Ui(t) => key \in {None, page[t].share} /\ seen[t] \subseteq {page[t].share}

\* A page that is refused though its access is what it was served with is the page
\* of a session outside its share.
AnswerInv ==
  /\ steady \subseteq Tabs
  /\ ran \in {None} \cup [tab : Tabs, at : Sessions \cup {None}, share : Shares]
  /\ ran # None => page[ran.tab].share = ran.share /\ InShare(ran.at, ran.share)
  /\ \A t \in steady : fetch[t].phase = "refused" => ~InShare(page[t].id, page[t].share)

PagesInv == RelayInv /\ BrowserInv /\ DraftInv /\ AnswerInv

---------------------------------------------------------------------------
(* The relay's records *)

\* A token that was minted stays its share's.
TokensKeep == \A n \in Tokens : shareOf[n] # None => shareOf'[n] = shareOf[n]

LEMMA NothingMinted == UNCHANGED shareOf => TokensKeep
BY DEF TokensKeep

LEMMA RelayKeeps ==
  ASSUME PagesInv, Next
  PROVE RelayInv' /\ TokensKeep
<1>0. RelayInv /\ BrowserInv
  BY DEF PagesInv
<1>1. ASSUME NEW s \in Shares, EndShare(s) PROVE RelayInv' /\ TokensKeep
  BY <1>0, <1>1, BoundsAreNatural DEF EndShare, RelayInv, TokensKeep
<1>2. ASSUME NEW s \in Shares, StartShare(s) PROVE RelayInv' /\ TokensKeep
  BY <1>0, <1>2 DEF StartShare, RelayInv, TokensKeep
<1>3. ASSUME NEW n \in Tokens, Expire(n) PROVE RelayInv' /\ TokensKeep
  BY <1>0, <1>3, BoundsAreNatural DEF Expire, RelayInv, TokensKeep
<1>4. ASSUME NEW t \in Tabs, Activate(t) PROVE RelayInv' /\ TokensKeep
  <2>1. /\ page[t].share \in live /\ UNCHANGED <<live, ends>>
        /\ \E n \in Tokens :
             /\ shareOf[n] = None
             /\ shareOf' = [shareOf EXCEPT ![n] = page[t].share]
             /\ valid' = valid \cup {n}
    BY <1>4 DEF Activate
  <2> PICK s \in live, n \in Tokens :
        shareOf[n] = None /\ shareOf' = [shareOf EXCEPT ![n] = s] /\ valid' = valid \cup {n}
    BY <2>1
  <2> QED BY <1>0, <2>1 DEF RelayInv, TokensKeep
<1>5. ASSUME NEW t \in Tabs, Leave(t) PROVE RelayInv' /\ TokensKeep
  BY <1>0, <1>5, BoundsAreNatural DEF Leave, RelayInv, TokensKeep
<1>6. ASSUME UNCHANGED <<live, ends, shareOf, valid>> PROVE RelayInv' /\ TokensKeep
  BY <1>0, <1>6 DEF RelayInv, TokensKeep
<1>7. ASSUME NEW t \in Tabs,
             (\E to \in Addresses : Open(t, to)) \/ Walked(t) \/ Commit(t) \/ Prompt(t) \/ Arrive(t)
               \/ WindowEnds(t) \/ (\E at \in Sessions \cup {None} : Ask(t, at))
      PROVE UNCHANGED <<live, ends, shareOf, valid>>
  BY <1>7 DEF Open, Walked, Commit, Prompt, Arrive, WindowEnds, Ask, relayVars
<1> QED BY <1>1, <1>2, <1>3, <1>4, <1>5, <1>6, <1>7 DEF Next, Others

---------------------------------------------------------------------------
(* What the relay answers *)

LEMMA SharesOfTokens ==
  ASSUME RelayInv, NEW token
  PROVE /\ ShareOf(token) \in Shares \cup {None}
        /\ ShareOf(token) # None => token \in Tokens /\ shareOf[token] = ShareOf(token) /\ ShareOf(token) \in live
BY NamesDiffer DEF RelayInv, ShareOf

LEMMA ShellsAreServed ==
  ASSUME RelayInv, NEW token, NEW id \in Sessions, ShareOf(token) # None
  PROVE Shell(ShareOf(token), id, token) \in Page /\ Served(Shell(ShareOf(token), id, token), shareOf)
BY SharesOfTokens DEF Shell, Page, Served

LEMMA OthersAreServed ==
  ASSUME NEW s \in Shares \cup {None}
  PROVE /\ Code(s) \in Page /\ Served(Code(s), shareOf)
        /\ Ended \in Page /\ Served(Ended, shareOf)
BY DEF Code, Ended, Page, Served

LEMMA AnswersAreServed ==
  ASSUME NEW phase \in {"none", "walking", "answered"}, NEW p \in Page, Served(p, shareOf)
  PROVE LET n == [phase |-> phase, shows |-> p] IN n \in Navs /\ Served(n.shows, shareOf)
BY DEF Navs

LEMMA ShareAnswersAreServed ==
  ASSUME RelayInv, NEW s \in Sessions, NEW token
  PROVE ShareAnswer(s, token) \in Navs /\ Served(ShareAnswer(s, token).shows, shareOf)
<1>1. CASE s \notin live
  BY <1>1, OthersAreServed, AnswersAreServed DEF ShareAnswer, Answered
<1>2. CASE s \in live /\ ShareOf(token) = s
  <2>1. s # None
    BY <1>2, NamesDiffer DEF RelayInv
  <2>2. Shell(s, s, token) \in Page /\ Served(Shell(s, s, token), shareOf)
    BY <1>2, <2>1, ShellsAreServed
  <2> QED BY <1>2, <2>2, AnswersAreServed DEF ShareAnswer, Answered
<1>3. CASE s \in live /\ ShareOf(token) # s
  <2>1. Code(s) \in Page /\ Served(Code(s), shareOf)
    BY <1>3, OthersAreServed DEF RelayInv
  <2> QED BY <1>3, <2>1, AnswersAreServed DEF ShareAnswer, Answered
<1> QED BY <1>1, <1>2, <1>3

LEMMA VisitsAreServed ==
  ASSUME RelayInv, NEW to \in Addresses, NEW token
  PROVE Visit(to, token) \in Navs /\ Served(Visit(to, token).shows, shareOf)
<1>1. HomeAnswer(token) \in Navs /\ Served(HomeAnswer(token).shows, shareOf)
  <2>1. CASE ShareOf(token) # None
    BY <2>1, SharesOfTokens, ShareAnswersAreServed DEF HomeAnswer, Sessions
  <2>2. CASE ShareOf(token) = None
    BY <2>2, OthersAreServed, AnswersAreServed DEF HomeAnswer, Answered
  <2> QED BY <2>1, <2>2
<1>2. \A id \in Sessions : ShareAnswer(id, token) \in Navs /\ Served(ShareAnswer(id, token).shows, shareOf)
  BY ShareAnswersAreServed
<1>3. ASSUME NEW id \in Sessions
      PROVE SessionAnswer(id, token) \in Navs /\ Served(SessionAnswer(id, token).shows, shareOf)
  <2>1. CASE id \in live
    BY <2>1, ShareAnswersAreServed DEF SessionAnswer
  <2>2. CASE id \notin live /\ ShareOf(token) = None
    BY <2>2, OthersAreServed, AnswersAreServed DEF SessionAnswer, Answered
  <2>3. CASE id \notin live /\ ShareOf(token) # None
    BY <2>3, ShellsAreServed, AnswersAreServed DEF SessionAnswer
  <2> QED BY <2>1, <2>2, <2>3
<1>4. to \in UiPages => \E id \in Sessions : to = <<id>> /\ to[1] = id
  BY DEF UiPages
<1>5. to \in UiPages => SessionAnswer(to[1], token) \in Navs /\ Served(SessionAnswer(to[1], token).shows, shareOf)
  BY <1>3, <1>4
<1>6. to = Home \/ to \in Sessions \/ to \in UiPages
  BY DEF Addresses
<1>7. \/ Visit(to, token) = HomeAnswer(token)
      \/ to \in Sessions /\ Visit(to, token) = ShareAnswer(to, token)
      \/ to \in UiPages /\ Visit(to, token) = SessionAnswer(to[1], token)
  BY <1>6 DEF Visit
<1> QED BY <1>1, <1>2, <1>5, <1>7

---------------------------------------------------------------------------
(* The browser *)

\* What a step may do to the tabs and the cookie, token by token.
PagesGoOn ==
  /\ visits' \in 0..MaxVisits /\ cookie' \in {NoToken} \cup Tokens
  /\ page' \in [Tabs -> Page] /\ \A t \in Tabs : Served(page'[t], shareOf)
  /\ nav' \in [Tabs -> Navs] /\ \A t \in Tabs : Served(nav'[t].shows, shareOf)
  /\ fetch' \in [Tabs -> Fetches] /\ guarded' \subseteq Tabs

LEMMA ServedStays ==
  ASSUME TokensKeep, NEW p, Served(p, shareOf)
  PROVE Served(p, shareOf')
BY NamesDiffer DEF Served, TokensKeep

LEMMA NoNavIsServed == NoNav \in Navs /\ Served(NoNav.shows, shareOf) /\ NoFetch \in Fetches
BY OthersAreServed, AnswersAreServed DEF NoNav, NoFetch, Fetches

LEMMA NavsAreSet ==
  ASSUME BrowserInv, NEW t \in Tabs, NEW n \in Navs, Served(n.shows, shareOf)
  PROVE LET next == [nav EXCEPT ![t] = n] IN
        next \in [Tabs -> Navs] /\ \A o \in Tabs : Served(next[o].shows, shareOf)
BY DEF BrowserInv

LEMMA FetchesAreSet ==
  ASSUME BrowserInv, NEW t \in Tabs, NEW f \in Fetches
  PROVE [fetch EXCEPT ![t] = f] \in [Tabs -> Fetches]
BY DEF BrowserInv

LEMMA CookiesAreSet ==
  ASSUME BrowserInv, NEW sets \in {NoToken} \cup Tokens
  PROVE Cookie(sets) \in {NoToken} \cup Tokens
BY DEF BrowserInv, Cookie

LEMMA OpenGoesOn ==
  ASSUME RelayInv, BrowserInv, NEW t \in Tabs, NEW to \in Addresses, Open(t, to)
  PROVE PagesGoOn
<1>1. Visit(to, cookie) \in Navs /\ Served(Visit(to, cookie).shows, shareOf)
  BY VisitsAreServed
<1>2. nav' \in [Tabs -> Navs] /\ \A o \in Tabs : Served(nav'[o].shows, shareOf)
  BY <1>1, NavsAreSet DEF Open
<1>3. visits' \in 0..MaxVisits
  BY BoundsAreNatural DEF Open, BrowserInv
<1> QED BY <1>2, <1>3 DEF Open, BrowserInv, PagesGoOn

LEMMA WalkedGoesOn ==
  ASSUME RelayInv, BrowserInv, NEW t \in Tabs, Walked(t)
  PROVE PagesGoOn
<1> PICK p \in Page : p = nav[t].shows
  BY DEF BrowserInv, Navs
<1>1. Served(p, shareOf)
  BY DEF BrowserInv
<1>2. nav' = [nav EXCEPT ![t] = Answered(Ended)] \/ nav' = [nav EXCEPT ![t] = Answered(p)]
  BY DEF Walked, NamesItsShare
<1>3. /\ Answered(Ended) \in Navs /\ Served(Answered(Ended).shows, shareOf)
      /\ Answered(p) \in Navs /\ Served(Answered(p).shows, shareOf)
  BY <1>1, OthersAreServed, AnswersAreServed DEF Answered
<1>4. nav' \in [Tabs -> Navs] /\ \A o \in Tabs : Served(nav'[o].shows, shareOf)
  BY <1>2, <1>3, NavsAreSet
<1> QED BY <1>4 DEF Walked, BrowserInv, PagesGoOn

LEMMA CommitGoesOn ==
  ASSUME RelayInv, BrowserInv, NEW t \in Tabs, Commit(t)
  PROVE PagesGoOn
<1> PICK p \in Page : p = nav[t].shows
  BY DEF BrowserInv, Navs
<1>1. Served(p, shareOf) /\ p.token \in {NoToken} \cup Tokens
  BY DEF BrowserInv, Page
<1>2. cookie' \in {NoToken} \cup Tokens
  BY <1>1, CookiesAreSet DEF Commit
<1>3. page' \in [Tabs -> Page] /\ \A o \in Tabs : Served(page'[o], shareOf)
  BY <1>1 DEF Commit, BrowserInv
<1>4. nav' \in [Tabs -> Navs] /\ \A o \in Tabs : Served(nav'[o].shows, shareOf)
  BY NoNavIsServed, NavsAreSet DEF Commit
<1>5. fetch' \in [Tabs -> Fetches]
  BY NoNavIsServed, FetchesAreSet DEF Commit
<1>6. UNCHANGED <<visits, guarded>>
  BY DEF Commit
<1> QED BY <1>2, <1>3, <1>4, <1>5, <1>6 DEF BrowserInv, PagesGoOn

LEMMA AskGoesOn ==
  ASSUME RelayInv, BrowserInv, NEW t \in Tabs, NEW at \in Sessions \cup {None}, Ask(t, at)
  PROVE PagesGoOn
<1>1. \E f \in Fetches : fetch' = [fetch EXCEPT ![t] = f]
  <2>1. cookie \in {NoToken} \cup Tokens
    BY DEF BrowserInv
  <2>2. \A phase \in {"refused", "answered"} : \A sets \in {NoToken, cookie} : [phase |-> phase, sets |-> sets] \in Fetches
    BY <2>1 DEF Fetches
  <2>3. \E phase \in {"refused", "answered"} : \E sets \in {NoToken, cookie} :
          fetch' = [fetch EXCEPT ![t] = [phase |-> phase, sets |-> sets]]
    <3>1. CASE ~IsItsShare(t, ShareOf(cookie))
      BY <3>1 DEF Ask, Answer
    <3>2. CASE IsItsShare(t, ShareOf(cookie))
      BY <3>2 DEF Ask, Answer
    <3> QED BY <3>1, <3>2
  <2> QED BY <2>2, <2>3
<1>2. fetch' \in [Tabs -> Fetches]
  BY <1>1, FetchesAreSet
<1> QED BY <1>2 DEF Ask, BrowserInv, PagesGoOn

LEMMA ActivateGoesOn ==
  ASSUME RelayInv, BrowserInv, NEW t \in Tabs, Activate(t) \/ Leave(t)
  PROVE PagesGoOn
<1>1. \E f \in Fetches : fetch' = [fetch EXCEPT ![t] = f]
  <2>1. CASE Activate(t)
    <3>1. \E n \in Tokens : fetch' = [fetch EXCEPT ![t] = [phase |-> "joined", sets |-> n]]
      BY <2>1 DEF Activate, Answer
    <3> QED BY <3>1 DEF Fetches
  <2>2. CASE Leave(t)
    BY <2>2 DEF Leave, Answer, Fetches
  <2> QED BY <2>1, <2>2
<1>2. fetch' \in [Tabs -> Fetches]
  BY <1>1, FetchesAreSet
<1> QED BY <1>2 DEF Activate, Leave, BrowserInv, PagesGoOn

LEMMA ArriveGoesOn ==
  ASSUME RelayInv, BrowserInv, NEW t \in Tabs, Arrive(t)
  PROVE PagesGoOn
<1>0. fetch[t] \in Fetches /\ fetch[t].phase # "none" /\ UNCHANGED <<visits, page>>
  BY DEF Arrive, BrowserInv
<1> PICK k : k = cookie'
  OBVIOUS
<1>1. k \in {NoToken} \cup Tokens
  <2>1. fetch[t].sets \in {NoToken} \cup Tokens
    BY <1>0 DEF Fetches
  <2> QED BY <2>1, CookiesAreSet DEF Arrive
<1>2. fetch' \in [Tabs -> Fetches]
  BY NoNavIsServed, FetchesAreSet DEF Arrive
<1>3. page[t].share \in Addresses
  BY DEF BrowserInv, Page, Addresses, Home, Sessions
<1>4. Visit(page[t].share, k) \in Navs /\ Served(Visit(page[t].share, k).shows, shareOf)
  BY <1>3, VisitsAreServed
<1>5. /\ nav' = nav \/ nav' = [nav EXCEPT ![t] = Visit(page[t].share, k)]
      /\ guarded' \subseteq Tabs
  <2>1. CASE fetch[t].phase = "refused" /\ t \notin guarded
    BY <2>1 DEF Arrive, BrowserInv
  <2>2. CASE fetch[t].phase = "refused" /\ t \in guarded
    BY <2>2 DEF Arrive, BrowserInv
  <2>3. CASE fetch[t].phase = "joined"
    BY <2>3 DEF Arrive, BrowserInv
  <2>4. CASE fetch[t].phase = "left"
    BY <2>4 DEF Arrive, BrowserInv
  <2>5. CASE fetch[t].phase = "answered"
    BY <2>5 DEF Arrive, BrowserInv
  <2> QED BY <1>0, <2>1, <2>2, <2>3, <2>4, <2>5 DEF Fetches
<1>6. nav' \in [Tabs -> Navs] /\ \A o \in Tabs : Served(nav'[o].shows, shareOf)
  BY <1>4, <1>5, NavsAreSet DEF BrowserInv
<1> QED BY <1>0, <1>1, <1>2, <1>5, <1>6 DEF BrowserInv, PagesGoOn

LEMMA BrowserKeeps ==
  ASSUME PagesInv, Next, TokensKeep
  PROVE BrowserInv'
<1>0. RelayInv /\ BrowserInv
  BY DEF PagesInv
<1>1. PagesGoOn
  <2>1. ASSUME UNCHANGED <<visits, cookie, page, nav, fetch, guarded>> PROVE PagesGoOn
    BY <1>0, <2>1 DEF BrowserInv, PagesGoOn
  <2>2. ASSUME NEW s \in Shares, EndShare(s) \/ StartShare(s) PROVE PagesGoOn
    BY <2>1, <2>2 DEF EndShare, StartShare, browserVars
  <2>3. ASSUME NEW n \in Tokens, Expire(n) PROVE PagesGoOn
    BY <2>1, <2>3 DEF Expire, browserVars
  <2>4. ASSUME NEW t \in Tabs, Prompt(t) PROVE PagesGoOn
    BY <2>1, <2>4 DEF Prompt, browserVars
  <2>5. ASSUME NEW t \in Tabs, WindowEnds(t) PROVE PagesGoOn
    BY <1>0, <2>5 DEF WindowEnds, BrowserInv, PagesGoOn
  <2> QED BY <1>0, <2>2, <2>3, <2>4, <2>5, OpenGoesOn, WalkedGoesOn, CommitGoesOn, AskGoesOn,
             ActivateGoesOn, ArriveGoesOn DEF Next, Others
<1>2. \A t \in Tabs : Served(page'[t], shareOf') /\ Served(nav'[t].shows, shareOf')
  BY <1>1, ServedStays DEF PagesGoOn
<1> QED BY <1>1, <1>2 DEF BrowserInv, PagesGoOn

---------------------------------------------------------------------------
(* The drafts *)

LEMMA StoppingKeeps ==
  ASSUME DraftInv, StopFollowing
  PROVE DraftInv'
BY DEF DraftInv, OfOneShare, StopFollowing

\* The page of a tab comes up; the pages of others are what they were.
LEMMA CommitKeepsDrafts ==
  ASSUME BrowserInv, DraftInv, NEW t \in Tabs, Commit(t)
  PROVE DraftInv'
<1> PICK p \in Page : p = nav[t].shows
  BY DEF BrowserInv, Navs
<1>0. /\ page'[t] = p /\ \A o \in Tabs \ {t} : page'[o] = page[o]
      /\ p.kind = "ui" => p.share \in Shares
  BY DEF BrowserInv, Commit, Served
<1>1. CASE mixed
  BY <1>1 DEF Commit, draftVars, DraftInv
<1>2. CASE ~mixed /\ p.kind # "ui"
  <2>1. /\ seen' \in [Tabs -> SUBSET Shares] /\ seen'[t] = {} /\ \A o \in Tabs \ {t} : seen'[o] = seen[o]
        /\ kept' = kept \ {t} /\ UNCHANGED <<key, drafts, mixed>>
    BY <1>2 DEF Commit, Close, DraftInv
  <2>2. \A o \in Tabs : OfOneShare(seen'[o])
    BY <1>2, <2>1 DEF DraftInv, OfOneShare
  <2> QED BY <1>0, <1>2, <2>1, <2>2 DEF DraftInv, Ui, OfOneShare
<1>3. CASE /\ ~mixed /\ p.kind = "ui"
           /\ \E o \in Tabs \ {t} : page[o].kind = "ui" /\ page[o].share # p.share
  BY <1>3, StoppingKeeps DEF Commit
<1>4. CASE /\ ~mixed /\ p.kind = "ui"
           /\ ~ \E o \in Tabs \ {t} : page[o].kind = "ui" /\ page[o].share # p.share
  <2> PICK cleared \in BOOLEAN : (key = p.share => cleared) /\ LoadDrafts(t, p.share, cleared)
    BY <1>4 DEF Commit
  <2>1. \A o, q \in Tabs : Ui(o)' /\ Ui(q)' => page'[o].share = page'[q].share
    BY <1>0, <1>4 DEF Ui
  <2>2. \A o \in Tabs : Ui(o)' => page'[o].share = p.share
    BY <1>0, <1>4 DEF Ui
  <2>3. UNCHANGED mixed
    BY DEF LoadDrafts
  <2>4. /\ drafts' \subseteq Shares /\ seen' \in [Tabs -> SUBSET Shares] /\ seen'[t] = drafts'
        /\ \A o \in Tabs \ {t} : seen'[o] = seen[o]
    BY DEF LoadDrafts, DraftInv
  <2>a. /\ OfOneShare(drafts)' /\ \A o \in Tabs : OfOneShare(seen'[o])
    <3>1. OfOneShare(drafts) /\ OfOneShare({}) /\ \A o \in Tabs : OfOneShare(seen[o])
      BY <1>4 DEF DraftInv, OfOneShare
    <3>2. drafts' \in {drafts, {}}
      BY DEF LoadDrafts
    <3>3. OfOneShare(drafts')
      BY <3>1, <3>2
    <3> QED BY <2>4, <3>1, <3>3 DEF OfOneShare
  <2>5. CASE cleared
    <3>1. key' = p.share /\ kept' = kept \ {t} /\ drafts' = IF key # p.share THEN {} ELSE drafts
      BY <2>5 DEF LoadDrafts, Records
    <3>2. drafts' \subseteq {p.share}
      BY <1>0, <1>4, <3>1 DEF DraftInv
    <3>3. \A o \in Tabs \ kept' : Ui(o)' => seen'[o] \subseteq {p.share}
      <4> SUFFICES ASSUME NEW o \in Tabs \ kept', Ui(o)', o # t PROVE seen[o] \subseteq {p.share}
        BY <2>4, <3>2
      <4>1. o \notin kept /\ Ui(o) /\ page[o].share = p.share
        BY <1>0, <2>2, <3>1 DEF Ui
      <4> QED BY <4>1, <1>4 DEF DraftInv
    <3> QED BY <1>0, <1>4, <2>1, <2>2, <2>3, <2>4, <2>a, <3>1, <3>2, <3>3 DEF DraftInv, OfOneShare
  <2>6. CASE ~cleared
    <3>1. UNCHANGED <<key, drafts>> /\ kept' = kept \cup {t}
      BY <2>6 DEF LoadDrafts, Records
    <3>2. \A o \in Tabs \ kept' : Ui(o)' => key \in {None, p.share} /\ seen'[o] \subseteq {p.share}
      <4> SUFFICES ASSUME NEW o \in Tabs \ kept', Ui(o)'
                   PROVE key \in {None, p.share} /\ seen[o] \subseteq {p.share}
        BY <2>4, <3>1
      <4>1. o # t /\ o \notin kept /\ Ui(o) /\ page[o].share = p.share
        BY <1>0, <2>2, <3>1 DEF Ui
      <4> QED BY <4>1, <1>4 DEF DraftInv
    <3> QED BY <1>4, <2>1, <2>2, <2>3, <2>4, <2>a, <3>1, <3>2 DEF DraftInv, OfOneShare
  <2> QED BY <2>5, <2>6
<1> QED BY <1>1, <1>2, <1>3, <1>4

LEMMA PromptKeepsDrafts ==
  ASSUME BrowserInv, DraftInv, NEW t \in Tabs, Prompt(t)
  PROVE DraftInv'
<1>0. /\ Ui(t) /\ ~mixed /\ UNCHANGED page /\ page[t].share \in Shares
  BY DEF Prompt, Ui, browserVars, BrowserInv, Served
<1>1. CASE t \in kept
  BY <1>1, StoppingKeeps DEF Prompt
<1>2. CASE t \notin kept
  <2>1. /\ seen' = [seen EXCEPT ![t] = @ \cup {page[t].share}]
        /\ drafts' = seen'[t] /\ UNCHANGED <<key, kept, mixed>>
    BY <1>2 DEF Prompt
  <2>2. seen' \in [Tabs -> SUBSET Shares] /\ \A o \in Tabs \ {t} : seen'[o] = seen[o]
    BY <1>0, <2>1 DEF DraftInv
  <2>3. key \in {None, page[t].share} /\ seen'[t] \subseteq {page[t].share}
    BY <1>0, <1>2, <2>1 DEF DraftInv
  <2>4. key \in Shares => key = page[t].share
    BY <2>3, NamesDiffer
  <2>5. \A o \in Tabs : Ui(o)' <=> Ui(o)
    BY <1>0 DEF Ui
  <2>6. /\ OfOneShare(drafts)' /\ \A o \in Tabs : OfOneShare(seen'[o])
    BY <1>0, <2>1, <2>2, <2>3 DEF DraftInv, OfOneShare
  <2> QED BY <1>0, <2>1, <2>2, <2>3, <2>4, <2>5, <2>6 DEF DraftInv, OfOneShare
<1> QED BY <1>1, <1>2

LEMMA DraftsKeep ==
  ASSUME PagesInv, Next
  PROVE DraftInv'
<1>0. BrowserInv /\ DraftInv
  BY DEF PagesInv
<1>1. ASSUME UNCHANGED <<page, key, drafts, seen, kept, mixed>> PROVE DraftInv'
  BY <1>0, <1>1 DEF DraftInv, Ui, OfOneShare
<1>2. ASSUME NEW s \in Shares, EndShare(s) \/ StartShare(s) PROVE DraftInv'
  BY <1>1, <1>2 DEF EndShare, StartShare, browserVars, draftVars
<1>3. ASSUME NEW n \in Tokens, Expire(n) PROVE DraftInv'
  BY <1>1, <1>3 DEF Expire, browserVars, draftVars
<1>4. ASSUME NEW t \in Tabs,
             (\E to \in Addresses : Open(t, to)) \/ Walked(t) \/ Activate(t) \/ Leave(t) \/ WindowEnds(t)
               \/ (\E at \in Sessions \cup {None} : Ask(t, at))
      PROVE DraftInv'
  BY <1>1, <1>4 DEF Open, Walked, Activate, Leave, WindowEnds, Ask, draftVars
<1>5. ASSUME NEW t \in Tabs, Arrive(t) PROVE DraftInv'
  <2>1. UNCHANGED <<page, seen, kept, mixed>> /\ (UNCHANGED <<key, drafts>> \/ (key' = None /\ drafts' = {}))
    BY <1>5 DEF Arrive
  <2> QED BY <1>0, <2>1, NamesDiffer DEF DraftInv, Ui, OfOneShare
<1> QED BY <1>0, <1>2, <1>3, <1>4, <1>5, CommitKeepsDrafts, PromptKeepsDrafts DEF Next, Others

---------------------------------------------------------------------------
(* What requests are answered *)

LEMMA AskKeepsAnswers ==
  ASSUME RelayInv, BrowserInv, AnswerInv, NEW t \in Tabs, NEW at \in Sessions \cup {None}, Ask(t, at), Steady
  PROVE AnswerInv'
<1>0. /\ Ui(t) /\ at \in AskedBy(page[t])
      /\ UNCHANGED <<live, ends, shareOf, valid, cookie, page, nav>>
      /\ steady' \subseteq Tabs
  BY DEF Ask, Ui, relayVars, Steady
<1>1. \A o \in steady' : o \in steady /\ page[o].token = cookie /\ cookie \in valid
  BY <1>0 DEF Steady
<1>2. Served(page[t], shareOf) /\ fetch \in [Tabs -> Fetches]
  BY DEF BrowserInv
<1> PICK share : share = ShareOf(cookie)
  OBVIOUS
<1>3. \A o \in Tabs \ {t} : fetch'[o].phase = fetch[o].phase
  <2>1. \E f : fetch' = [fetch EXCEPT ![t] = f]
    <3>1. CASE ~IsItsShare(t, share)
      BY <3>1 DEF Ask, Answer
    <3>2. CASE IsItsShare(t, share)
      BY <3>2 DEF Ask, Answer
    <3> QED BY <3>1, <3>2
  <2> QED BY <2>1, <1>2
<1>4. CASE ~IsItsShare(t, share)
  <2>1. ran' = None
    BY <1>4 DEF Ask
  <2>2. t \notin steady'
    <3> SUFFICES ASSUME t \in steady' PROVE FALSE
      OBVIOUS
    <3>1. page[t].token = cookie /\ cookie \in valid
      BY <1>1
    <3>2. share = page[t].share /\ share \in Shares
      BY <1>0, <1>2, <3>1 DEF Served, Ui, ShareOf
    <3> QED BY <1>4, <3>2, NamesDiffer DEF IsItsShare
  <2> QED BY <1>0, <1>1, <1>3, <2>1, <2>2 DEF AnswerInv
<1>5. CASE IsItsShare(t, share)
  <2>1. share \in Shares /\ page[t].share = share
    BY <1>5, SharesOfTokens DEF IsItsShare
  <2> PICK v \in IF at \in {None, share} THEN {"true"} ELSE Verdicts(share, at) :
        /\ Answer(t, IF v = "false" THEN "refused" ELSE "answered", cookie)
        /\ ran' = IF v = "true" THEN [tab |-> t, at |-> at, share |-> share] ELSE None
    BY <1>5 DEF Ask
  <2>2. v = "true" => InShare(at, share)
    BY <2>1 DEF Verdicts, InShare
  <2>3. v = "false" => ~InShare(at, share) /\ at = page[t].id
    <3> SUFFICES ASSUME v = "false" PROVE ~InShare(at, share) /\ at = page[t].id
      OBVIOUS
    <3>1. at \notin {None, share} /\ ~(at \in Children /\ ParentOf[at] = share)
      BY DEF Verdicts
    <3> QED BY <1>0, <2>1, <3>1 DEF InShare, AskedBy
  <2>4. fetch'[t].phase = "refused" => v = "false"
    BY <1>2 DEF Answer
  <2>5. ran' \in {None} \cup [tab : Tabs, at : Sessions \cup {None}, share : Shares]
    BY <2>1
  <2>6. ran' # None => page'[ran'.tab].share = ran'.share /\ InShare(ran'.at, ran'.share)
    BY <1>0, <2>1, <2>2
  <2>7. \A o \in steady' : fetch'[o].phase = "refused" => ~InShare(page'[o].id, page'[o].share)
    BY <1>0, <1>1, <1>3, <2>1, <2>3, <2>4 DEF AnswerInv
  <2>8. InShare(ran.at, ran.share)' = InShare(ran'.at, ran'.share)
    BY DEF InShare
  <2> QED BY <1>0, <2>5, <2>6, <2>7, <2>8 DEF AnswerInv, InShare
<1> QED BY <1>4, <1>5

\* A step that refuses no request, and is no page's arrival at a tab that has one
\* refused, makes no page steady that has one.
LEMMA OthersKeepAnswers ==
  ASSUME AnswerInv, ran' = None, Steady,
         \A t \in Tabs : fetch'[t].phase = "refused" =>
           /\ fetch[t].phase = "refused" /\ page'[t] = page[t]
           /\ ~(nav[t].phase = "answered" /\ nav'[t].phase = "none")
  PROVE AnswerInv'
BY DEF AnswerInv, Steady, InShare

\* What every step but a request does to requests.
NoneRefused ==
  \A t \in Tabs : fetch'[t].phase = "refused" =>
    /\ fetch[t].phase = "refused" /\ page'[t] = page[t]
    /\ ~(nav[t].phase = "answered" /\ nav'[t].phase = "none")

LEMMA OthersRefuseNone ==
  ASSUME RelayInv, BrowserInv, Others
  PROVE NoneRefused
<1>0. fetch \in [Tabs -> Fetches] /\ nav \in [Tabs -> Navs] /\ page \in [Tabs -> Page]
  BY DEF BrowserInv
<1>1. ASSUME UNCHANGED <<page, nav, fetch>> PROVE NoneRefused
  BY <1>1 DEF NoneRefused
<1>2. ASSUME NEW s \in Shares, EndShare(s) \/ StartShare(s) PROVE NoneRefused
  BY <1>1, <1>2 DEF EndShare, StartShare, browserVars
<1>3. ASSUME NEW n \in Tokens, Expire(n) PROVE NoneRefused
  BY <1>1, <1>3 DEF Expire, browserVars
<1>4. ASSUME NEW t \in Tabs, NEW to \in Addresses, Open(t, to) PROVE NoneRefused
  BY <1>0, <1>4 DEF Open, NoneRefused
<1>5. ASSUME NEW t \in Tabs, Walked(t) PROVE NoneRefused
  BY <1>0, <1>5 DEF Walked, NoneRefused
<1>6. ASSUME NEW t \in Tabs, Commit(t) PROVE NoneRefused
  BY <1>0, <1>6 DEF Commit, NoFetch, NoneRefused
<1>7. ASSUME NEW t \in Tabs, Prompt(t) \/ WindowEnds(t) PROVE NoneRefused
  BY <1>1, <1>7 DEF Prompt, WindowEnds, browserVars
<1>8. ASSUME NEW t \in Tabs, Activate(t) \/ Leave(t) PROVE NoneRefused
  <2>1. /\ UNCHANGED <<page, nav>>
        /\ \E f : f.phase # "refused" /\ fetch' = [fetch EXCEPT ![t] = f]
    BY <1>8 DEF Activate, Leave, Answer
  <2> QED BY <1>0, <2>1 DEF NoneRefused
<1>9. ASSUME NEW t \in Tabs, Arrive(t) PROVE NoneRefused
  <2>1. page' = page /\ fetch' = [fetch EXCEPT ![t] = NoFetch] /\ fetch[t].phase # "none"
    BY <1>9 DEF Arrive
  <2>2. \E n : nav' = [nav EXCEPT ![t] = n]
    <3>1. nav = [nav EXCEPT ![t] = nav[t]]
      BY <1>0
    <3>2. CASE (fetch[t].phase = "refused" /\ t \notin guarded) \/ fetch[t].phase = "joined"
      BY <1>9, <3>2 DEF Arrive
    <3>3. CASE ~((fetch[t].phase = "refused" /\ t \notin guarded) \/ fetch[t].phase = "joined")
      BY <1>0, <1>9, <3>1, <3>3, <2>1 DEF Arrive, Fetches
    <3> QED BY <3>2, <3>3
  <2> QED BY <1>0, <2>1, <2>2 DEF NoneRefused, NoFetch
<1> QED BY <1>2, <1>3, <1>4, <1>5, <1>6, <1>7, <1>8, <1>9 DEF Others

LEMMA AnswersKeep ==
  ASSUME PagesInv, Next
  PROVE AnswerInv'
<1>0. RelayInv /\ BrowserInv /\ AnswerInv /\ Steady
  BY DEF PagesInv, Next
<1>1. ASSUME NEW t \in Tabs, NEW at \in Sessions \cup {None}, Ask(t, at) PROVE AnswerInv'
  BY <1>0, <1>1, AskKeepsAnswers
<1>2. ASSUME Others, ran' = None PROVE AnswerInv'
  BY <1>0, <1>2, OthersRefuseNone, OthersKeepAnswers DEF NoneRefused
<1> QED BY <1>1, <1>2 DEF Next

---------------------------------------------------------------------------
(* The theorems *)

LEMMA PagesInvHolds == Spec => []PagesInv
<1>1. Init => PagesInv
  <2> SUFFICES ASSUME Init PROVE PagesInv
    OBVIOUS
  <2>1. RelayInv
    BY BoundsAreNatural DEF Init, RelayInv
  <2>2. \A t \in Tabs : page[t] = Code(LinkOf[t]) /\ LinkOf[t] \in Shares
    BY EveryTabHasALink DEF Init
  <2>3. \A t \in Tabs : page[t] \in Page /\ Served(page[t], shareOf) /\ ~Ui(t)
    <3> TAKE t \in Tabs
    <3>1. page[t] \in Page /\ Served(page[t], shareOf)
      BY <2>2, OthersAreServed
    <3>2. \A s : Code(s).kind = "code"
      BY DEF Code
    <3>3. page[t].kind = "code"
      BY <2>2, <3>2
    <3> QED BY <3>1, <3>3 DEF Ui
  <2>4. BrowserInv
    BY <2>3, NoNavIsServed, BoundsAreNatural DEF Init, BrowserInv
  <2>5. DraftInv
    BY <2>3, NamesDiffer DEF Init, DraftInv, OfOneShare
  <2>6. AnswerInv
    BY DEF Init, AnswerInv
  <2> QED BY <2>1, <2>4, <2>5, <2>6 DEF PagesInv
<1>2. PagesInv /\ [Next]_vars => PagesInv'
  <2> SUFFICES ASSUME PagesInv, [Next]_vars PROVE PagesInv'
    OBVIOUS
  <2>1. CASE Next
    BY <2>1, RelayKeeps, BrowserKeeps, DraftsKeep, AnswersKeep DEF PagesInv
  <2>2. CASE UNCHANGED vars
    <3>1. UNCHANGED <<live, ends, shareOf, valid, visits, cookie, page, nav, fetch, guarded,
                      key, drafts, seen, kept, mixed, ran, steady>>
      BY <2>2 DEF vars, relayVars, browserVars, draftVars
    <3>2. RelayInv' /\ BrowserInv'
      BY <3>1 DEF PagesInv, RelayInv, BrowserInv, Served
    <3>3. DraftInv' /\ AnswerInv'
      BY <3>1 DEF PagesInv, DraftInv, OfOneShare, AnswerInv, Ui, InShare
    <3> QED BY <3>2, <3>3 DEF PagesInv
  <2> QED BY <2>1, <2>2
<1> QED BY <1>1, <1>2, PTL DEF Spec

\* A request is carried out in the share its page is for, and in the share whose
\* session it is addressed to, whatever the browser's other tabs join
\* (adapter.ts: requireViewer, readableSessionId).
THEOREM PagesAlwaysKeepToTheirShare == Spec => []PagesKeepToTheirShare
<1>1. PagesInv => PagesKeepToTheirShare
  BY DEF PagesInv, RelayInv, BrowserInv, DraftInv, AnswerInv, PagesKeepToTheirShare, TypeOK, Navs, Fetches
<1> QED BY <1>1, PagesInvHolds, PTL

\* The guard takes a page away only if the access it was served with is over, or
\* gave way to another (server.ts: authGuard).
THEOREM GuardsLeaveForAReason == Spec => GuardLeavesForAReason
<1> DEFINE Leaves ==
      \A t \in Tabs :
        fetch[t].phase = "refused" /\ fetch'[t].phase = "none" /\ nav[t] # nav'[t] /\ nav'[t].phase # "none"
          /\ InShare(page[t].id, page[t].share) => t \notin steady
<1>1. PagesInv => Leaves
  BY DEF PagesInv, AnswerInv
<1> QED BY <1>1, PagesInvHolds, PTL DEF GuardLeavesForAReason

\* A page offers the prompts of one share at most, its own if it could clear the
\* drafts as it came up, until pages of two shares are open at once or a page that
\* could not clear sends a prompt (server.ts: draftsReset).
THEOREM DraftsAreAlwaysKeptApart == Spec => []DraftsAreKeptApart
<1>1. PagesInv => DraftsAreKeptApart
  BY DEF PagesInv, DraftInv, DraftsAreKeptApart, OfOneShare, Ui
<1> QED BY <1>1, PagesInvHolds, PTL
=============================================================================
