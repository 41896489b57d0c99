------------------------------ MODULE Catalogue -----------------------------
(***************************************************************************)
(* The catalogue: MainActivity selects what to list and loads the first    *)
(* page of it, the GridVideoFragment on the screen loads the next pages    *)
(* when the user scrolls, each with a URLLoader.  The grid has no counter  *)
(* of its own: it moves the page of the VideoData it shares with the       *)
(* activity, which a new selection sets back to 1.                         *)
(*                                                                         *)
(* Everything runs on the main thread but the requests.  What is posted    *)
(* to the looper (a fragment transaction, the first page) is done in       *)
(* order, after the events of the user that come before its turn.          *)
(***************************************************************************)
EXTENDS Integers, Sequences

CONSTANTS
    Filters,         \* what a genre or a search keyword selects
    MAX_PAGE_COUNT,
    MaxSelects,      \* bound: how often the user selects something else to see
    MaxErrors        \* bound: how many requests for a page fail

ASSUME CatalogueAssumption ==
    MAX_PAGE_COUNT \in Nat \ {0} /\ MaxSelects \in Nat /\ MaxErrors \in Nat

Types  == {"movies", "shows"}
NoType == "none"

VARIABLES
    \* MainActivity
    currentVideoData, \* the type that is selected
    page,             \* of each VideoData
    filter,           \* of each VideoData: its genre or its keywords
    genrePosts,       \* Runnables that are posted to the list of genres
    list,             \* the loader of the first page
    started,          \* the activity is in front
    \* the looper
    looper,           \* what is posted
    commit,           \* the fragment of the transaction that is posted
    \* the fragment on the screen
    shown,
    pageLoader,       \* of a grid: the loader of its next page
    pageFailed,       \* of a grid: its delayed answer to an error waits
    failedBefore,     \* of each VideoData: answers to errors of grids that are gone
    \* the application
    crashed,
    \* bounds
    selects, errors,
    \* history
    strayed,          \* the VideoData whose page another one than their grid has moved
    ended,            \* the grid has been told that there is no next page
    unread            \* the grid has got an answer that it could not read

selection == <<currentVideoData, page, filter, genrePosts>>
posted    == <<looper, commit>>
grid      == <<shown, pageLoader, pageFailed, ended, unread>>
vars      == <<selection, list, started, posted, grid, failedBefore, crashed, selects, errors,
               strayed>>

Request(t, f, n) == [type |-> t, filter |-> f, page |-> n]

\* A grid keeps the requests its videos come from.
Fragment(kind) == [kind |-> kind, data |-> NoType, pages |-> <<>>, canLoadPage |-> FALSE]
GridVideoFragment(t, pages) ==
    [Fragment("grid") EXCEPT !.data = t, !.pages = pages, !.canLoadPage = TRUE]
NoFragment == Fragment("none")

\* A loader: no task, a task with its request, or the response that was stored.
Loaders(at, request, answer) == [at |-> at, request |-> request, answer |-> answer]
NoLoader      == Loaders("none", Request(NoType, NoType, 0), "none")
Load(request) == Loaders("running", request, "none")

\* "broken" is an answer that is no list of videos, or an error without a text.
Answers == {"videos", "empty", "broken", "error"}

Init ==
    /\ currentVideoData = NoType
    /\ page = [t \in Types |-> 1] /\ genrePosts = 0
    /\ filter \in {[t \in Types |-> f] : f \in Filters}
    /\ list = NoLoader /\ pageLoader = NoLoader
    /\ started = TRUE /\ crashed = FALSE
    /\ looper = <<>> /\ commit = NoFragment /\ shown = NoFragment
    /\ pageFailed = FALSE /\ failedBefore = [t \in Types |-> 0]
    /\ selects = 0 /\ errors = 0 /\ strayed = {}
    /\ ended = FALSE /\ unread = FALSE

-----------------------------------------------------------------------------
(* The looper and the loaders.                                              *)

Commit  == [what |-> "commit", response |-> NoLoader]
Post(r) == [what |-> "list", response |-> r]

\* replaceFragment: the transactions that wait are executed together.
ReplaceFragment(queue, f) ==
    /\ commit' = f
    /\ looper' = IF commit = NoFragment THEN Append(queue, Commit) ELSE queue

Response(loader, answer) == [loader EXCEPT !.at = "stored", !.answer = answer]

StoredResponse_Lost(loader, answer) == NoLoader

\* setResponse: kept until the next start.
StoredResponse(loader, answer) == Response(loader, answer)

\* onPostExecute of the task of a loader.
Finishes(loader, answer) ==
    loader' = IF started THEN NoLoader ELSE StoredResponse(loader, answer)

RestartVideosLoader_Init(t) ==
    /\ list' = IF list = NoLoader THEN Load(Request(t, filter'[t], page'[t])) ELSE list
    /\ ReplaceFragment(looper, Fragment("loading"))

\* The first page of t, in place of what is on the screen.
RestartVideosLoader(t) ==
    /\ list' = Load(Request(t, filter'[t], page'[t]))
    /\ ReplaceFragment(looper, Fragment("loading"))

-----------------------------------------------------------------------------
(* The user.                                                                *)

Acts == started /\ ~crashed

Selects ==
    /\ Acts /\ selects < MaxSelects
    /\ selects' = selects + 1
    /\ UNCHANGED <<started, grid, failedBefore, crashed, errors>>

FirstPage_Kept(t) == UNCHANGED <<page, strayed>>

FirstPage(t) ==
    IF t \in Types
      THEN page' = [page EXCEPT ![t] = 1] /\ strayed' = strayed \ {t}
      ELSE UNCHANGED <<page, strayed>>

\* The list of genres is to move to the genre of t when it is laid out.
SelectVideoData(t) ==
    /\ FirstPage(currentVideoData)
    /\ currentVideoData' = t
    /\ genrePosts' = genrePosts + 1
    /\ RestartVideosLoader(t)

\* The Runnable of selectVideoData takes the selection of now, if there is one.  It waits
\* for the first layout before the list is attached, so it does not keep its place in the looper.
ShowGenre ==
    /\ ~crashed /\ genrePosts > 0
    /\ genrePosts' = genrePosts - 1
    /\ crashed' = (currentVideoData = NoType)
    /\ UNCHANGED <<currentVideoData, page, filter, list, started, posted, grid, failedBefore,
                   selects, errors, strayed>>

\* The selection stays, what it lists changes.
Reload(f) ==
    /\ FirstPage(currentVideoData)
    /\ filter' = [filter EXCEPT ![currentVideoData] = f]
    /\ RestartVideosLoader(currentVideoData)
    /\ UNCHANGED <<currentVideoData, genrePosts>>

\* onMoviesClick, onTVShowsClick.
ClickType(t) ==
    /\ Selects /\ currentVideoData # t
    /\ UNCHANGED filter
    /\ SelectVideoData(t)

\* selecteGenre; without a selection it means the movies.
SelectGenre(f) ==
    /\ Selects
    /\ IF currentVideoData = NoType
         THEN filter' = [filter EXCEPT !["movies"] = f] /\ SelectVideoData("movies")
         ELSE Reload(f)

Search(f) == Selects /\ currentVideoData # NoType /\ Reload(f)

\* unselectVideoData and destroyLoader; a message that is posted is not taken back.
Leave(fragment) ==
    /\ Selects
    /\ FirstPage(currentVideoData)
    /\ currentVideoData' = NoType
    /\ list' = NoLoader
    /\ ReplaceFragment(looper, fragment)
    /\ UNCHANGED <<filter, genrePosts>>

Favorites  == shown.kind # "favorites" /\ Leave(Fragment("favorites"))
OpenTorrent == Leave(Fragment("custom"))

\* retryLoad; nothing may be selected any more.
Retry ==
    /\ Acts /\ selects < MaxSelects /\ shown.kind = "error"
    /\ selects' = selects + 1
    /\ UNCHANGED <<selection, started, grid, failedBefore, errors, strayed>>
    /\ IF currentVideoData = NoType
         THEN crashed' = TRUE /\ UNCHANGED <<list, posted>>
         ELSE crashed' = crashed /\ RestartVideosLoader(currentVideoData)

\* Another activity comes in front, and goes.
Stop ==
    /\ Acts /\ started' = FALSE
    /\ UNCHANGED <<selection, list, posted, grid, failedBefore, crashed, selects, errors, strayed>>

-----------------------------------------------------------------------------
(* The first page.                                                          *)

ListDone(answer) ==
    /\ ~crashed /\ list.at = "running"
    /\ Finishes(list, answer)
    /\ looper' = IF started THEN Append(looper, Post(Response(list, answer))) ELSE looper
    /\ UNCHANGED <<selection, started, commit, grid, failedBefore, crashed, selects, errors,
                   strayed>>

\* videoListFinished; the grid takes the selection of now.
VideoListFinished(response) ==
    ReplaceFragment(Tail(looper),
        CASE response.answer = "videos" ->
                GridVideoFragment(currentVideoData, <<response.request>>)
          [] response.answer = "empty" -> GridVideoFragment(currentVideoData, <<>>)
          [] OTHER -> Fragment("error"))

\* The fragment that goes destroys its loader, not its delayed answer.
ExecuteCommit ==
    /\ shown' = commit /\ commit' = NoFragment
    /\ looper' = Tail(looper)
    /\ pageLoader' = NoLoader /\ pageFailed' = FALSE
    /\ ended' = FALSE /\ unread' = FALSE
    /\ failedBefore' = IF pageFailed THEN [failedBefore EXCEPT ![shown.data] = @ + 1]
                                     ELSE failedBefore

HandleMessage ==
    /\ ~crashed /\ looper # <<>>
    /\ \/ Head(looper).what = "commit" /\ ExecuteCommit
       \/ /\ Head(looper).what = "list"
          /\ VideoListFinished(Head(looper).response)
          /\ UNCHANGED <<grid, failedBefore>>
    /\ UNCHANGED <<selection, list, started, crashed, selects, errors, strayed>>

-----------------------------------------------------------------------------
(* The next pages.                                                          *)

\* The screen shows what was selected last, and nothing else is on its way.
Settled == list = NoLoader /\ looper = <<>>

\* The page of t moves; it strays unless the grid of the selection moves it.
MovePage(t, n, own) ==
    /\ page' = [page EXCEPT ![t] = @ + n]
    /\ strayed' = IF own /\ Settled THEN strayed ELSE strayed \cup {t}

CanLoadPage == shown.canLoadPage

RestartVideosPageLoader ==
    LET t == shown.data
        next == page[t] + 1 IN
    /\ MovePage(t, 1, TRUE)
    /\ pageLoader' = IF next <= MAX_PAGE_COUNT THEN Load(Request(t, filter[t], next))
                                               ELSE pageLoader
    /\ ended' = (next > MAX_PAGE_COUNT)

\* onScroll near the end of what there is.
OnScroll ==
    /\ Acts /\ CanLoadPage /\ shown.pages # <<>>
    /\ shown' = [shown EXCEPT !.canLoadPage = FALSE]
    /\ IF shown.data = NoType
         THEN crashed' = TRUE /\ UNCHANGED <<page, strayed, pageLoader, ended>>
         ELSE crashed' = crashed /\ RestartVideosPageLoader
    /\ UNCHANGED <<currentVideoData, filter, genrePosts, list, started, posted, pageFailed, unread,
                   failedBefore, selects, errors>>

\* After a list without videos, and after an answer that it cannot read, the grid does nothing:
\* the page stays moved, and canLoadPage FALSE.
VideosPageFinished(response) ==
    /\ pageFailed' = (response.answer = "error")
    /\ ended' = (response.answer = "empty")
    /\ unread' = (response.answer = "broken")
    /\ shown' = IF response.answer = "videos"
                  THEN [shown EXCEPT !.canLoadPage = TRUE, !.pages = Append(@, response.request)]
                  ELSE shown

PageDone(answer) ==
    /\ ~crashed /\ pageLoader.at = "running"
    /\ answer = "error" => errors < MaxErrors
    /\ errors' = IF answer = "error" THEN errors + 1 ELSE errors
    /\ Finishes(pageLoader, answer)
    /\ IF started THEN VideosPageFinished(Response(pageLoader, answer))
                  ELSE UNCHANGED <<shown, pageFailed, ended, unread>>
    /\ UNCHANGED <<selection, list, started, posted, failedBefore, crashed, selects, strayed>>

\* The loaders deliver what they have stored, in both loader managers.
Start ==
    /\ ~started /\ ~crashed /\ started' = TRUE
    /\ IF list.at = "stored" THEN list' = NoLoader /\ looper' = Append(looper, Post(list))
                             ELSE UNCHANGED <<list, looper>>
    /\ IF pageLoader.at = "stored"
         THEN pageLoader' = NoLoader /\ VideosPageFinished(pageLoader)
         ELSE UNCHANGED grid
    /\ UNCHANGED <<selection, commit, failedBefore, crashed, selects, errors, strayed>>

PageBack_Kept(t, own) == UNCHANGED <<page, strayed>>

PageBack(t, own) == MovePage(t, -1, own)

\* PAGE_ERROR_DELAY has passed.
AnswerError ==
    /\ ~crashed /\ pageFailed
    /\ pageFailed' = FALSE
    /\ PageBack(shown.data, TRUE)
    /\ shown' = [shown EXCEPT !.canLoadPage = TRUE]
    /\ UNCHANGED <<currentVideoData, filter, genrePosts, list, started, posted, pageLoader,
                   failedBefore, crashed, selects, errors, ended, unread>>

\* The grid has gone; its answer takes the page back all the same.
AnswerErrorLate(t) ==
    /\ ~crashed /\ failedBefore[t] > 0
    /\ failedBefore' = [failedBefore EXCEPT ![t] = @ - 1]
    /\ PageBack(t, FALSE)
    /\ UNCHANGED <<currentVideoData, filter, genrePosts, list, started, posted, grid, crashed,
                   selects, errors>>

-----------------------------------------------------------------------------
User ==
    \/ \E t \in Types : ClickType(t)
    \/ \E f \in Filters : SelectGenre(f) \/ Search(f)
    \/ Favorites \/ OpenTorrent \/ Retry \/ Stop

AnyListDone == \E answer \in Answers : ListDone(answer)
AnyPageDone == \E answer \in Answers : PageDone(answer)

Next ==
    \/ User \/ OnScroll \/ Start
    \/ AnyListDone \/ AnyPageDone \/ HandleMessage \/ ShowGenre
    \/ AnswerError \/ \E t \in Types : AnswerErrorLate(t)

\* A request ends, one way or the other, and the looper runs.
Fairness ==
    /\ WF_vars(AnyListDone) /\ WF_vars(AnyPageDone) /\ WF_vars(HandleMessage)
    /\ WF_vars(AnswerError)

Spec == Init /\ [][Next]_vars /\ Fairness

-----------------------------------------------------------------------------
Requests  == [type : Types \cup {NoType}, filter : Filters \cup {NoType}, page : Int]
LoaderSet == [at : {"none", "running", "stored"}, request : Requests,
              answer : Answers \cup {"none"}]
Fragments == [kind : {"none", "loading", "error", "grid", "favorites", "custom"},
              data : Types \cup {NoType}, pages : Seq(Requests), canLoadPage : BOOLEAN]

(* The fields have their types, and only a grid has a page on its way, or   *)
(* an error to answer, never both.                                          *)
TypeOK ==
    /\ currentVideoData \in Types \cup {NoType}
    /\ page \in [Types -> Int] /\ filter \in [Types -> Filters] /\ genrePosts \in Nat
    /\ list \in LoaderSet /\ pageLoader \in LoaderSet
    /\ looper \in Seq([what : {"commit", "list"}, response : LoaderSet])
    /\ shown \in Fragments /\ commit \in Fragments
    /\ started \in BOOLEAN /\ crashed \in BOOLEAN
    /\ pageFailed \in BOOLEAN /\ ended \in BOOLEAN /\ unread \in BOOLEAN
    /\ failedBefore \in [Types -> Nat] /\ strayed \subseteq Types
    /\ pageLoader # NoLoader \/ pageFailed \/ ended \/ unread =>
          shown.kind = "grid" /\ ~shown.canLoadPage
    /\ ~(pageLoader # NoLoader /\ pageFailed)

(* Once everything that was asked for has arrived, the grid shows the type  *)
(* and the filter that are selected, whatever was selected, delivered late  *)
(* or failed in between.  The exception is a grid without data, posted      *)
(* before the user left for the favourites.                                 *)
ShowsSelection ==
    Settled /\ shown.kind = "grid" /\ shown.data # NoType =>
        /\ shown.data = currentVideoData
        /\ \A i \in DOMAIN shown.pages :
              /\ shown.pages[i].type = currentVideoData
              /\ shown.pages[i].filter = filter[currentVideoData]

(* The pages of a grid come once each and in order, from the first one, up  *)
(* to MAX_PAGE_COUNT, through errors and retries, as long as nothing but    *)
(* this grid has moved the page it shares with the activity.                *)
PagesInOrder ==
    Settled /\ shown.kind = "grid" /\ shown.data \in Types \ strayed =>
        /\ \A i \in DOMAIN shown.pages : shown.pages[i].page = i
        /\ Len(shown.pages) <= MAX_PAGE_COUNT

(* The loading screen gives way to a result, if the activity comes back in  *)
(* front each time it was left.                                             *)
LoadingEnds ==
    []<>started => (shown.kind = "loading" ~> shown.kind # "loading" \/ crashed)

(* A grid that waits for its next page can ask for one again, or has been   *)
(* told that there is none, through errors and any stop of the activity.    *)
(* The exception is an answer that the grid cannot read (unread), a text    *)
(* that does not parse or an error without a message: there the code leaves *)
(* it waiting, with no retry and nothing said to the user.                  *)
PagingGoesOn ==
    []<>started =>
        (shown.kind = "grid" /\ ~shown.canLoadPage
            ~> shown.kind # "grid" \/ shown.canLoadPage \/ ended \/ unread \/ crashed)
=============================================================================
