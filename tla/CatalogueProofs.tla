-------------------------- MODULE CatalogueProofs ---------------------------
(***************************************************************************)
(* Whatever the user selects and leaves, and whatever answers late or      *)
(* fails, the grid that stays shows what is selected and each page of it   *)
(* once.  The invariant follows the answer that will be shown last: from   *)
(* its loader to the looper, to the transaction that is posted, to the     *)
(* screen.                                                                 *)
(***************************************************************************)
EXTENDS Catalogue, TLAPS

-----------------------------------------------------------------------------
(* The looper.                                                              *)

Messages == [what : {"commit", "list"}, response : LoaderSet]

\* A response that is stored is an answer.
Tasks == {l \in LoaderSet : l.at = "stored" => l.answer \in Answers}

IsCommit(m) == m.what = "commit"

OneCommit(q)   == \A i, j \in DOMAIN q : IsCommit(q[i]) /\ IsCommit(q[j]) => i = j
HasCommit(q)   == \E i \in DOMAIN q : IsCommit(q[i])
OnlyCommits(q) == \A i \in DOMAIN q : IsCommit(q[i])

\* The last list that waits answers one of the requests.
LastAnswers(q, requests) ==
    \A i \in DOMAIN q :
        ~IsCommit(q[i]) /\ (\A j \in DOMAIN q : i < j => IsCommit(q[j])) => q[i].response.request \in requests

LEMMA TailOf ==
    ASSUME NEW M, NEW q \in Seq(M), q # <<>>
    PROVE  /\ Tail(q) \in Seq(M) /\ Head(q) \in M /\ 1 \in DOMAIN q /\ q[1] = Head(q)
           /\ DOMAIN q \subseteq Nat /\ DOMAIN Tail(q) \subseteq Nat
           /\ \A i \in DOMAIN Tail(q) : i + 1 \in DOMAIN q /\ i + 1 # 1 /\ q[i + 1] = Tail(q)[i]
           /\ \A i \in DOMAIN q : i # 1 => i - 1 \in DOMAIN Tail(q) /\ q[i] = Tail(q)[i - 1]
           /\ Tail(q) = <<>> <=> DOMAIN Tail(q) = {}
OBVIOUS

LEMMA AppendOf ==
    ASSUME NEW M, NEW q \in Seq(M), NEW m \in M
    PROVE  /\ Append(q, m) \in Seq(M) /\ Append(q, m) # <<>> /\ Len(q) \in Nat
           /\ DOMAIN Append(q, m) = DOMAIN q \cup {Len(q) + 1}
           /\ \A i \in DOMAIN q : i \in Nat /\ i < Len(q) + 1 /\ Append(q, m)[i] = q[i]
           /\ Append(q, m)[Len(q) + 1] = m
           /\ Len(Append(q, m)) = Len(q) + 1
OBVIOUS

LEMMA LooperTail ==
    ASSUME NEW q \in Seq(Messages), q # <<>>, NEW requests
    PROVE  /\ OneCommit(q) => OneCommit(Tail(q)) /\ ~(IsCommit(Head(q)) /\ HasCommit(Tail(q)))
           /\ HasCommit(q) <=> IsCommit(Head(q)) \/ HasCommit(Tail(q))
           /\ LastAnswers(q, requests) =>
                /\ LastAnswers(Tail(q), requests)
                /\ ~IsCommit(Head(q)) /\ OnlyCommits(Tail(q)) => Head(q).response.request \in requests
           /\ OnlyCommits(Tail(q)) /\ IsCommit(Head(q)) => OnlyCommits(q)
           /\ OnlyCommits(Tail(q)) /\ Tail(q) # <<>> => HasCommit(Tail(q))
<1> DEFINE t == Tail(q)
<1>1. /\ t \in Seq(Messages) /\ 1 \in DOMAIN q /\ q[1] = Head(q)
      /\ DOMAIN q \subseteq Nat /\ DOMAIN t \subseteq Nat
      /\ \A i \in DOMAIN t : i + 1 \in DOMAIN q /\ i + 1 # 1 /\ q[i + 1] = t[i]
      /\ \A i \in DOMAIN q : i # 1 => i - 1 \in DOMAIN t /\ q[i] = t[i - 1]
      /\ t = <<>> <=> DOMAIN t = {}
  BY TailOf
<1> HIDE DEF t
<1>2. ASSUME OneCommit(q) PROVE OneCommit(t) /\ ~(IsCommit(Head(q)) /\ HasCommit(t))
  <2>1. ASSUME NEW i \in DOMAIN t, NEW j \in DOMAIN t, IsCommit(t[i]), IsCommit(t[j]) PROVE i = j
    <3>1. i + 1 = j + 1
      BY <1>1, <1>2, <2>1 DEF OneCommit
    <3> QED BY <1>1, <3>1
  <2>2. ASSUME NEW i \in DOMAIN t, IsCommit(t[i]), IsCommit(Head(q)) PROVE FALSE
    BY <1>1, <1>2, <2>2 DEF OneCommit
  <2> QED BY <2>1, <2>2 DEF OneCommit, HasCommit
<1>3. HasCommit(q) <=> IsCommit(Head(q)) \/ HasCommit(t)
  BY <1>1 DEF HasCommit
<1>4. ASSUME LastAnswers(q, requests)
      PROVE  /\ LastAnswers(t, requests)
             /\ ~IsCommit(Head(q)) /\ OnlyCommits(t) => Head(q).response.request \in requests
  <2>1. ASSUME NEW i \in DOMAIN t, ~IsCommit(t[i]), \A j \in DOMAIN t : i < j => IsCommit(t[j])
        PROVE  t[i].response.request \in requests
    <3>1. ASSUME NEW j \in DOMAIN q, i + 1 < j PROVE IsCommit(q[j])
      <4>1. i \in Nat /\ j \in Nat
        BY <1>1
      <4>2. j # 1 /\ i < j - 1
        BY <3>1, <4>1
      <4> QED BY <1>1, <2>1, <4>2
    <3> QED BY <1>1, <1>4, <2>1, <3>1 DEF LastAnswers
  <2>2. ASSUME ~IsCommit(Head(q)), OnlyCommits(t) PROVE Head(q).response.request \in requests
    <3>1. ASSUME NEW j \in DOMAIN q, j # 1 PROVE IsCommit(q[j])
      BY <1>1, <2>2, <3>1 DEF OnlyCommits
    <3>2. \A j \in DOMAIN q : 1 < j => j # 1
      BY <1>1
    <3> QED BY <1>1, <1>4, <2>2, <3>1, <3>2 DEF LastAnswers
  <2> QED BY <2>1, <2>2 DEF LastAnswers
<1>5. OnlyCommits(t) /\ IsCommit(Head(q)) => OnlyCommits(q)
  BY <1>1 DEF OnlyCommits
<1>6. OnlyCommits(t) /\ t # <<>> => HasCommit(t)
  BY <1>1 DEF OnlyCommits, HasCommit
<1> QED BY <1>2, <1>3, <1>4, <1>5, <1>6 DEF t

LEMMA LooperAppend ==
    ASSUME NEW q \in Seq(Messages), NEW m \in Messages, NEW requests
    PROVE  /\ OneCommit(q) /\ (~IsCommit(m) \/ ~HasCommit(q)) => OneCommit(Append(q, m))
           /\ HasCommit(Append(q, m)) <=> HasCommit(q) \/ IsCommit(m)
           /\ OnlyCommits(Append(q, m)) <=> OnlyCommits(q) /\ IsCommit(m)
           /\ IsCommit(m) /\ LastAnswers(q, requests) => LastAnswers(Append(q, m), requests)
           /\ ~IsCommit(m) /\ m.response.request \in requests => LastAnswers(Append(q, m), requests)
<1> DEFINE a == Append(q, m)
           n == Len(q) + 1
<1>1. /\ n \in Nat /\ DOMAIN a = DOMAIN q \cup {n} /\ a[n] = m
      /\ \A i \in DOMAIN q : i \in Nat /\ i < n /\ a[i] = q[i]
  BY AppendOf
<1> HIDE DEF a, n
<1>2. OneCommit(q) /\ (~IsCommit(m) \/ ~HasCommit(q)) => OneCommit(a)
  BY <1>1 DEF OneCommit, HasCommit
<1>3. (HasCommit(a) <=> HasCommit(q) \/ IsCommit(m)) /\ (OnlyCommits(a) <=> OnlyCommits(q) /\ IsCommit(m))
  BY <1>1 DEF OnlyCommits, HasCommit
<1>4. ASSUME IsCommit(m), LastAnswers(q, requests) PROVE LastAnswers(a, requests)
  <2>1. ASSUME NEW i \in DOMAIN a, ~IsCommit(a[i]), \A j \in DOMAIN a : i < j => IsCommit(a[j])
        PROVE  a[i].response.request \in requests
    <3>1. i \in DOMAIN q /\ a[i] = q[i]
      BY <1>1, <1>4, <2>1
    <3>2. \A j \in DOMAIN q : i < j => IsCommit(q[j])
      BY <1>1, <2>1
    <3> QED BY <1>4, <2>1, <3>1, <3>2 DEF LastAnswers
  <2> QED BY <2>1 DEF LastAnswers
<1>5. ASSUME ~IsCommit(m), m.response.request \in requests PROVE LastAnswers(a, requests)
  <2>1. ASSUME NEW i \in DOMAIN a, \A j \in DOMAIN a : i < j => IsCommit(a[j])
        PROVE  i = n
    BY <1>1, <1>5, <2>1
  <2> QED BY <1>1, <1>5, <2>1 DEF LastAnswers
<1> QED BY <1>2, <1>3, <1>4, <1>5 DEF a

LEMMA MessageTypes ==
    /\ NoLoader \in LoaderSet /\ NoLoader \in Tasks /\ Tasks \subseteq LoaderSet
    /\ Commit \in Messages /\ IsCommit(Commit)
    /\ \A r \in LoaderSet : Post(r) \in Messages /\ ~IsCommit(Post(r)) /\ Post(r).response = r
BY DEF NoLoader, Loaders, Request, LoaderSet, Requests, Tasks, Commit, Post, Messages, IsCommit

LEMMA LoaderTypes ==
    /\ \A r \in Requests : /\ Load(r) \in LoaderSet /\ Load(r) # NoLoader /\ Load(r).request = r
                           /\ Load(r).at = "running" /\ Load(r) \in Tasks
    /\ \A l \in LoaderSet, a \in Answers : /\ Response(l, a) \in LoaderSet /\ Response(l, a) # NoLoader
                                           /\ Response(l, a).request = l.request /\ Response(l, a).answer = a
                                           /\ Response(l, a) \in Tasks
    /\ NoLoader.at = "none"
<1>1. \A r \in Requests : Load(r) \in LoaderSet /\ Load(r).at = "running" /\ Load(r).request = r
  BY DEF Load, Loaders, LoaderSet
<1>2. NoLoader.at = "none"
  BY DEF NoLoader, Loaders
<1>3. \A l \in LoaderSet, a \in Answers : /\ Response(l, a) \in LoaderSet /\ Response(l, a).at = "stored"
                                          /\ Response(l, a).request = l.request /\ Response(l, a).answer = a
  BY DEF Response, LoaderSet, Answers
<1> QED BY <1>1, <1>2, <1>3 DEF Tasks

-----------------------------------------------------------------------------
(* Types.                                                                   *)

FlagType ==
    /\ started \in BOOLEAN /\ crashed \in BOOLEAN
    /\ pageFailed \in BOOLEAN /\ ended \in BOOLEAN /\ unread \in BOOLEAN

SelectionType ==
    /\ currentVideoData \in Types \cup {NoType}
    /\ page \in [Types -> Int] /\ filter \in [Types -> Filters] /\ genrePosts \in Nat
    /\ strayed \subseteq Types

ScreenType ==
    /\ list \in LoaderSet /\ pageLoader \in Tasks
    /\ looper \in Seq(Messages)
    /\ shown \in Fragments /\ commit \in Fragments
    /\ failedBefore \in [Types -> Nat]

Busy == pageLoader # NoLoader \/ pageFailed

\* The grid asks for no other page any more.
Stuck == ended \/ unread

\* Only a grid has a page on its way, or an error to answer, never both.
GridOK ==
    /\ commit.canLoadPage => commit.kind = "grid"
    /\ shown.canLoadPage => shown.kind = "grid" /\ ~Busy /\ ~Stuck
    /\ Busy => shown.kind = "grid" /\ shown.data \in Types /\ shown.pages # <<>> /\ ~Stuck
    /\ Stuck => shown.kind = "grid"
    /\ ~(pageLoader # NoLoader /\ pageFailed)

\* One transaction is posted at a time.
CommitOK == OneCommit(looper) /\ (commit # NoFragment <=> HasCommit(looper))

Shape == FlagType /\ SelectionType /\ ScreenType /\ GridOK /\ CommitOK

LEMMA RequestTypes ==
    /\ \A t \in Types, f \in Filters, n \in Int :
          /\ Request(t, f, n) \in Requests /\ Request(t, f, n).type = t
          /\ Request(t, f, n).filter = f /\ Request(t, f, n).page = n
    /\ NoType \notin Types
BY DEF Request, Requests, Types, NoType

LEMMA FragmentTypes ==
    /\ \A kind \in {"loading", "error", "favorites", "custom"} :
          /\ Fragment(kind) \in Fragments /\ Fragment(kind) # NoFragment
          /\ Fragment(kind).kind = kind /\ ~Fragment(kind).canLoadPage
    /\ \A t \in Types \cup {NoType}, pages \in Seq(Requests) :
          /\ GridVideoFragment(t, pages) \in Fragments /\ GridVideoFragment(t, pages) # NoFragment
          /\ GridVideoFragment(t, pages).kind = "grid" /\ GridVideoFragment(t, pages).data = t
          /\ GridVideoFragment(t, pages).pages = pages
    /\ NoFragment \in Fragments /\ ~NoFragment.canLoadPage
<1>1. <<>> \in Seq(Requests)
  OBVIOUS
<1>2. \A kind \in {"none", "loading", "error", "favorites", "custom", "grid"} :
         /\ Fragment(kind) \in Fragments /\ Fragment(kind).kind = kind /\ ~Fragment(kind).canLoadPage
  BY <1>1 DEF Fragment, Fragments
<1>3. ASSUME NEW t \in Types \cup {NoType}, NEW pages \in Seq(Requests)
      PROVE  /\ GridVideoFragment(t, pages) \in Fragments
             /\ GridVideoFragment(t, pages).kind = "grid" /\ GridVideoFragment(t, pages).data = t
             /\ GridVideoFragment(t, pages).pages = pages
  <2>1. PICK f \in Fragments : f = Fragment("grid") /\ f.kind = "grid"
    BY <1>2
  <2>2. GridVideoFragment(t, pages) = [f EXCEPT !.data = t, !.pages = pages, !.canLoadPage = TRUE]
    BY <2>1 DEF GridVideoFragment
  <2>3. f.kind \in {"none", "loading", "error", "grid", "favorites", "custom"}
    BY DEF Fragments
  <2> QED BY <1>3, <2>1, <2>2, <2>3 DEF Fragments
<1> QED BY <1>2, <1>3 DEF NoFragment

\* A grid that may load a page, or not, differs in nothing else.
LEMMA GridFields ==
    ASSUME NEW f \in Fragments, NEW can \in BOOLEAN
    PROVE  /\ [f EXCEPT !.canLoadPage = can] \in Fragments
           /\ [f EXCEPT !.canLoadPage = can].kind = f.kind /\ [f EXCEPT !.canLoadPage = can].data = f.data
           /\ [f EXCEPT !.canLoadPage = can].pages = f.pages /\ [f EXCEPT !.canLoadPage = can].canLoadPage = can
           /\ f.pages \in Seq(Requests)
BY DEF Fragments

LEMMA GridGrows ==
    ASSUME NEW f \in Fragments, NEW g, NEW r \in Requests,
           g = [f EXCEPT !.canLoadPage = TRUE, !.pages = Append(@, r)]
    PROVE  /\ g \in Fragments /\ g.kind = f.kind /\ g.data = f.data
           /\ g.pages = Append(f.pages, r) /\ g.pages # <<>>
<1>1. f.pages \in Seq(Requests) /\ Append(f.pages, r) \in Seq(Requests) /\ Append(f.pages, r) # <<>>
  BY AppendOf DEF Fragments
<1> QED BY <1>1 DEF Fragments

\* A transaction is posted, or takes the place of the one that is.
LEMMA Replaced ==
    ASSUME NEW q \in Seq(Messages), OneCommit(q), commit # NoFragment <=> HasCommit(q),
           NEW f \in Fragments, f # NoFragment, ReplaceFragment(q, f)
    PROVE  /\ looper' \in Seq(Messages) /\ commit' = f
           /\ OneCommit(looper') /\ (commit' # NoFragment <=> HasCommit(looper')) /\ looper' # <<>>
           /\ OnlyCommits(looper') => OnlyCommits(q)
           /\ \A requests : LastAnswers(q, requests) => LastAnswers(looper', requests)
<1>1. commit' = f
  BY DEF ReplaceFragment
<1>2. CASE commit = NoFragment
  <2>1. looper' = Append(q, Commit)
    BY <1>2 DEF ReplaceFragment
  <2> QED BY <1>1, <1>2, <2>1, MessageTypes, LooperAppend, AppendOf
<1>3. CASE commit # NoFragment
  <2>1. looper' = q
    BY <1>3 DEF ReplaceFragment
  <2>2. q # <<>>
    BY <1>3 DEF HasCommit
  <2> QED BY <1>1, <1>3, <2>1, <2>2
<1> QED BY <1>2, <1>3

-----------------------------------------------------------------------------
(* The invariant.                                                           *)

Chosen(r) == r.type = currentVideoData /\ r.filter = filter[currentVideoData]

Fresh(r) == Chosen(r) /\ (currentVideoData \notin strayed => r.page = 1)

FreshRequests == {r \in Requests : Fresh(r)}

New(f) ==
    f.kind = "grid" /\ f.data # NoType =>
        /\ f.data = currentVideoData
        /\ f.pages = <<>> \/ \E r \in FreshRequests : f.pages = <<r>>

\* What comes last is the first page of the selection.
Coming ==
    /\ list # NoLoader => currentVideoData \in Types /\ list.request \in FreshRequests
    /\ list = NoLoader /\ currentVideoData # NoType => LastAnswers(looper, FreshRequests)
    /\ list = NoLoader /\ looper # <<>> /\ OnlyCommits(looper) => New(commit)

GridSettled == Settled /\ shown.kind = "grid" /\ shown.data # NoType

Shows ==
    GridSettled =>
        /\ shown.data = currentVideoData
        /\ \A i \in DOMAIN shown.pages : Chosen(shown.pages[i])
        /\ pageLoader # NoLoader => Chosen(pageLoader.request)

\* A page that has not strayed is the first, or counts those of the grid and
\* the one it asks for.
Counts ==
    /\ \A t \in Types \ strayed : ~(GridSettled /\ shown.data = t) => page[t] = 1
    /\ GridSettled /\ shown.data \notin strayed =>
          /\ \A i \in DOMAIN shown.pages : shown.pages[i].page = i
          /\ Len(shown.pages) <= MAX_PAGE_COUNT
          /\ \/ shown.pages = <<>> \/ Stuck
             \/ page[shown.data] = Len(shown.pages) + (IF Busy THEN 1 ELSE 0)
          /\ Busy => page[shown.data] <= MAX_PAGE_COUNT
          /\ pageLoader # NoLoader => pageLoader.request.page = page[shown.data]

IInv == Shape /\ Coming /\ Shows /\ Counts

LEMMA InitInv == Init => IInv
<1> SUFFICES ASSUME Init PROVE IInv
  OBVIOUS
<1>1. looper = <<>> /\ OneCommit(looper) /\ ~HasCommit(looper) /\ commit = NoFragment /\ shown = NoFragment
  BY DEF Init, OneCommit, HasCommit
<1>2. NoFragment.kind = "none"
  BY DEF NoFragment, Fragment
<1>3. FlagType /\ SelectionType
  <2>1. filter \in [Types -> Filters]
    BY DEF Init
  <2>2. FlagType
    BY DEF Init, FlagType
  <2> QED BY <2>1, <2>2 DEF Init, SelectionType
<1>4. ScreenType
  BY <1>1, MessageTypes, FragmentTypes DEF Init, ScreenType
<1>5. GridOK /\ CommitOK
  BY <1>1, FragmentTypes DEF Init, GridOK, CommitOK, Busy, Stuck
<1>6. ~GridSettled
  BY <1>1, <1>2 DEF GridSettled
<1>7. Coming
  BY <1>1 DEF Coming, Init
<1>8. Shows /\ Counts
  BY <1>6 DEF Shows, Counts, Init
<1> QED BY <1>3, <1>4, <1>5, <1>7, <1>8 DEF IInv, Shape

\* A crash, or another activity in front, changes nothing of this.
LEMMA Idle ==
    ASSUME IInv, started' \in BOOLEAN, crashed' \in BOOLEAN, genrePosts' \in Nat,
           UNCHANGED <<currentVideoData, page, filter, list, posted, grid, failedBefore, strayed>>
    PROVE  IInv'
<1> USE DEF posted, grid
<1>1. FlagType'
  BY DEF IInv, Shape, FlagType
<1>2. SelectionType' /\ ScreenType' /\ GridOK' /\ CommitOK'
  BY DEF IInv, Shape, SelectionType, ScreenType, GridOK, CommitOK, Busy, Stuck
<1>3. FreshRequests' = FreshRequests
  BY DEF FreshRequests, Fresh, Chosen
<1>4. Coming'
  BY <1>3 DEF IInv, Coming, New
<1>5. Shows' /\ Counts'
  BY DEF IInv, Shows, Counts, GridSettled, Settled, Chosen, Busy, Stuck
<1> QED BY <1>1, <1>2, <1>4, <1>5 DEF IInv, Shape

-----------------------------------------------------------------------------
(* The user selects.                                                        *)

\* What is not on the screen begins with its first page.
LEMMA BackToFirst ==
    ASSUME IInv, FirstPage(currentVideoData) \/ (UNCHANGED <<page, strayed>> /\ ~GridSettled)
    PROVE  /\ page' \in [Types -> Int] /\ strayed' \subseteq Types
           /\ \A t \in Types \ strayed' : page'[t] = 1
<1>1. SelectionType
  BY DEF IInv, Shape
<1>2. CASE UNCHANGED <<page, strayed>> /\ ~GridSettled
  BY <1>1, <1>2 DEF IInv, Counts, SelectionType
<1>3. CASE FirstPage(currentVideoData) /\ currentVideoData \in Types
  <2>1. page' = [page EXCEPT ![currentVideoData] = 1] /\ strayed' = strayed \ {currentVideoData}
    BY <1>3 DEF FirstPage
  <2>2. ASSUME NEW t \in Types \ strayed', t # currentVideoData PROVE page[t] = 1
    <3>1. t \in Types \ strayed /\ ~(GridSettled /\ shown.data = t)
      BY <2>1, <2>2 DEF IInv, Shows
    <3> QED BY <3>1 DEF IInv, Counts
  <2>3. page' = [t \in Types |-> IF t = currentVideoData THEN 1 ELSE page[t]]
    BY <1>1, <2>1 DEF SelectionType
  <2>4. \A t \in Types : page[t] \in Int
    BY <1>1 DEF SelectionType
  <2>5. page' \in [Types -> Int]
    BY <2>3, <2>4
  <2>6. strayed' \subseteq Types
    BY <1>1, <2>1 DEF SelectionType
  <2> QED BY <2>2, <2>3, <2>5, <2>6
<1>4. CASE FirstPage(currentVideoData) /\ currentVideoData \notin Types
  <2>1. UNCHANGED <<page, strayed>>
    BY <1>4 DEF FirstPage
  <2>2. \A t \in Types : ~(GridSettled /\ shown.data = t)
    BY <1>4 DEF IInv, Shows
  <2> QED BY <1>1, <2>1, <2>2 DEF IInv, Counts, SelectionType
<1> QED BY <1>2, <1>3, <1>4

\* The list is loaded anew, from its first page.
LEMMA Reset ==
    ASSUME IInv, NEW t \in Types, currentVideoData' = t, filter' \in [Types -> Filters],
           genrePosts' \in Nat,
           FirstPage(currentVideoData) \/ (UNCHANGED <<page, strayed>> /\ ~GridSettled),
           RestartVideosLoader(t), UNCHANGED <<started, crashed, grid, failedBefore>>
    PROVE  IInv'
<1>1. FlagType /\ ScreenType /\ GridOK /\ CommitOK
  BY DEF IInv, Shape
<1>2. FlagType'
  BY <1>1 DEF FlagType, grid
<1>3. SelectionType' /\ \A u \in Types \ strayed' : page'[u] = 1
  BY BackToFirst DEF SelectionType
<1>4. /\ Request(t, filter'[t], page'[t]) \in Requests
      /\ list' = Load(Request(t, filter'[t], page'[t]))
  BY <1>3, RequestTypes DEF SelectionType, RestartVideosLoader
<1>5. list' \in LoaderSet /\ list' # NoLoader /\ list'.request = Request(t, filter'[t], page'[t])
  BY <1>4, LoaderTypes
<1>6. /\ looper' \in Seq(Messages) /\ commit' = Fragment("loading") /\ CommitOK'
  BY <1>1, Replaced, FragmentTypes DEF RestartVideosLoader, CommitOK, ScreenType
<1>7. ScreenType'
  BY <1>1, <1>5, <1>6, FragmentTypes DEF ScreenType, grid
<1>8. GridOK'
  BY <1>1, <1>6, FragmentTypes DEF GridOK, Busy, Stuck, grid
<1>9. list'.request \in FreshRequests'
  BY <1>3, <1>4, <1>5, RequestTypes DEF FreshRequests, Fresh, Chosen, SelectionType
<1>10. Coming'
  BY <1>5, <1>9 DEF Coming
<1>11. ~GridSettled'
  BY <1>5 DEF GridSettled, Settled
<1>12. Shows' /\ Counts'
  BY <1>3, <1>11 DEF Shows, Counts
<1> QED BY <1>2, <1>3, <1>6, <1>7, <1>8, <1>10, <1>12 DEF IInv, Shape

LEMMA LeaveNext ==
    ASSUME IInv, NEW kind \in {"favorites", "custom"}, Leave(Fragment(kind))
    PROVE  IInv'
<1>1. FlagType /\ ScreenType /\ GridOK /\ CommitOK /\ SelectionType
  BY DEF IInv, Shape
<1>2. /\ FirstPage(currentVideoData) /\ currentVideoData' = NoType /\ list' = NoLoader
      /\ ReplaceFragment(looper, Fragment(kind)) /\ UNCHANGED <<started, crashed, grid, failedBefore, filter, genrePosts>>
  BY DEF Leave, Selects
<1>3. FlagType'
  BY <1>1, <1>2 DEF FlagType, grid
<1>4. SelectionType' /\ \A u \in Types \ strayed' : page'[u] = 1
  BY <1>1, <1>2, BackToFirst DEF SelectionType
<1>5. looper' \in Seq(Messages) /\ commit' = Fragment(kind) /\ looper' # <<>> /\ CommitOK'
  BY <1>1, <1>2, Replaced, FragmentTypes DEF CommitOK, ScreenType
<1>6. ScreenType'
  BY <1>1, <1>2, <1>5, FragmentTypes, MessageTypes DEF ScreenType, grid
<1>7. GridOK'
  BY <1>1, <1>2, <1>5, FragmentTypes DEF GridOK, Busy, Stuck, grid
<1>8. New(commit)'
  BY <1>5, FragmentTypes DEF New
<1>9. Coming'
  BY <1>2, <1>8 DEF Coming
<1>10. Shows' /\ Counts'
  BY <1>4, <1>5 DEF Shows, Counts, GridSettled, Settled
<1> QED BY <1>3, <1>4, <1>5, <1>6, <1>7, <1>9, <1>10 DEF IInv, Shape

LEMMA UserNext ==
    ASSUME IInv, User
    PROVE  IInv'
<1>1. SelectionType
  BY DEF IInv, Shape
<1>2. ASSUME NEW t \in Types, ClickType(t) PROVE IInv'
  <2>1. genrePosts' \in Nat
    BY <1>1, <1>2 DEF ClickType, SelectVideoData, SelectionType
  <2> QED BY <1>1, <1>2, <2>1, Reset DEF ClickType, SelectVideoData, Selects, SelectionType
<1>3. ASSUME NEW f \in Filters, Selects, currentVideoData # NoType, Reload(f) PROVE IInv'
  <2>1. currentVideoData \in Types /\ filter' \in [Types -> Filters] /\ genrePosts' \in Nat
    BY <1>1, <1>3 DEF SelectionType, Reload
  <2> QED BY <1>3, <2>1, Reset DEF Reload, Selects
<1>4. ASSUME NEW f \in Filters, SelectGenre(f) \/ Search(f) PROVE IInv'
  <2>1. CASE currentVideoData # NoType
    BY <1>3, <1>4, <2>1 DEF SelectGenre, Search
  <2>2. CASE currentVideoData = NoType
    <3>1. Selects /\ filter' = [filter EXCEPT !["movies"] = f] /\ SelectVideoData("movies")
      BY <1>4, <2>2 DEF SelectGenre, Search
    <3>2. "movies" \in Types /\ filter' \in [Types -> Filters] /\ genrePosts' \in Nat
      BY <1>1, <3>1 DEF SelectionType, SelectVideoData, Types
    <3> QED BY <3>1, <3>2, Reset DEF SelectVideoData, Selects
  <2> QED BY <2>1, <2>2
<1>5. CASE Favorites \/ OpenTorrent
  BY <1>5, LeaveNext DEF Favorites, OpenTorrent
<1>6. CASE Retry
  <2>1. CASE currentVideoData # NoType
    <3>1. currentVideoData \in Types /\ ~GridSettled
      BY <1>1, <1>6, <2>1 DEF SelectionType, Retry, GridSettled
    <3>2. /\ UNCHANGED <<currentVideoData, page, filter, strayed, started, crashed, grid, failedBefore>>
          /\ RestartVideosLoader(currentVideoData)
      BY <1>6, <2>1 DEF Retry, selection
    <3>3. filter' \in [Types -> Filters] /\ genrePosts' \in Nat
      BY <1>1, <1>6, <3>2 DEF SelectionType, Retry, selection
    <3> QED BY <3>1, <3>2, <3>3, Reset
  <2>2. CASE currentVideoData = NoType
    <3>1. crashed' = TRUE /\ UNCHANGED <<selection, started, grid, failedBefore, strayed, list, posted>>
      BY <1>6, <2>2 DEF Retry
    <3>2. started' \in BOOLEAN /\ crashed' \in BOOLEAN /\ genrePosts' \in Nat
      BY <1>1, <3>1 DEF IInv, Shape, FlagType, SelectionType, selection
    <3> QED BY <3>1, <3>2, Idle DEF selection
  <2> QED BY <2>1, <2>2
<1>7. CASE Stop
  <2>1. started' = FALSE /\ UNCHANGED <<selection, list, posted, grid, failedBefore, crashed, strayed>>
    BY <1>7 DEF Stop
  <2>2. crashed' \in BOOLEAN /\ genrePosts' \in Nat
    BY <1>1, <2>1 DEF IInv, Shape, FlagType, SelectionType, selection
  <2> QED BY <2>1, <2>2, Idle DEF selection
<1> QED BY <1>2, <1>3, <1>4, <1>5, <1>6, <1>7 DEF User

-----------------------------------------------------------------------------
(* The first page comes.                                                    *)

\* The answer to the request of the list loader is posted.
LEMMA Posted ==
    ASSUME IInv, list # NoLoader, NEW r \in LoaderSet, r.request = list.request,
           list' = NoLoader, looper' = Append(looper, Post(r)), UNCHANGED <<commit, currentVideoData, filter, strayed>>
    PROVE  looper' \in Seq(Messages) /\ CommitOK' /\ Coming' /\ looper' # <<>>
<1>1. looper \in Seq(Messages) /\ CommitOK /\ Post(r) \in Messages /\ ~IsCommit(Post(r)) /\ Post(r).response = r
  BY MessageTypes DEF IInv, Shape, ScreenType
<1>2. currentVideoData \in Types /\ r.request \in FreshRequests
  BY DEF IInv, Coming
<1>3. FreshRequests' = FreshRequests
  BY DEF FreshRequests, Fresh, Chosen
<1>4. looper' \in Seq(Messages) /\ CommitOK' /\ looper' # <<>>
  BY <1>1, LooperAppend, AppendOf DEF CommitOK
<1>5. LastAnswers(looper', FreshRequests') /\ ~OnlyCommits(looper')
  BY <1>1, <1>2, <1>3, LooperAppend
<1> QED BY <1>4, <1>5 DEF Coming

LEMMA ListNext ==
    ASSUME IInv, NEW answer \in Answers, ListDone(answer)
    PROVE  IInv'
<1>1. FlagType /\ SelectionType /\ ScreenType /\ GridOK /\ CommitOK /\ list # NoLoader
  BY LoaderTypes DEF IInv, Shape, ListDone
<1>2. PICK r \in LoaderSet : r = Response(list, answer) /\ r # NoLoader /\ r.request = list.request
  BY <1>1, LoaderTypes DEF ScreenType
<1>3. UNCHANGED <<selection, started, commit, grid, failedBefore, crashed, strayed>>
  BY DEF ListDone
<1>4. FlagType'
  BY <1>1, <1>3 DEF FlagType, grid
<1>5. SelectionType' /\ GridOK'
  BY <1>1, <1>3 DEF SelectionType, GridOK, Busy, Stuck, selection, grid
<1>6. ~Settled
  BY <1>1 DEF Settled
<1>7. ASSUME ~Settled' PROVE Shows' /\ Counts'
  BY <1>3, <1>6, <1>7 DEF Shows, Counts, GridSettled, IInv, selection, grid
<1>8. CASE started
  <2>1. list' = NoLoader /\ looper' = Append(looper, Post(r))
    BY <1>2, <1>8 DEF ListDone, Finishes
  <2>2. looper' \in Seq(Messages) /\ CommitOK' /\ Coming' /\ looper' # <<>>
    BY <1>1, <1>2, <1>3, <2>1, Posted DEF selection
  <2>3. ScreenType' /\ ~Settled'
    BY <1>1, <1>3, <2>1, <2>2, MessageTypes DEF ScreenType, Settled, grid
  <2> QED BY <1>4, <1>5, <1>7, <2>2, <2>3 DEF IInv, Shape
<1>9. CASE ~started
  <2>1. list' = r /\ UNCHANGED looper
    BY <1>2, <1>9 DEF ListDone, Finishes, StoredResponse
  <2>2. ScreenType' /\ CommitOK' /\ ~Settled'
    BY <1>1, <1>2, <1>3, <2>1 DEF ScreenType, CommitOK, Settled, grid
  <2>3. FreshRequests' = FreshRequests
    BY <1>3 DEF FreshRequests, Fresh, Chosen, selection
  <2>4. Coming'
    BY <1>1, <1>2, <1>3, <2>1, <2>3 DEF IInv, Coming, selection
  <2> QED BY <1>4, <1>5, <1>7, <2>2, <2>4 DEF IInv, Shape
<1> QED BY <1>8, <1>9

LEMMA ListShown ==
    ASSUME IInv, looper # <<>>, Head(looper).what = "list", VideoListFinished(Head(looper).response),
           UNCHANGED <<selection, list, started, grid, failedBefore, crashed, strayed>>
    PROVE  IInv'
<1>1. FlagType /\ SelectionType /\ ScreenType /\ GridOK /\ CommitOK
  BY DEF IInv, Shape
<1>2. looper \in Seq(Messages) /\ Tail(looper) \in Seq(Messages) /\ Head(looper) \in Messages
  BY <1>1, TailOf DEF ScreenType
<1>3. ~IsCommit(Head(looper)) /\ Head(looper).response \in LoaderSet
  BY <1>2 DEF IsCommit, Messages
<1>4. Head(looper).response.request \in Requests
  BY <1>3 DEF LoaderSet
<1> DEFINE response == Head(looper).response
           f == CASE response.answer = "videos" -> GridVideoFragment(currentVideoData, <<response.request>>)
                  [] response.answer = "empty" -> GridVideoFragment(currentVideoData, <<>>)
                  [] OTHER -> Fragment("error")
<1>5. f \in Fragments /\ f # NoFragment /\ (f.kind = "grid" => f.data = currentVideoData /\ f.pages \in {<<>>, <<response.request>>})
      /\ (f.canLoadPage => f.kind = "grid")
  <2>1. currentVideoData \in Types \cup {NoType} /\ <<>> \in Seq(Requests) /\ <<response.request>> \in Seq(Requests)
    BY <1>1, <1>4 DEF SelectionType
  <2>2. CASE response.answer = "videos"
    <3>1. f = GridVideoFragment(currentVideoData, <<response.request>>)
      BY <2>2
    <3> HIDE DEF f
    <3> QED BY <2>1, <3>1, FragmentTypes
  <2>3. CASE response.answer = "empty"
    <3>1. f = GridVideoFragment(currentVideoData, <<>>)
      BY <2>3
    <3> HIDE DEF f
    <3> QED BY <2>1, <3>1, FragmentTypes
  <2>4. CASE response.answer \notin {"videos", "empty"}
    <3>1. f = Fragment("error")
      BY <2>4
    <3> HIDE DEF f
    <3> QED BY <3>1, FragmentTypes
  <2> QED BY <2>2, <2>3, <2>4
<1>6. ReplaceFragment(Tail(looper), f)
  BY DEF VideoListFinished
<1> HIDE DEF f
<1>7. OneCommit(Tail(looper)) /\ (commit # NoFragment <=> HasCommit(Tail(looper)))
  BY <1>1, <1>2, <1>3, LooperTail DEF CommitOK
<1>8. /\ looper' \in Seq(Messages) /\ commit' = f /\ CommitOK' /\ looper' # <<>>
      /\ OnlyCommits(looper') => OnlyCommits(Tail(looper))
      /\ \A requests : LastAnswers(Tail(looper), requests) => LastAnswers(looper', requests)
  BY <1>2, <1>5, <1>6, <1>7, Replaced DEF CommitOK
<1>9. FlagType'
  BY <1>1 DEF FlagType, grid
<1>10. SelectionType' /\ ScreenType' /\ GridOK'
  BY <1>1, <1>5, <1>8 DEF SelectionType, ScreenType, GridOK, Busy, Stuck, selection, grid
<1>11. FreshRequests' = FreshRequests
  BY DEF FreshRequests, Fresh, Chosen, selection
<1>12. ASSUME list = NoLoader, currentVideoData # NoType
       PROVE  /\ LastAnswers(looper', FreshRequests)
              /\ OnlyCommits(looper') => response.request \in FreshRequests
  <2>1. LastAnswers(looper, FreshRequests)
    BY <1>12 DEF IInv, Coming
  <2> QED BY <1>2, <1>3, <1>8, <2>1, LooperTail
<1>13. ASSUME list = NoLoader, OnlyCommits(looper') PROVE New(commit)'
  BY <1>5, <1>8, <1>11, <1>12, <1>13 DEF New, selection
<1>14. Coming'
  BY <1>11, <1>12, <1>13 DEF IInv, Coming, selection
<1>15. Shows' /\ Counts'
  BY <1>8 DEF Shows, Counts, GridSettled, Settled, IInv, selection, grid
<1> QED BY <1>8, <1>9, <1>10, <1>14, <1>15 DEF IInv, Shape

LEMMA Committed ==
    ASSUME IInv, looper # <<>>, Head(looper).what = "commit", ExecuteCommit,
           UNCHANGED <<selection, list, started, crashed, strayed>>
    PROVE  IInv'
<1>1. FlagType /\ SelectionType /\ ScreenType /\ GridOK /\ CommitOK
  BY DEF IInv, Shape
<1>2. looper \in Seq(Messages) /\ Tail(looper) \in Seq(Messages) /\ IsCommit(Head(looper)) /\ HasCommit(looper)
  BY <1>1, TailOf, LooperTail DEF ScreenType, IsCommit
<1>3. /\ shown' = commit /\ commit' = NoFragment /\ looper' = Tail(looper)
      /\ pageLoader' = NoLoader /\ ~pageFailed' /\ ~ended' /\ ~unread'
  BY DEF ExecuteCommit
<1>4. OneCommit(looper') /\ ~HasCommit(looper') /\ commit # NoFragment
  BY <1>1, <1>2, <1>3, LooperTail DEF CommitOK
<1>5. CommitOK'
  BY <1>3, <1>4 DEF CommitOK
<1>6. FlagType'
  BY <1>1 DEF FlagType, ExecuteCommit
<1>7. failedBefore' \in [Types -> Nat]
  <2>1. pageFailed => shown.data \in Types
    BY <1>1 DEF GridOK, Busy
  <2>2. failedBefore' = IF pageFailed THEN [failedBefore EXCEPT ![shown.data] = @ + 1] ELSE failedBefore
    BY DEF ExecuteCommit
  <2> QED BY <1>1, <2>1, <2>2 DEF ScreenType
<1>8. ScreenType' /\ SelectionType'
  BY <1>1, <1>2, <1>3, <1>7, MessageTypes, FragmentTypes DEF ScreenType, SelectionType, selection
<1>9. GridOK'
  BY <1>1, <1>3, FragmentTypes DEF GridOK, Busy, Stuck
<1>10. FreshRequests' = FreshRequests
  BY DEF FreshRequests, Fresh, Chosen, selection
<1>11. ~(OnlyCommits(looper') /\ looper' # <<>>)
  BY <1>2, <1>3, <1>4, LooperTail
<1>12. ASSUME list = NoLoader, currentVideoData # NoType PROVE LastAnswers(looper', FreshRequests)
  BY <1>2, <1>3, <1>12, LooperTail DEF IInv, Coming
<1>13. Coming'
  BY <1>10, <1>11, <1>12 DEF IInv, Coming, selection
<1>14. ~GridSettled
  BY DEF GridSettled, Settled
<1>15. ASSUME Settled' PROVE New(shown)'
  <2>1. OnlyCommits(looper) /\ list = NoLoader
    <3>1. OnlyCommits(looper')
      BY <1>15 DEF Settled, OnlyCommits
    <3> QED BY <1>2, <1>3, <1>15, <3>1, LooperTail DEF Settled
  <2>2. New(commit)
    BY <2>1 DEF IInv, Coming
  <2> QED BY <1>3, <1>10, <2>2 DEF New, selection
<1>16. \A t \in Types \ strayed : page[t] = 1
  BY <1>14 DEF IInv, Counts
<1>17. ASSUME GridSettled'
       PROVE  /\ shown'.data = currentVideoData /\ currentVideoData \in Types
              /\ shown'.pages = <<>> \/ \E r \in FreshRequests : shown'.pages = <<r>>
  BY <1>1, <1>10, <1>15, <1>17 DEF GridSettled, New, selection, SelectionType
<1>18. Shows'
  <2>1. \A r \in FreshRequests : Chosen(r)'
    BY DEF FreshRequests, Fresh, Chosen, selection
  <2> QED BY <1>3, <1>17, <2>1 DEF Shows, selection
<1>19. ASSUME GridSettled', shown'.data \notin strayed'
       PROVE  /\ \A i \in DOMAIN shown'.pages : shown'.pages[i].page = i
              /\ Len(shown'.pages) <= MAX_PAGE_COUNT
              /\ shown'.pages = <<>> \/ page'[shown'.data] = Len(shown'.pages)
  <2>1. page'[shown'.data] = 1
    BY <1>16, <1>17, <1>19 DEF selection
  <2>2. CASE shown'.pages = <<>>
    BY <2>2, CatalogueAssumption
  <2>3. CASE \E r \in FreshRequests : shown'.pages = <<r>>
    <3>1. PICK r \in FreshRequests : shown'.pages = <<r>>
      BY <2>3
    <3>2. r.page = 1
      BY <1>17, <1>19 DEF FreshRequests, Fresh
    <3> QED BY <2>1, <3>1, <3>2, CatalogueAssumption
  <2> QED BY <1>17, <1>19, <2>2, <2>3
<1>20. ~Busy'
  BY <1>3 DEF Busy
<1>21. Counts'
  <2>1. \A t \in Types \ strayed' : page'[t] = 1
    BY <1>16 DEF selection
  <2> QED BY <1>1, <1>3, <1>17, <1>19, <1>20, <2>1 DEF Counts, SelectionType
<1> QED BY <1>5, <1>6, <1>8, <1>9, <1>13, <1>18, <1>21 DEF IInv, Shape

-----------------------------------------------------------------------------
(* The next pages come.                                                     *)

\* A page that strays frees what is to come of its promise.
LEMMA Strays ==
    ASSUME IInv, strayed \subseteq strayed', UNCHANGED <<currentVideoData, filter, list, looper, commit>>
    PROVE  Coming' /\ CommitOK'
<1>1. FreshRequests \subseteq FreshRequests'
  BY DEF FreshRequests, Fresh, Chosen
<1>2. LastAnswers(looper, FreshRequests) => LastAnswers(looper', FreshRequests')
  BY <1>1 DEF LastAnswers
<1>3. New(commit) => New(commit)'
  BY <1>1 DEF New
<1> QED BY <1>1, <1>2, <1>3 DEF IInv, Shape, Coming, CommitOK

\* The page moves with its grid, or strays.
LEMMA Moved ==
    ASSUME IInv, NEW t \in Types, NEW n \in Int, NEW own \in BOOLEAN, MovePage(t, n, own),
           own => shown.kind = "grid" /\ shown.data = t,
           shown'.kind = shown.kind, shown'.data = shown.data, UNCHANGED <<list, looper>>
    PROVE  /\ page' \in [Types -> Int] /\ strayed' \subseteq Types /\ strayed \subseteq strayed'
           /\ page'[t] = page[t] + n
           /\ \A u \in Types \ strayed' : ~(GridSettled' /\ shown'.data = u) => page'[u] = 1
           /\ t \notin strayed' => own
<1>1. SelectionType
  BY DEF IInv, Shape
<1>2. page' = [page EXCEPT ![t] = page[t] + n] /\ strayed' = IF own /\ Settled THEN strayed ELSE strayed \cup {t}
  BY DEF MovePage
<1>3. page' \in [Types -> Int] /\ page'[t] = page[t] + n /\ \A u \in Types : u # t => page'[u] = page[u]
  BY <1>1, <1>2 DEF SelectionType
<1>4. strayed' \subseteq Types
  BY <1>1, <1>2 DEF SelectionType
<1>5. strayed \subseteq strayed' /\ (t \notin strayed' => own /\ Settled)
  BY <1>2
<1>6. GridSettled' <=> GridSettled
  BY DEF GridSettled, Settled
<1>7. ASSUME NEW u \in Types \ strayed', ~(GridSettled' /\ shown'.data = u) PROVE page'[u] = 1
  <2>1. CASE u = t
    <3>1. GridSettled /\ shown.data = u
      BY <1>5, <1>7, <2>1, RequestTypes DEF GridSettled
    <3> QED BY <1>6, <1>7, <3>1
  <2>2. CASE u # t
    <3>1. page[u] = 1
      BY <1>5, <1>6, <1>7 DEF IInv, Counts
    <3> QED BY <1>3, <2>2, <3>1
  <2> QED BY <2>1, <2>2
<1> QED BY <1>3, <1>4, <1>5, <1>7

LEMMA ScrollNext ==
    ASSUME IInv, OnScroll
    PROVE  IInv'
<1>1. FlagType /\ SelectionType /\ ScreenType /\ GridOK /\ CommitOK
  BY DEF IInv, Shape
<1>2. /\ shown.canLoadPage /\ shown.pages # <<>> /\ shown' = [shown EXCEPT !.canLoadPage = FALSE]
      /\ UNCHANGED <<currentVideoData, filter, genrePosts, list, started, posted, pageFailed, unread, failedBefore>>
  BY DEF OnScroll, CanLoadPage
<1>3. shown.kind = "grid" /\ pageLoader = NoLoader /\ ~pageFailed /\ ~ended /\ ~unread
  BY <1>1, <1>2 DEF GridOK, Busy, Stuck
<1>4. /\ shown' \in Fragments /\ shown'.kind = shown.kind /\ shown'.data = shown.data
      /\ shown'.pages = shown.pages /\ ~shown'.canLoadPage
      /\ shown.data \in Types \cup {NoType} /\ shown.pages \in Seq(Requests)
  <2>1. shown \in Fragments
    BY <1>1 DEF ScreenType
  <2> QED BY <1>2, <2>1, GridFields DEF Fragments
<1>5. CASE shown.data = NoType
  <2>1. crashed' = TRUE /\ UNCHANGED <<page, strayed, pageLoader, ended>>
    BY <1>5 DEF OnScroll
  <2>2. FlagType'
    BY <1>1, <1>2, <2>1 DEF FlagType
  <2>3. SelectionType' /\ ScreenType' /\ GridOK'
    BY <1>1, <1>2, <1>3, <1>4, <2>1 DEF SelectionType, ScreenType, GridOK, Busy, Stuck, posted
  <2>4. Coming' /\ CommitOK'
    BY <1>2, <2>1, Strays DEF posted
  <2>5. ~GridSettled /\ ~GridSettled'
    BY <1>4, <1>5 DEF GridSettled
  <2>6. Shows' /\ Counts'
    BY <2>1, <2>5 DEF IInv, Shows, Counts
  <2> QED BY <2>2, <2>3, <2>4, <2>6 DEF IInv, Shape
<1>6. CASE shown.data \in Types
  <2> DEFINE t == shown.data
             next == page[t] + 1
  <2>1. crashed' = crashed /\ RestartVideosPageLoader
    BY <1>6, RequestTypes DEF OnScroll
  <2>2. /\ page' \in [Types -> Int] /\ strayed' \subseteq Types /\ strayed \subseteq strayed'
        /\ page'[t] = next
        /\ \A u \in Types \ strayed' : ~(GridSettled' /\ shown'.data = u) => page'[u] = 1
    <3>1. MovePage(t, 1, TRUE)
      BY <2>1 DEF RestartVideosPageLoader
    <3>2. UNCHANGED <<list, looper>>
      BY <1>2 DEF posted
    <3>3. t \in Types /\ 1 \in Int /\ TRUE \in BOOLEAN /\ shown.kind = "grid"
      BY <1>3, <1>6
    <3>4. shown'.kind = shown.kind /\ shown'.data = shown.data
      BY <1>4
    <3> HIDE DEF t
    <3>6. shown.data = t
      BY DEF t
    <3>5. /\ page' \in [Types -> Int] /\ strayed' \subseteq Types /\ strayed \subseteq strayed'
          /\ page'[t] = page[t] + 1
          /\ \A u \in Types \ strayed' : ~(GridSettled' /\ shown'.data = u) => page'[u] = 1
      BY <3>1, <3>2, <3>3, <3>4, <3>6, Moved
    <3> QED BY <3>5 DEF t
  <2>3. next \in Int /\ filter[t] \in Filters
    BY <1>1, <1>6 DEF SelectionType
  <2>4. PICK r \in Requests : r = Request(t, filter[t], next) /\ r.type = t /\ r.filter = filter[t] /\ r.page = next
    BY <1>6, <2>3, RequestTypes
  <2>5. IF next <= MAX_PAGE_COUNT THEN pageLoader' = Load(r) /\ ~ended' ELSE pageLoader' = NoLoader /\ ended'
    <3>1. /\ pageLoader' = IF next <= MAX_PAGE_COUNT THEN Load(r) ELSE pageLoader
          /\ ended' = (next > MAX_PAGE_COUNT)
      BY <2>1, <2>4 DEF RestartVideosPageLoader
    <3>2. next > MAX_PAGE_COUNT <=> ~(next <= MAX_PAGE_COUNT)
      BY <2>3, CatalogueAssumption
    <3> QED BY <1>3, <3>1, <3>2
  <2>6. pageLoader' \in Tasks /\ ended' \in BOOLEAN
    BY <2>1, <2>5, LoaderTypes, MessageTypes DEF RestartVideosPageLoader
  <2>7. pageLoader' # NoLoader <=> next <= MAX_PAGE_COUNT
    BY <2>5, LoaderTypes
  <2>8. FlagType'
    BY <1>1, <1>2, <2>1, <2>6 DEF FlagType
  <2>9. SelectionType' /\ ScreenType'
    BY <1>1, <1>2, <1>4, <2>2, <2>6 DEF SelectionType, ScreenType, posted
  <2>10. GridOK'
    BY <1>1, <1>2, <1>3, <1>4, <1>6, <2>5, <2>7 DEF GridOK, Busy, Stuck, posted
  <2>11. Coming' /\ CommitOK'
    BY <1>2, <2>2, Strays DEF posted
  <2>12. GridSettled' => GridSettled
    BY <1>2, <1>4 DEF GridSettled, Settled, posted
  <2>13. Shows'
    <3>1. ASSUME GridSettled'
          PROVE  /\ t = currentVideoData /\ \A i \in DOMAIN shown.pages : Chosen(shown.pages[i])
                 /\ pageLoader' # NoLoader => pageLoader'.request = r /\ Chosen(r)
      <4>1. t = currentVideoData /\ \A i \in DOMAIN shown.pages : Chosen(shown.pages[i])
        BY <2>12, <3>1 DEF IInv, Shows
      <4>2. pageLoader' # NoLoader => pageLoader'.request = r
        BY <2>5, LoaderTypes
      <4> QED BY <2>4, <4>1, <4>2 DEF Chosen
    <3> QED BY <1>2, <1>4, <3>1 DEF Shows, Chosen
  <2>14. ASSUME GridSettled', shown'.data \notin strayed'
         PROVE  /\ \A i \in DOMAIN shown'.pages : shown'.pages[i].page = i
                /\ Len(shown'.pages) <= MAX_PAGE_COUNT
                /\ page'[t] = Len(shown'.pages) + 1
    <3>1. GridSettled /\ t \notin strayed
      BY <1>4, <2>2, <2>12, <2>14
    <3>2. page[t] = Len(shown.pages)
      BY <1>2, <1>3, <3>1 DEF IInv, Counts, Busy, Stuck
    <3> QED BY <1>4, <2>2, <3>1, <3>2 DEF IInv, Counts
  <2>15. Counts'
    <3>1. pageLoader' # NoLoader => pageLoader'.request.page = page'[t] /\ page'[t] <= MAX_PAGE_COUNT
      BY <2>2, <2>4, <2>5, <2>7, LoaderTypes
    <3>2. Busy' <=> pageLoader' # NoLoader
      BY <1>2, <1>3 DEF Busy
    <3>3. Stuck' \/ Busy'
      BY <2>5, <2>7, <3>2 DEF Stuck
    <3> QED BY <1>4, <2>2, <2>14, <3>1, <3>2, <3>3 DEF Counts
  <2> QED BY <2>8, <2>9, <2>10, <2>11, <2>13, <2>15 DEF IInv, Shape
<1> QED BY <1>4, <1>5, <1>6

\* A page, or its error, comes to the grid.
LEMMA PageAnswer ==
    ASSUME IInv, pageLoader # NoLoader, pageLoader' = NoLoader,
           NEW r \in Tasks, r.answer \in Answers, r.request = pageLoader.request,
           VideosPageFinished(r),
           UNCHANGED <<selection, strayed, commit>>, Settled' <=> Settled
    PROVE  /\ shown' \in Fragments /\ pageFailed' \in BOOLEAN /\ ended' \in BOOLEAN /\ unread' \in BOOLEAN
           /\ GridOK' /\ Shows' /\ Counts'
<1>1. FlagType /\ SelectionType /\ ScreenType /\ GridOK
  BY DEF IInv, Shape
<1>2. /\ shown \in Fragments /\ shown.kind = "grid" /\ shown.data \in Types /\ shown.pages # <<>>
      /\ ~shown.canLoadPage /\ ~pageFailed /\ ~Stuck
  BY <1>1 DEF GridOK, Busy, ScreenType
<1>3. PICK q \in Requests : q = r.request
  BY MessageTypes DEF LoaderSet
<1>4. (pageFailed' <=> r.answer = "error") /\ pageFailed' \in BOOLEAN
  <2>1. pageFailed' = (r.answer = "error")
    BY DEF VideosPageFinished
  <2> QED BY <2>1
<1>5. /\ Stuck' <=> r.answer = "empty" \/ r.answer = "broken"
      /\ ended' \in BOOLEAN /\ unread' \in BOOLEAN
  <2>1. ended' = (r.answer = "empty") /\ unread' = (r.answer = "broken")
    BY DEF VideosPageFinished
  <2> QED BY <2>1 DEF Stuck
<1>6. shown' = IF r.answer = "videos" THEN [shown EXCEPT !.canLoadPage = TRUE, !.pages = Append(@, q)]
                                      ELSE shown
  BY <1>3 DEF VideosPageFinished
<1>7. /\ shown' \in Fragments /\ shown'.kind = "grid" /\ shown'.data = shown.data
      /\ shown'.canLoadPage => r.answer = "videos"
      /\ shown'.pages = IF r.answer = "videos" THEN Append(shown.pages, q) ELSE shown.pages
      /\ shown'.pages # <<>> /\ shown.pages \in Seq(Requests)
  <2>1. shown.pages \in Seq(Requests)
    BY <1>2 DEF Fragments
  <2>2. CASE r.answer = "videos"
    <3>1. shown' = [shown EXCEPT !.canLoadPage = TRUE, !.pages = Append(@, q)]
      BY <1>6, <2>2
    <3>2. /\ shown' \in Fragments /\ shown'.kind = shown.kind /\ shown'.data = shown.data
          /\ shown'.pages = Append(shown.pages, q) /\ shown'.pages # <<>>
      BY <1>2, <3>1, GridGrows
    <3> QED BY <1>2, <2>1, <2>2, <3>2
  <2>3. CASE r.answer # "videos"
    BY <1>2, <1>6, <2>1, <2>3
  <2> QED BY <2>2, <2>3
<1>8. Busy' <=> r.answer = "error"
  BY <1>4 DEF Busy
<1>9. GridOK'
  BY <1>1, <1>2, <1>4, <1>5, <1>7, <1>8 DEF GridOK
<1>10. GridSettled' <=> GridSettled
  BY <1>2, <1>7 DEF GridSettled
<1>11. /\ DOMAIN Append(shown.pages, q) = DOMAIN shown.pages \cup {Len(shown.pages) + 1}
       /\ \A i \in DOMAIN shown.pages : Append(shown.pages, q)[i] = shown.pages[i]
       /\ Append(shown.pages, q)[Len(shown.pages) + 1] = q
       /\ Len(Append(shown.pages, q)) = Len(shown.pages) + 1 /\ Len(shown.pages) \in Nat
  BY <1>7, AppendOf
<1>12. Shows'
  <2>1. SUFFICES ASSUME GridSettled' PROVE Shows'
    BY DEF Shows
  <2>2. shown.data = currentVideoData /\ (\A i \in DOMAIN shown.pages : Chosen(shown.pages[i])) /\ Chosen(q)
    BY <1>3, <1>10, <2>1 DEF IInv, Shows
  <2>3. \A i \in DOMAIN shown'.pages :
           shown'.pages[i].type = currentVideoData /\ shown'.pages[i].filter = filter[currentVideoData]
    BY <1>7, <1>11, <2>2 DEF Chosen
  <2> QED BY <1>7, <2>2, <2>3 DEF Shows, Chosen, selection
<1>13. ASSUME GridSettled', shown'.data \notin strayed'
       PROVE  /\ \A i \in DOMAIN shown'.pages : shown'.pages[i].page = i
              /\ Len(shown'.pages) <= MAX_PAGE_COUNT
              /\ Stuck' \/ page'[shown'.data] = Len(shown'.pages) + (IF Busy' THEN 1 ELSE 0)
              /\ page'[shown'.data] <= MAX_PAGE_COUNT
  <2>1. /\ \A i \in DOMAIN shown.pages : shown.pages[i].page = i
        /\ Len(shown.pages) <= MAX_PAGE_COUNT
        /\ page[shown.data] = Len(shown.pages) + 1 /\ page[shown.data] <= MAX_PAGE_COUNT
        /\ q.page = page[shown.data]
    BY <1>2, <1>3, <1>7, <1>10, <1>13 DEF IInv, Counts, Busy
  <2>2. page' = page
    BY DEF selection
  <2>3. CASE r.answer = "videos"
    <3>1. ~Busy' /\ shown'.pages = Append(shown.pages, q)
      BY <1>7, <1>8, <2>3
    <3>2. \A i \in DOMAIN shown'.pages : shown'.pages[i].page = i
      BY <1>11, <2>1, <3>1
    <3> QED BY <1>7, <1>11, <2>1, <2>2, <3>1, <3>2
  <2>4. CASE r.answer # "videos"
    <3>1. Stuck' \/ Busy'
      BY <1>5, <1>8, <2>4 DEF Answers
    <3> QED BY <1>7, <2>1, <2>2, <2>4, <3>1
  <2> QED BY <2>3, <2>4
<1>14. Counts'
  <2>1. \A t \in Types \ strayed' : ~(GridSettled' /\ shown'.data = t) => page'[t] = 1
    BY <1>7, <1>10 DEF IInv, Counts, selection
  <2> QED BY <1>13, <2>1 DEF Counts
<1> QED BY <1>4, <1>5, <1>7, <1>9, <1>12, <1>14

LEMMA PageNext ==
    ASSUME IInv, NEW answer \in Answers, PageDone(answer)
    PROVE  IInv'
<1>1. FlagType /\ SelectionType /\ ScreenType /\ GridOK /\ CommitOK /\ pageLoader # NoLoader
  BY LoaderTypes DEF IInv, Shape, PageDone
<1>2. PICK r \in Tasks : /\ r = Response(pageLoader, answer) /\ r # NoLoader
                        /\ r.request = pageLoader.request /\ r.answer \in Answers
  BY <1>1, LoaderTypes, MessageTypes DEF ScreenType
<1>3. UNCHANGED <<selection, list, started, posted, failedBefore, crashed, strayed>>
  BY DEF PageDone
<1>4. SelectionType'
  BY <1>1, <1>3 DEF SelectionType, selection
<1>5. Coming' /\ CommitOK'
  BY <1>3, Strays DEF posted, selection
<1>6. Settled' <=> Settled
  BY <1>3 DEF Settled, posted
<1>7. CASE started
  <2>1. pageLoader' = NoLoader /\ VideosPageFinished(r)
    BY <1>2, <1>7 DEF PageDone, Finishes
  <2>2. /\ shown' \in Fragments /\ pageFailed' \in BOOLEAN /\ ended' \in BOOLEAN /\ unread' \in BOOLEAN
        /\ GridOK' /\ Shows' /\ Counts'
    BY <1>1, <1>2, <1>3, <1>6, <2>1, PageAnswer DEF posted
  <2>3. FlagType'
    BY <1>1, <1>3, <2>2 DEF FlagType
  <2>4. ScreenType'
    BY <1>1, <1>3, <2>1, <2>2, MessageTypes DEF ScreenType, posted
  <2> QED BY <1>4, <1>5, <2>2, <2>3, <2>4 DEF IInv, Shape
<1>8. CASE ~started
  <2>1. pageLoader' = r /\ UNCHANGED <<shown, pageFailed, ended, unread>>
    BY <1>2, <1>8 DEF PageDone, Finishes, StoredResponse
  <2>2. FlagType'
    BY <1>1, <1>3, <2>1 DEF FlagType
  <2>3. ScreenType'
    BY <1>1, <1>3, <2>1 DEF ScreenType, posted
  <2>4. Busy /\ (Busy' <=> Busy)
    BY <1>1, <1>2, <2>1 DEF Busy
  <2>5. GridOK'
    BY <1>1, <1>2, <1>3, <2>1, <2>4 DEF GridOK, Stuck, posted
  <2>6. GridSettled' <=> GridSettled
    BY <1>6, <2>1 DEF GridSettled
  <2>7. Shows'
    BY <1>1, <1>2, <1>3, <2>1, <2>6 DEF IInv, Shows, Chosen, selection
  <2>8. Counts'
    BY <1>1, <1>2, <1>3, <2>1, <2>4, <2>6 DEF IInv, Counts, Stuck, selection
  <2> QED BY <1>4, <1>5, <2>2, <2>3, <2>5, <2>7, <2>8 DEF IInv, Shape
<1> QED BY <1>7, <1>8

LEMMA StartNext ==
    ASSUME IInv, Start
    PROVE  IInv'
<1>1. FlagType /\ SelectionType /\ ScreenType /\ GridOK /\ CommitOK
  BY DEF IInv, Shape
<1>2. started' = TRUE /\ UNCHANGED <<selection, commit, failedBefore, crashed, strayed>>
  BY DEF Start
<1>3. SelectionType'
  BY <1>1, <1>2 DEF SelectionType, selection
<1>4. /\ list' \in LoaderSet /\ looper' \in Seq(Messages) /\ CommitOK' /\ Coming'
      /\ Settled' <=> Settled
  <2>1. CASE list.at = "stored"
    <3>1. list # NoLoader /\ list \in LoaderSet
      BY <1>1, <2>1, LoaderTypes DEF ScreenType
    <3>2. list' = NoLoader /\ looper' = Append(looper, Post(list))
      BY <2>1 DEF Start
    <3>3. looper' \in Seq(Messages) /\ CommitOK' /\ Coming' /\ looper' # <<>>
      BY <1>2, <3>1, <3>2, Posted DEF selection
    <3> QED BY <3>1, <3>2, <3>3, MessageTypes DEF Settled
  <2>2. CASE list.at # "stored"
    <3>1. UNCHANGED <<list, looper>>
      BY <2>2 DEF Start
    <3>2. Coming' /\ CommitOK'
      BY <1>2, <3>1, Strays DEF selection
    <3> QED BY <1>1, <3>1, <3>2 DEF Settled, ScreenType
  <2> QED BY <2>1, <2>2
<1>5. /\ shown' \in Fragments /\ pageFailed' \in BOOLEAN /\ ended' \in BOOLEAN /\ unread' \in BOOLEAN
      /\ pageLoader' \in Tasks /\ GridOK' /\ Shows' /\ Counts'
  <2>1. CASE pageLoader.at = "stored"
    <3>1. pageLoader # NoLoader /\ pageLoader \in Tasks /\ pageLoader.answer \in Answers
      BY <1>1, <2>1, LoaderTypes DEF ScreenType, Tasks
    <3>2. pageLoader' = NoLoader /\ VideosPageFinished(pageLoader)
      BY <2>1 DEF Start
    <3> QED BY <1>2, <1>4, <3>1, <3>2, PageAnswer, MessageTypes
  <2>2. CASE pageLoader.at # "stored"
    <3>1. UNCHANGED <<shown, pageLoader, pageFailed, ended, unread>>
      BY <2>2 DEF Start, grid
    <3>2. (Busy' <=> Busy) /\ (GridSettled' <=> GridSettled)
      BY <1>4, <3>1 DEF Busy, GridSettled
    <3>3. shown' \in Fragments /\ pageLoader' \in Tasks
      BY <1>1, <3>1 DEF ScreenType
    <3>4. pageFailed' \in BOOLEAN /\ ended' \in BOOLEAN /\ unread' \in BOOLEAN
      BY <1>1, <3>1 DEF FlagType
    <3>5. GridOK'
      BY <1>1, <1>2, <3>1, <3>2 DEF GridOK, Stuck
    <3>6. Shows'
      BY <1>2, <3>1, <3>2 DEF IInv, Shows, Chosen, selection
    <3>7. Counts'
      BY <1>2, <3>1, <3>2 DEF IInv, Counts, Stuck, selection
    <3> QED BY <3>3, <3>4, <3>5, <3>6, <3>7
  <2> QED BY <2>1, <2>2
<1>6. FlagType'
  BY <1>1, <1>2, <1>5 DEF FlagType
<1>7. ScreenType'
  BY <1>1, <1>2, <1>4, <1>5 DEF ScreenType
<1> QED BY <1>3, <1>4, <1>5, <1>6, <1>7 DEF IInv, Shape

-----------------------------------------------------------------------------
(* The page goes back.                                                      *)

LEMMA ErrorNext ==
    ASSUME IInv, AnswerError
    PROVE  IInv'
<1>1. FlagType /\ SelectionType /\ ScreenType /\ GridOK /\ CommitOK
  BY DEF IInv, Shape
<1>2. /\ pageFailed' = FALSE /\ MovePage(shown.data, -1, TRUE) /\ shown' = [shown EXCEPT !.canLoadPage = TRUE]
      /\ UNCHANGED <<currentVideoData, filter, genrePosts, list, started, posted, pageLoader, failedBefore, crashed, ended, unread>>
  BY DEF AnswerError, PageBack
<1>3. Busy /\ pageFailed
  BY DEF AnswerError, Busy
<1>4. /\ shown.kind = "grid" /\ shown.data \in Types /\ shown.pages # <<>>
      /\ ~ended /\ ~unread /\ pageLoader = NoLoader
  BY <1>1, <1>3 DEF GridOK, Stuck
<1>5. /\ shown' \in Fragments /\ shown'.kind = shown.kind /\ shown'.data = shown.data
      /\ shown'.pages = shown.pages /\ shown'.canLoadPage /\ shown.pages \in Seq(Requests)
  <2>1. shown \in Fragments
    BY <1>1 DEF ScreenType
  <2> QED BY <1>2, <2>1, GridFields
<1>6. /\ page' \in [Types -> Int] /\ strayed' \subseteq Types /\ strayed \subseteq strayed'
      /\ page'[shown.data] = page[shown.data] + (-1)
      /\ \A u \in Types \ strayed' : ~(GridSettled' /\ shown'.data = u) => page'[u] = 1
  <2>1. -1 \in Int /\ TRUE \in BOOLEAN
    OBVIOUS
  <2>2. UNCHANGED <<list, looper>>
    BY <1>2 DEF posted
  <2> QED BY <1>2, <1>4, <1>5, <2>1, <2>2, Moved
<1>7. ~Busy' /\ ~Stuck'
  BY <1>2, <1>4 DEF Busy, Stuck
<1>8. FlagType'
  BY <1>1, <1>2 DEF FlagType
<1>9. SelectionType' /\ ScreenType'
  BY <1>1, <1>2, <1>5, <1>6 DEF SelectionType, ScreenType, posted
<1>10. GridOK'
  BY <1>1, <1>2, <1>4, <1>5, <1>7 DEF GridOK, posted
<1>11. Coming' /\ CommitOK'
  BY <1>2, <1>6, Strays DEF posted
<1>12. GridSettled' => GridSettled
  BY <1>2, <1>5 DEF GridSettled, Settled, posted
<1>13. Shows'
  BY <1>2, <1>5, <1>12 DEF IInv, Shows, Chosen
<1>14. ASSUME GridSettled', shown'.data \notin strayed'
       PROVE  /\ \A i \in DOMAIN shown'.pages : shown'.pages[i].page = i
              /\ Len(shown'.pages) <= MAX_PAGE_COUNT
              /\ page'[shown'.data] = Len(shown'.pages)
  <2>1. GridSettled /\ shown.data \notin strayed
    BY <1>5, <1>6, <1>12, <1>14
  <2>2. /\ \A i \in DOMAIN shown.pages : shown.pages[i].page = i
        /\ Len(shown.pages) <= MAX_PAGE_COUNT
        /\ page[shown.data] = Len(shown.pages) + 1
    BY <1>3, <1>4, <2>1 DEF IInv, Counts, Stuck
  <2>3. Len(shown.pages) \in Nat
    BY <1>5
  <2>4. page'[shown.data] = Len(shown.pages)
    BY <1>6, <2>2, <2>3
  <2> QED BY <1>5, <2>2, <2>4
<1>15. pageLoader' = NoLoader
  BY <1>2, <1>4
<1>16. Counts'
  <2>1. Len(shown'.pages) \in Nat
    BY <1>5
  <2> QED BY <1>6, <1>7, <1>14, <1>15, <2>1 DEF Counts
<1> QED BY <1>8, <1>9, <1>10, <1>11, <1>13, <1>16 DEF IInv, Shape

LEMMA LateNext ==
    ASSUME IInv, NEW t \in Types, AnswerErrorLate(t)
    PROVE  IInv'
<1>1. FlagType /\ SelectionType /\ ScreenType /\ GridOK /\ CommitOK
  BY DEF IInv, Shape
<1>2. /\ MovePage(t, -1, FALSE) /\ failedBefore[t] > 0 /\ failedBefore' = [failedBefore EXCEPT ![t] = @ - 1]
      /\ UNCHANGED <<currentVideoData, filter, genrePosts, list, started, posted, shown, pageLoader, pageFailed, ended, unread, crashed>>
  BY DEF AnswerErrorLate, PageBack, grid
<1>3. /\ page' \in [Types -> Int] /\ strayed' \subseteq Types /\ strayed \subseteq strayed'
      /\ t \in strayed'
      /\ \A u \in Types \ strayed' : ~(GridSettled' /\ shown'.data = u) => page'[u] = 1
  <2>1. -1 \in Int /\ FALSE \in BOOLEAN
    OBVIOUS
  <2>2. UNCHANGED <<list, looper>> /\ shown' = shown
    BY <1>2 DEF posted
  <2> QED BY <1>2, <2>1, <2>2, Moved
<1>4. failedBefore' \in [Types -> Nat]
  <2>1. failedBefore \in [Types -> Nat]
    BY <1>1 DEF ScreenType
  <2> QED BY <1>2, <2>1
<1>5. (Busy' <=> Busy) /\ (GridSettled' <=> GridSettled)
  BY <1>2 DEF Busy, GridSettled, Settled, posted
<1>6. FlagType'
  BY <1>1, <1>2 DEF FlagType
<1>7. SelectionType' /\ ScreenType'
  BY <1>1, <1>2, <1>3, <1>4 DEF SelectionType, ScreenType, posted
<1>8. GridOK'
  BY <1>1, <1>2, <1>5 DEF GridOK, Stuck, posted
<1>9. Coming' /\ CommitOK'
  BY <1>2, <1>3, Strays DEF posted
<1>10. Shows'
  BY <1>2, <1>5 DEF IInv, Shows, Chosen
<1>11. ASSUME GridSettled', shown.data \notin strayed' PROVE page'[shown.data] = page[shown.data]
  <2>1. shown.data # t /\ shown.data \in Types
    BY <1>1, <1>2, <1>3, <1>11 DEF GridSettled, ScreenType, Fragments
  <2>2. page' = [page EXCEPT ![t] = page[t] + (-1)] /\ page \in [Types -> Int]
    BY <1>1, <1>2 DEF MovePage, SelectionType
  <2> QED BY <2>1, <2>2
<1>12. Counts'
  BY <1>2, <1>3, <1>5, <1>11 DEF IInv, Counts, Stuck
<1> QED BY <1>6, <1>7, <1>8, <1>9, <1>10, <1>12 DEF IInv, Shape

-----------------------------------------------------------------------------
LEMMA NextInv == IInv /\ [Next]_vars => IInv'
<1> SUFFICES ASSUME IInv, [Next]_vars PROVE IInv'
  OBVIOUS
<1>1. CASE User
  BY <1>1, UserNext
<1>2. CASE OnScroll
  BY <1>2, ScrollNext
<1>3. CASE Start
  BY <1>3, StartNext
<1>4. CASE AnyListDone
  BY <1>4, ListNext DEF AnyListDone
<1>5. CASE AnyPageDone
  BY <1>5, PageNext DEF AnyPageDone
<1>6. CASE HandleMessage
  <2>1. looper # <<>> /\ UNCHANGED <<selection, list, started, crashed, strayed>>
    BY <1>6 DEF HandleMessage
  <2>2. CASE Head(looper).what = "commit" /\ ExecuteCommit
    BY <2>1, <2>2, Committed
  <2>3. CASE Head(looper).what = "list" /\ VideoListFinished(Head(looper).response) /\ UNCHANGED <<grid, failedBefore>>
    BY <2>1, <2>3, ListShown
  <2> QED BY <1>6, <2>2, <2>3 DEF HandleMessage
<1>7. CASE AnswerError
  BY <1>7, ErrorNext
<1>8. ASSUME NEW t \in Types, AnswerErrorLate(t) PROVE IInv'
  BY <1>8, LateNext
<1>9. CASE UNCHANGED vars
  <2>1. UNCHANGED <<selection, list, started, posted, grid, failedBefore, crashed, strayed>>
    BY <1>9 DEF vars
  <2>2. started' \in BOOLEAN /\ crashed' \in BOOLEAN /\ genrePosts' \in Nat
    BY <2>1 DEF IInv, Shape, FlagType, SelectionType, selection
  <2> QED BY <2>1, <2>2, Idle DEF selection
<1>10. CASE ShowGenre
  <2>1. /\ genrePosts' = genrePosts - 1 /\ genrePosts > 0 /\ crashed' = (currentVideoData = NoType)
        /\ UNCHANGED <<currentVideoData, page, filter, list, started, posted, grid, failedBefore, strayed>>
    BY <1>10 DEF ShowGenre
  <2>2. started' \in BOOLEAN /\ genrePosts' \in Nat
    BY <2>1 DEF IInv, Shape, FlagType, SelectionType
  <2>3. crashed' \in BOOLEAN
    BY <2>1
  <2> QED BY <2>1, <2>2, <2>3, Idle
<1> QED BY <1>1, <1>2, <1>3, <1>4, <1>5, <1>6, <1>7, <1>8, <1>9, <1>10 DEF Next

LEMMA Inductive == Spec => []IInv
BY InitInv, NextInv, PTL DEF Spec

(* The fields of the catalogue have their types, and only a grid has a page *)
(* on its way or an error to answer, never both, in every behaviour.        *)
THEOREM CatalogueTypes == Spec => []TypeOK
<1>1. IInv => TypeOK
  BY MessageTypes DEF IInv, Shape, FlagType, SelectionType, ScreenType, GridOK, Busy, Stuck, TypeOK, Messages
<1> QED BY <1>1, Inductive, PTL

(* Once everything that was asked for has arrived, the grid shows what is   *)
(* selected, for every number of selections, stops and failed requests: the *)
(* last answer to come out of the looper is that of the last selection,     *)
(* although the loaders and the transactions of the others are not taken    *)
(* back.                                                                    *)
THEOREM SelectionIsShown == Spec => []ShowsSelection
<1>1. IInv => ShowsSelection
  BY DEF IInv, Shows, GridSettled, Chosen, ShowsSelection
<1> QED BY <1>1, Inductive, PTL

(* A grid whose page nobody else has moved shows the pages from the first   *)
(* one on, once each and in order, up to MAX_PAGE_COUNT, for every          *)
(* MAX_PAGE_COUNT and through every error.                                  *)
THEOREM PagesAreInOrder == Spec => []PagesInOrder
<1>1. IInv => PagesInOrder
  BY RequestTypes DEF IInv, Counts, GridSettled, PagesInOrder
<1> QED BY <1>1, Inductive, PTL
=============================================================================
