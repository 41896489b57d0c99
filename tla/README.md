# PopcornTV: a formal model of the torrent player

PopcornTV is an Android application that streams torrents: a catalogue of movies and shows, a
download manager over libtorrent, and a player (libVLC, Chromecast) that starts while the video is
still being downloaded. This directory holds TLA+ models of its core logic, the TLC
configurations that check them on small instances, and TLAPS proofs for every instance.

Paths below are relative to `src/`; `A/` stands for
`app/src/main/java/com/ppinera/popcorntv/` and `J/` for `app/libs/LibTorrent/jni/`.

## Inventory

For each part: the state it keeps, its operations, what makes it hard, and what makes it correct.

| Part | Source | State | Operations | Hard behaviour |
|---|---|---|---|---|
| Streaming prioritizer | `A/torrent/Prioritizer.java` | first, last and current piece of the video, the prepared count, `isStart`, `isHaveAllPieces`, the pending updater callbacks | load, reload, checkToStart, getPrepareProgress, stop, canSeekTo, the delayed updater | two threads, one monitor that covers only the update, read-modify-write of all the priorities, a callback that posts itself again |
| Download manager | `A/torrent/TorrentService.java` | the Downloads table, the download directories, the queue of intents, `last-content` | init, add, remove, resume, pause and their "all" forms, the move of the video last watched | one worker for all requests, retries for ever, a crash between two steps, reconciliation at start |
| JNI layer | `J/libtorrent.cpp` | `gTorrents`, the session | AddTorrent, RemoveTorrent, Pause/Resume, priorities, state | keyed by the name of the content, shared by all threads, exceptions that erase an entry |
| Player preparation | `A/ui_mobile/base/PlayerBaseActivity.java` | the preparation task, `mContentFile`, `wasPaused`, cast flags | onCreate .. onDestroy, loadVideo, reloadVideo, task result, cast callbacks | a task that outlives the activity, cancellation between two steps, late results |
| VLC player | `A/ui_mobile/VLCPlayerActivity.java` | libVLC, the position, the audio focus, the overlay | onResume .. onDestroy, play, pause, seek, the events of libVLC | messages that outlive the pause they should not: the audio service, the focus, late results |
| Watch-now cache | `A/ui_mobile/base/Video*Fragment.java`, `A/controller/WatchLoader.java` | cache directory, `LAST_TORRENT`, `last-content`, `last-file` | handleWatch, loadWatchFinished, breakPrepare, checkLastWatched | one fixed file, shared with the download manager |
| File choice | `A/torrent/TorrentService.java:409` | none | setFilePriority | several files with one name, none with the wanted name |
| Loaders | `A/controller/*.java` | one running task, one stored response | start, reset, deliver | delivery after a reset |
| Paging | `A/ui_mobile/GridVideoFragment.java` | page, `canLoadPage` | scroll, result, error and retry after a delay | a flag set again only on some paths |
| Storage helper | `A/utils/StorageHelper.java` | root, cache and downloads directories | init, setRootDirectory, clear, delete | deletes the old root before it adopts the new one |
| Subtitles | `A/subtitles/**`, `A/ui_mobile/VideoTVShowFragment.java` | the list of subtitles, the chosen one, the saved files | parse, choose, load, convert between SRT, VTT and JSON | text lines that look like cue numbers, the end of a file, a list that arrives after the next selection |
| Metadata | `A/torrent/Bencode.java`, `A/torrent/Metadata.java`, `A/ui_mobile/VideoCustomFragment.java` | the list of videos, the one picked | decode a torrent file, list its videos, pick one | files cut short, empty strings, directories named like a video |
| Session | `J/libtorrent.cpp`, `A/ui_mobile/MainActivity.java` | `gSession`, `gSessionState`, the proxy | start, stop, set the proxy | a screen destroyed while another is there, calls that throw |
| TV front end | `A/tv/*.java` | sample data | browse, details | none of its own |
| Catalogue and settings screens | `A/ui_mobile/*.java` | views, preferences | user interface | little state |
| Vendored code | libtorrent, boost, `eu/sesma/castania`, `org/videolan/libvlc` | - | - | external |

What makes each part correct:

* **Prioritizer**: `pieceIndex` never passes a missing piece and never moves back; the video is
  requested in playing order and nothing else is; a video once started is downloaded to its end.
* **Download manager**: table, directories, torrent files and torrents agree between two intents,
  after any interruption; only the user removes a download; every intent is handled in the end.
* **JNI layer**: one torrent per content name, saved where its first torrent file is.
* **Player preparation and watch-now cache**: a torrent that only the player needs goes away or is
  remembered; a paused download is paused again after it was played; the video that plays is the
  one that was asked for.
* **VLC player**: a paused player is silent, one screen plays, a video goes on where it was left, and one that is open plays
  in the end.
* **File choice**: exactly the wanted file is downloaded.
* **Loaders, paging**: each page once, in order, of the genre that is on the screen; after an error the next
  page can still be asked for, but not after an answer that the grid cannot read.
* **Storage helper**: the directories in use exist, and nothing but them is deleted.
* **Subtitles**: every cue once, in order, with its text; the list is of the episode that is selected.
* **Metadata**: every video of a torrent file, and nothing of a broken one; the one picked is the one loaded.
* **Session**: it runs, behind the proxy of the settings, exactly while there is a main screen.

How they interact. The screens send **intents** to the download manager, whose one worker thread
handles them in order; they read the Downloads table, which only the worker writes. The download
manager and the player call the **JNI layer** from their own threads and share `gTorrents`, keyed by
the content's name. The player gives the torrent to a **Prioritizer** on the task thread and drives
it from the looper thread too. The player and the download manager share the preference
`last-content` and the cache directory. Tasks run one after the other on the serial executor of
`AsyncTask`, for all the activities of the application; the loaders have threads of their own.

## Modules

| Module | Models |
|---|---|
| `Prioritizer` | class `Prioritizer` with the two threads that share it and the loop of the preparation task |
| `MCPrioritizer` | its instances for TLC |
| `PrioritizerProofs` | its types, the index of the missing piece, the seek, the chains of callbacks, what the arrays that the two threads write back may request |
| `LibTorrent` | `gTorrents` and the calls on it, used by the modules that share the session |
| `TorrentService` | the download manager over `LibTorrent`, with the requests of the user, exits and deaths of the process |
| `MCTorrentService` | its instances for TLC |
| `TorrentServiceProofs` | its types, that every torrent has its row, the proof that it implements `DownloadLife`, and what holds of rows, directories and torrents between two intents |
| `DownloadLife` | what the download manager promises of each download: asked for once, kept until it is unwanted, running only while kept |
| `TorrentServiceRefinement` | the mapping under which `TorrentService` implements `DownloadLife` |
| `Playback` | the player over the download manager: watch-now, its fetch and its cache, the executor of the tasks, LOAD and `destroyTorrent`; EXTENDS `TorrentService` and shares its session, table and worker |
| `MCPlayback` | its instances for TLC |
| `PlaybackProofs` | its types, that the player plays what was asked for and waits for what runs, that the cache is remembered, and that what a player has started stops with it |
| `Player` | one player activity: its life, its audio service and focus, libVLC and its events, the preparation and subtitle tasks, the position, the cast route |
| `PlayerProofs` | its types and its safety properties |
| `Catalogue` | the selection of the main screen, the paging of the grid, the two loaders and the looper that joins them |
| `CatalogueProofs` | its types and its safety properties |
| `Storage` | `StorageHelper` and the folder chooser over storages that come and go |
| `MCStorage` | its instance for TLC |
| `StorageProofs` | its theorems |
| `FilePriority` | `setFilePriority`: which file of a torrent is wanted |
| `TorrentFile` | `Bencode`, `Metadata` and the choice of a video from a torrent file opened from outside; EXTENDS `FilePriority` |
| `SubtitleFile` | the conversions of subtitles to the saved SRT file and to VTT |
| `SubtitleChoice` | the list of subtitles of the selected episode and the choice from it |
| `Session` | the session of libtorrent over the lives of the main screen and its proxy |
| `SmallPartsProofs` | the theorems of `Session`, `SubtitleChoice`, `FilePriority` and `TorrentFile` |
| `SubtitleFileProofs` | that the conversions of `SubtitleFile` keep the cues, for files of any length |
| `MCSmallParts` | the instance of `TorrentFile`, `SubtitleFile`, `SubtitleChoice` and `Session` for TLC |

### Prioritizer

State. `firstPieceIndex` .. `cPreparePieceCount` are the fields of the class under their names.
`messages` counts the updater callbacks that wait in the handler, `lock` is the owner of the monitor of
`updatePiecePriority`, `pc`, `buf` and `scan` are the next step, the array and the loop variables of each
of the two threads (`task`, the thread of `PrepareVideoTask`, and `main`, the looper). `prio`, `have` and
`handle` are the engine: the priorities, the pieces that are there, and whether `gTorrents` still has the
torrent. `queued`, `cancelled`, `played`, `reloads` and `destroyed` are the activity.

Actions. Every JNI call is one step, so that `load` is `LoadGet` and `LoadSet`, `reload` is `ReloadGet`
and `ReloadSet`, an update is `UpdaterGet`, `UpdaterScan` (once per piece looked at), `UpdaterSet`
and `UpdaterPost`. `StartTask`, `CheckToStart`, `PublishProgress` and `WakeUp` are the rest of the task.
`RunUpdater` takes a callback of the looper, `ReloadVideo` and `Destroy`/`StopSet` are the events of the
activity. `Download` and `LoseHandle` are the engine. An exception (an index outside of the array) sets
`crashed` and ends the behaviour: the application dies.

Left out: file sizes (`load` skips pieces by the priorities the file choice has left, which are an
input, `InitialWanted`), and the percentages of the progress.

### LibTorrent and TorrentService

State. `savePath` maps every content in `gTorrents` to the directory its torrent is saved in, `paused` is
the set of paused torrents. `table`, `directories`, `torrentFile`, `lastContent` and `cached` survive the
process: the state column of the Downloads table, the download directories, the torrent file in each
(none, broken, whole), and the watch-now cache. `queue` and `work` are the IntentService: the intents
delivered, and the intent, row, cursor and step of the worker. `open`, `asked` and the counters are the
user; `doubted` is a history variable, the rows whose last pause or resume carried a copy of the row
that was no longer true.

Actions. Each step of the worker is one call that outlives it, in the order of the code: `init` is
`NextRow`, `InitRow`, `InitName`, `DeleteDirectory`; `add` is `AddInsert`, `Fetch` (or `CopyFails`,
`LoadFails`), `CheckLast`, `RemoveLast`, `MoveLast`, `ForgetLast`, `AddTorrentOf`, `DeleteDirectory`;
`remove` is `Remove`, `DeleteRow`, `DeleteDirectory`; `removeAll` is `NextRow`/`RemoveEach` for each row,
`DeleteRows`, `ClearDownloads`; pause and resume are a session step and a row step. `HandleDownload`,
`RequestRow` and `RequestAll` are the screens. `Launch` sends ACTION_INIT, `Exit` closes the activity and
`Crash` is the death of the process.

`MainActivity` calls `AbortSession` when it exits, and the line that would end the process is commented
out (`A/ui_mobile/MainActivity.java:167`). In the vendored libtorrent `session::abort` only returns a proxy
(`app/libs/LibTorrent/jni/include/libtorrent/session.hpp:247`), so after an exit the process, its queue and
its torrents are still there, and the next `Launch` reconciles on top of them: `Exit` is modelled like
this. It does pause the session as a whole; this is no state of a torrent and is left out.

Left out: which file of a torrent is wanted (that is `FilePriority`), the exceptions that a loop
catches and that skip the row step of one row, and the texts of the notifications. Of the calls on the session: the guard
`gSessionState`, which is false only after a call on the session has thrown (those calls are `Session`); the `catch` that erases a
torrent from `gTorrents`, which takes a torrent that something else than `RemoveTorrent` has removed (a lost handle is in
`Prioritizer`); a torrent that libtorrent refuses although its file can be read, which adds nothing; and `auto_managed`, which the code switches
together with the pause and which matters to libtorrent's own queue of torrents.

### DownloadLife and its refinement

`DownloadLife` says of each download which of four stages it has reached: `new`, `asked`, `kept`, `gone`. `Drop` is
the promise: what is asked for may fail or be lost with the process, but what is kept goes only if the user has asked for it to be removed
(`unwanted`) and its torrent transfers no more (`running`). There is no way back from `gone`. `TorrentServiceRefinement` reads the
stages off the code's state: a download is kept while its row is in the table and its torrent file is whole, asked for while its row
or its intent is there, and unwanted while the queue or the worker has a remove of it. A request that fails, an exit and a death are
steps of the detailed model only; what they may do to a download is what `Drop` allows.

### Playback

State. On top of the download manager: the player that is open and what it plays, the serial executor (a queue of
LOAD and fetch tasks and the one that runs), the local variables of LOAD (the torrent file it has parsed, the
state it has read, `wasPaused`), the watch-now file, `LAST_TORRENT` and the fetch on its way. Three history variables
name what the code gets wrong: `cut` (contents that a LOAD has prepared after its player was left), `touched` (a torrent that the
download manager paused, resumed or removed under an open player) and `disturbed` (the watch-now file or the cache
replaced under a LOAD, or the content last watched moved during one).

Actions. `WatchNow`, `WatchFile`, `NoSpace`, `WatchDownload` and `BreakPrepare` are the screens; `StartTask`,
`Fetched` and `FetchFails` the executor and the loader. LOAD is one action per call, in the order of the code:
`CheckLastWatched`, `ForgetWatched`, `AddWatched`, `ReadName`, `ChooseFile`, `ReadState`, `ResumeWatched`,
`LoadPieces`, `DropTorrent`, `SaveWatched`, `EndLoop`. `DestroyTorrent` is the end of the player, `Manager` any
step of the download manager, and `Die` the end of the process, by the system or by the null array that the prioritizer
is given when the torrent is removed under it. The reload of a player is left to `Prioritizer`.

### Player

State. `looper` is the queue of messages of the main thread; `activity`, `finishing`, `mSwitchingView`, `mEndReached` are the life of
the activity, `service` the binding to the audio service, `VIDEO_RESUME_TIME` the position in the preferences, in steps of five
seconds. `executor` holds the preparation and the subtitle tasks of this activity, `vlc` is the state and the time of libVLC,
`focus` the audio focus, `isRouteSelected` and `isCastEnabled` the Chromecast, `position` the subtitle chosen and `subtitles` the one in
the file. Four history variables: `left` is where the activity was left, and the others name what the code gets wrong: `hasty` (paused before the
service had started playback), `regained` (the focus came back while paused), `overlap` (libVLC started while a route connects).

Actions. One action per message of the looper: `OnResume`, `OnPause`, `OnDestroy`, `OnConnected` (`startPlayback`),
`OnUnconnected`, `OnSucceeded` and `OnFailed` (`onPostExecute`), the events of libVLC (`OnPlaying`, `OnStopped`, `OnParsed`, which is
`reloadVideo`, `OnEnd`, `OnVoutLost`, `OnHwError`, which is `errorReplay`, and `Ignore` while switching), and the focus (`OnLoss`,
`OnGain`). `Schedule`, `Connect`, `OpenInput`, `Advance`, `Fault`, `LoseFocus` and `GainFocus` are the system around it, which posts
messages at any moment; `StartTask`, `EndPrepare` and `EndSubtitle` the executor; the rest are the user and the Chromecast.
libVLC is modelled as the code relies on it: `play` goes on or begins again, `isPlaying` is false until the medium is open, its
length is unknown until then, and `stop` posts its event before it returns. Two rules of Android matter: the message of a cancelled task only
ends it (`Revoked`, `OnCancelled`) and does not deliver its result, and an activity that finishes is not resumed.

Left out: the overlay, its timers and gestures, the tracks, the loader of the list of subtitles, the subtitles sent to the
Chromecast, the error dialog of libVLC (it leads to `Close`), and several activities at once (that is `Playback`).

### Catalogue

State. The selection (`filter`, and a number that counts the selections), the page counter and `canLoadPage` of each grid, the
two loaders with their one running request and their one stored response, and the messages of the looper: the posted
transactions, the posted lists, and the answer to an error that waits out its delay. Actions: the user selects, scrolls, retries, goes to the
favourites, leaves and comes back; requests end with a page, an empty page, an answer that cannot be read (a text that is no list
of videos, or an error without a message) or an error; the looper runs its messages in order. `ShowGenre` is the Runnable that
`selectVideoData` posts to the list of genres: it takes the selection of the moment it runs, and throws when there is none. A list that is not laid out yet
holds it back, so that it has no place in the order of the looper. History variables: `ended`, the grid knows that there is no next
page (it was empty, or past `MAX_PAGE_COUNT`); `unread`, it was given an answer that it cannot read, after which it waits with the
page moved and `canLoadPage` false, without a retry; and `strayed`, see the run. The rule of the `LoaderManager` is external: only the request restarted last delivers, and
only while the activity is started.

### Storage and FilePriority

A directory is the sequence of names from its mount point, so that `mkdirs` and the recursive deletes are prefix
operations. `init` is `InitFirst`, `InitAgain`, or `InitForget` and `InitDefault`; `setRootDirectory` is `DeleteRoot`,
`AdoptRoot`, `CommitRoot` and, at the first start, `ClearRootDirectory`. The process may die between any two.
`FilePriority` has one action, a call of `setFilePriority`, repeated over the priorities that the last one has left. It keeps
the conversion of the sizes: `J/libtorrent.cpp:704` prints 64 bits with `%ld`, which takes a signed 32-bit long on the
ABIs the library is built for; `LongMax` is the biggest of them.

### TorrentFile

A torrent file is a sequence of tokens: numbers, strings, and the symbols that begin and end dictionaries and lists. `Decoder` reads
it token by token, as `Bencode.Decoder` reads its stream: what it has come to after some of them (`After`) is the call that waits for the next
one, with the call that waits for its result below it, or the value or the exception it has ended with. `NextToken` is one turn of the loop of `decodeList` or `decodeDictionary`, or the
first character of `decode`, which takes `0` for an illegal one, so that an empty string fails the whole file.
`Write` is external: what a program that makes torrents writes for one file or for several, cut at its end or not. `AddToFiles` has an entry for
each part of a path that ends like a video, directories included. `ParseMetadata` fills the spinner, `OnItemSelected` picks,
`HandleWatch` hands the name to `setFilePriority`, and `WatchFromCatalogue` is the other way to reach that, with the name from a catalogue.

### SubtitleFile and SubtitleChoice

A line of a file is its number and one of seven kinds, as far as the code tells lines apart: a number, a time, an arrow with one time only, a text, a
text with a font tag, an empty line, a line of spaces. `NextLine` writes the downloaded file, `Load` converts it (`ConvertSrt`), and
`OnCastConnection` converts the result for the Chromecast (`ConvertVtt`), which a failure refuses as a whole. Both readers take one line at a
time (`SrtLine`, `VttLine`) and are outside of the cues, before the time of one, in its text, or failed: outside is the loop of `convert`, before the time the first line of
`readSrtCue` and `readVttCue`, in the text their own loop. `SRT.convert` holds a text until it ends, since its colour depends on all of its lines, and `VTT.convert` writes it line by line. `CuesKept` compares what a player would read.
`SubtitleChoice` follows one list: `OnItemClick` selects an episode and restarts the loader, `LoadEnds` is the network, `OnLoadFinished` and
`HandleMessage` the two passes through the looper that an answer takes, and `OnSubtitleSelected` the user. An error without a message comes as an
answer without a text (`NoText`), which throws in `onSubtitleLoadSucces`: the application ends (`crashed`). `overtaken` is a history variable: the
answer for one episode was in its second pass when the next was selected, and its list is then shown for the wrong one.

### Session

`gSession` is whether the session is ready (`gSessionState`), paused, and behind the proxy. Each JNI call is a function of the session and of the set of
calls that throw: an exception ends readiness, and every later call returns at once. `OnCreate` is `TorrentService.start`, `OnDestroy` is `stop`, `OnBackPressed`
leaves a screen that is destroyed later, `VpnListener` is the switch in the settings, and `ProcessDies` leaves only the preferences.
`screens` counts the main screens, since nothing keeps a second one from being opened over the first. Two history variables name what the
code gets wrong: `failed`, a call has thrown since the start, and `late`, a screen was destroyed since the last start while another one
was there, the next one or the one below, which pauses the session of that one.

## Runs

| Run | Instance | Checks |
|---|---|---|
| `prioritizer_safe` | 7 pieces, 5 layouts of the video, an empty and a scattered start, 2 reloads, the handle may be lost | the safety of the prioritizer |
| `prioritizer_live` | 6 pieces, one file, 1 reload | the two liveness properties |
| `prioritizer_lost_start` | the same | finding: a video that plays and is not streamed |
| `service_safe` | 3 downloads, the first two of one content and the third local, 2 requests, 1 exit or death | the safety of the download manager |
| `service_live` | 2 downloads of 2 contents, the second local, 2 requests, 1 exit or death | every intent is handled, and the refinement of `DownloadLife` |
| `service_last_watched` | 2 downloads, no other request, 1 exit or death | finding: a download that is still "last watched" |
| `playback_watch` | no download, 3 contents of which one is a local file, 3 plays, 1 exit or death | the watch-now cache |
| `playback_downloads` | 1 download, 2 contents, 2 plays, 1 request | the player and the download manager on one session |
| `player` | a video of 15 seconds, one subtitle or none, 2 disturbances (pauses, faults, losses of the focus, acts of the user) | one player from start to end |
| `catalogue` | 2 filters, 3 pages, 2 selections, 2 errors | the lists on the screen |
| `storage` | 3 mount points, 2 directories of the user, 2 choices, 2 deaths, folders up to 4 deep | the root directory |
| `small_parts` | all torrents of up to 3 files with 4 paths and 6 sizes, a long of 3 bits, 2 calls; all files of up to 6 lines; 3 selections, 2 episodes, 2 subtitles; 3 main screens, 2 calls that throw | the choice of the file, the subtitles, the session |

**prioritizer_safe.** `PrefixDownloaded` and `PieceIndexMonotone`: whichever thread moves `pieceIndex`,
nothing before it is missing and it never goes back. `HaveAllSound`: the flag that ends the polling is
only true, outside of an update, when the video is complete, although it is set before the scan.
`SeekSound`: a seek that `canSeekTo` allows lands on a piece that is there, for a video that starts with
the torrent. `RequestedInOrder` and `OnlyVideoRequested`: lost updates may forget a request, but never ask
for a piece far ahead or of another file, as long as the head and the tail that `load` and `reload` ask
for fit in the video. `AtMostTwoChains`: reloads do not multiply the callbacks. The layouts are the file in the
middle and at the start of a torrent, the first of two files with a gap, a video shorter than the head, and none;
`PREPARE_PIECE_COUNT = 1` and `ACTIVE_PIECE_COUNT = 2` stand for 3 and 5 so that head, active window, middle
and tail are all present and distinct in 5 to 7 pieces; 2 reloads are needed for a third chain.

**prioritizer_live.** `StartedVideoCompletes` and `TaskEnds`: neither the overwritten priorities nor the two chains
let a missing piece be forgotten. One reload, because each of the two threads can then overwrite the other.

**prioritizer_lost_start.** If the last prepared piece is verified after `checkToStart` has looked at it
and before `getPrepareProgress` does, the task ends with SUCCESS and the updater was never started: the video
plays, and the middle of it is never requested.

**service_safe.** `NoStrayTorrent`: at every step, what the session downloads belongs to a row that the
user sees. `RowsHaveTorrents`: between two intents, a row has its directory, its torrent file and its
torrent, after any exit or death, wherever it hit. `StatesAgree`: a row is paused exactly if its torrent is,
except for a row whose last request carried an old copy (a double click), which the code does get wrong until the next request or
restart. `DirectoriesHaveRows`: without a death, no directory is left behind but that of a local copy that failed.
Three downloads of two contents
make the shared handle of two rows happen beside a row of its own; two requests give a remove, pause or "all" form
during an add, and an exit or a death can hit every step. The same properties also hold with 2 exits and deaths on 2 downloads.

**service_live.** `QueueDrains`: infinitely often the queue is empty and the worker idle, or `add` waits for ever
because `removeAll` has deleted the directory that its download over http writes to; that state is named, not hidden.
`ImplementsLife`: whatever fails, exits or dies at any step, a download that is kept leaves only on request and after its torrent has
stopped, nothing transfers data that is not kept, and none that is gone comes back, whatever requests are still queued for it.

**service_last_watched.** `add` forgets the content last watched when it becomes a download. If the process dies before,
`init` adds the torrent at the next start without that step; the next "watch now" then removes the torrent of the download.

**playback_watch.** `WatchNowStops`: a torrent that only the player needs does not go on downloading after it, unless the player
was left while its LOAD prepared it (`cut`). `PlaysAsked`: what plays is what was asked for last, although all downloads
share one file. `WatchedIsRemembered`: a torrent in the cache is one that the next watch-now knows to remove. Both
except what `disturbed` names; there the code is wrong. `WaitingStarts`: no abandoned player keeps the next one waiting in the
serial executor. Three plays are the least in which an abandoned one, its successor and the removal of both overlap; the local content
reaches the copy on the main thread.

**playback_downloads.** `PausedAgain`: a paused download that was played is paused again, whatever the service did to it meanwhile, but for `cut` and for the
download of a content that a `disturbed` watch-now has added to the cache; `PreparationRuns`: a LOAD that waits
for pieces waits for a torrent that runs, unless the service has `touched` it. One download, one more content and one request let the
worker meet every step of LOAD.

**player.** `SilentWhenPaused`: what ends late (a preparation, a replay after an error) does not start a video that nobody sees.
A player that has gone has given the audio focus back. `OneScreen`: while the Chromecast plays the device does not.
`SubtitlesAsChosen`: the file is that of the last choice once the tasks are through. `ReadyIsCurrent`: no preparation that could still
deliver is left behind a video that is ready, so that it is not started twice. `PositionKept`: a video goes on five seconds before it was
left. `PlaybackStarts`: a player that stays resumed plays in the end. What they except is what the code gets wrong. A pause between the
answer of the audio service and its message starts the video on a paused activity; a gain of the audio focus between `onPause` and the event
that abandons it does the same; a start of libVLC while the route connects is not undone; a pause before the medium is open
forgets the position. Any two disturbances at any step are what each of these needs, and one more than the properties
forbid; a video of three steps has a start, a middle to go back from, and an end.

**catalogue.** `ShowsSelection`: the list on the screen is of the selection on the screen. `PagesInOrder`: page after page, none
twice, none left out. `LoadingEnds` and `PagingGoesOn`: the loading screen ends, and a grid can ask for its next page in the
end, or knows that there is none, if the activity is started again and again. Excepted: a grid that was given an answer it cannot read
(`unread`), which never asks again; a grid that an error of an older grid has moved (`strayed`), which repeats a page; and a list posted
after the user has left, which shows a grid without a selection whose first scroll ends the application. That, a retry without a selection
and a `ShowGenre` without one are `crashed`. Two filters and two selections give every late list and late error; three pages pass
`MAX_PAGE_COUNT`, which is an input of the model.

**storage.** `RootInUse`: a running application has its root, and the next start will find it. `UserDirsKept`: nothing of the user's is
deleted, whatever folder is chosen. `DownloadsKept`: downloads are deleted only by a choice of the user, or after a start without the storage of the root
(`forgotten`), which makes the next start clear the root that it meets. The comparison of references in `setRootDirectory`
also deletes a root that is chosen again; the model has it, and `DownloadsKept` counts it as a choice. Four levels admit a folder chosen
inside of the root in use; two choices and two deaths reach every step from every other.

**small_parts.** Four parts that share nothing; each behaviour moves one of them. `RightFileWanted`: the file that is returned is one that is loaded, and nothing else is but the files
of the wanted name or, when there is none, the first of the biggest, for sizes that fit. `PickedIsLoaded`: every video of a whole torrent file is in the
list, nothing of a broken one is, and the file that is loaded is the one that was picked, if no other has its name; except for a file
with an empty string, which cannot be opened. `CuesKept`: no cue is lost, moved or cut by either conversion; a number in a
text empties the file and a line of spaces cuts its cue, and the property says so. `SubtitlesOfEpisode`: the list is of the selected episode and
stands at the preferred language, unless an answer was `overtaken`. `SessionFollowsScreen`: see `Session`. The 3-bit long has sizes on both
sides of its limit (3 and 4) and one that wraps to 0 (8); three files are needed for a biggest one between two others, and one
of the paths has a directory named like a video; the second call shows that the first leaves nothing behind. Six lines hold two
cues without texts between, or one with a text of two and the number that ends it. Three selections give an answer that is two behind.
Three screens and two calls that throw give a start after a failed start, under or over a screen that is destroyed while another is there.

The type invariants of `Prioritizer`, `TorrentService`, `Playback`, `Storage`, `Session`, `Player` and `Catalogue` are proved, as part of the theorems below.

Mutants. Each property has a mutated definition, in the module, next to the definition it replaces and named after
it (`RemoveFirst_Nothing`): a plausible bug under which the run finds the property violated.

## Fairness

The threads of the operating system run: weak fairness of the worker, of the task and of the looper. A piece that
stays requested arrives, and a server that is asked again and again answers in the end: weak fairness of each
`Download(p)` and each `Fetch`. Nothing is assumed of the user, of exits, of deaths, of reloads, of the loss of a
handle or of a failing download, and no strong fairness is used. The liveness of `add` does depend on the network: the
code tries again for ever, and a server that never answers blocks the queue for ever.

`Playback`: the executor starts its next task, a fetch ends (the connection has a timeout), a cancelled loop ends at its next turn, and a null
array is dereferenced. The arrival of pieces is not assumed. `Player`: the looper, the executor, the audio service and the opening of a
medium; a preparation that runs ends, which is the liveness of `Prioritizer`. `Catalogue`: requests end, the looper runs its messages and the delayed answer; liveness is
stated for an activity that is started again and again, since a stopped one shows nothing. `Storage` and the small parts state safety only, and
`DownloadLife` is a safety specification: that a request is served in the end is `QueueDrains`.

## Theorems

All are proved by TLAPS for every value of the constants allowed by the assumptions.

**PrioritizerProofs** (from `PieceAssumption`, `CountAssumption`). `TypeCorrect`; then `Invariant`, from which
`PrefixIsDownloaded`, `HaveAllIsSound`, `PieceIndexGrows` and `SeekIsSound` follow; `TwoChainsAtMost` from an
invariant of its own. `PrefixDownloaded` is not inductive: `UpdaterSet` writes an index that the scan has
computed some steps before. The invariant `IInv` therefore says what a scan knows while it runs (`ScansSound`:
everything below the new index is downloaded, and the flag is cleared once a missing piece was seen), that only the
owner of the monitor scans (`MonitorHeld`), that the bounds of the video are set once (`LoadedOnce`), and that
nothing runs before that (`NothingBeforeLoad`). `SeekIsSound` adds the arithmetic of the position (`DivBound`).
`TwoChainsAtMost` counts the chains together with the one a queued or running task may still start (`ChainInv`).

The second part of the module is about the order of the requests: `RequestsAreInOrder` and `OnlyTheVideoIsRequested`. Neither is inductive: the two threads
read all the priorities, change a copy and write it back, so that an update can bring back what the other has changed since. The invariant
therefore speaks of both arrays as well as of the engine: each requests only what is allowed, and what is allowed only grows, because
downloaded pieces stay and the bounds are set once. It also says what the loop of an update has counted, which bounds how far
ahead of the first missing piece it asks.

**TorrentServiceProofs** (from `PlaceAssumption`, `ContentAssumption`, `DownloadAssumption`). `TypeCorrect` and
`TorrentsHaveRows` (`NoStrayTorrent`), for any number of downloads, contents, requests, exits and deaths. The invariant
`IInv` joins seven parts: which labels an intent may be at (`LabelsOK`), that a download is asked for and added
once (`AddsOK`), that the row and the directory exist while it is added (`RowAdded`), that no torrent is saved in a
directory that is being filled or deleted (`Vacant`), what the cursors of `init` and `removeAll` have still
to visit (`CursorOK`, `RemovedSoFar`), and the property itself. `RemovedSoFar` is the heart: `removeAll`
deletes all the rows in one step, which is safe only because no torrent can appear during its loop.

The second part of the module is the refinement. `DownloadsLive`: `TorrentService` implements `DownloadLife` (`ImplementsLife`). On top of `IInv` the
argument needs that a torrent file is only there for a download that was asked for, in its directory if it is whole, and not whole before it is
fetched (`FilesOK`), and that the steps which delete files come after those which delete rows (`RowsFirst`). One lemma per action then says to which step of
`DownloadLife` it maps, or that it stutters.

The third part is about the table between two intents: `RowsAreComplete` (`RowsHaveTorrents`), `RowsAgree` (`StatesAgree`) and `DirectoriesAreOwned`
(`DirectoriesHaveRows`), for any number of downloads, contents, requests, exits and deaths. The properties speak of an idle worker and so say nothing about the steps
of an intent; the invariant of `RowsAreKept` says them at every step, of each row that the worker has no longer to reconcile, to finish adding or to
delete (`RowsOK`). To carry that over a step it says what the copy of the row in the intent is good for (`CopiesOK`), and that the torrent is
paused, resumed or added before the row is written (`TorrentFirst`). Two rows of one content share a torrent; of those the properties say
only that they have their directory and torrent file.

**PlaybackProofs** (from `PlayAssumption` and those of `TorrentService`). `PlayTypeCorrect` (`PlayTypeOK`), `PlaysAskedHolds` (`PlaysAsked`),
`CacheIsRemembered` (`WatchedIsRemembered`) and `PreparedRuns` (`PreparationRuns`), for any downloads, contents, plays, requests, exits and deaths. The
composition has torrents that no row of the table owns, so that of `TorrentServiceProofs` only the types and the labels of the worker
carry over, and not `NoStrayTorrent`. The invariant `PlayInv` says that one task at most is wanted, by the player in front (`ScreenOK`), and on which content the last
choice, the file in the cache and that task agree (`AskedOK`, `FileOK`). `CacheOK` is the heart: at every step of LOAD it says which one torrent may lie in the cache,
the remembered one before `checkLastWatched`, none after, then the one of the file, then the one of the task; `KeptOK` that adding it replaces nothing that is remembered. The worker
forgets the same preference on its own way through `add`: `MovingOK` says that then nothing is left in the cache, or a "watch now" is disturbed. `PrepOK` follows the torrent from
the choice of the file to the loop. 

The last part of the module is about what stops with the player: `WatchedStops` (`WatchNowStops`) and `PausedIsPausedAgain` (`PausedAgain`).
Both properties speak of the time after the player; the invariant `StopInv` says at every step that a torrent which runs in the cache, or for a row that is
paused, has somebody who will pause it (`Quiet`): the player in front is open on it, or the preparation is about to name it. A torrent in the cache may also
run for a row of the table whose intent has added it (`CacheQuiet`, `RowCovers`), which the properties allow only while that row is there; `PauseFirst` is the
moment between the pause of a torrent and that of its row. `RowsQuiet` needs to know of every row where its copy, its torrent file and its intents
are. The invariants of `TorrentServiceProofs` say that of a session which the download manager has for itself; what of them holds of the table,
the directories and the queue whatever the session holds is `TableRows`, in `TorrentServiceProofs`: it is proved
there from the steps of the worker, and here for the steps of the player, which leave the table alone.

**StorageProofs** (from `StorageAssumption`: what lies in a directory named `time4popcorn` is not the user's). `TypeCorrect`,
`RootIsInUse`, `UserDirsAreKept` and `DownloadsAreKept`, for any storages, directories, choices and deaths. The
invariant `IInv` says that every path the application adopts ends in its own name (`PathsOK`), so that no prefix delete
reaches a directory of the user; what each step of `init` and `setRootDirectory` finds, in particular that
`ClearRootDirectory` never runs without a root (`StepsOK`); and that before a first root is cleared no downloads lie in it
(`Fresh`), which fails exactly after `forgotten`.

**SmallPartsProofs** (from `SessionAssumption`, `ChoiceAssumption`, `FileAssumption` and `PathAssumption`). `SessionIsFollowed` (`SessionFollowsScreen`), for any number of screens and
of calls that throw. The property with the types is inductive, since `failed` and `late` remember what it excepts; each action is the composition of
the JNI functions, expanded one after the other.

`SubtitlesAreOfEpisode` (`SubtitlesOfEpisode`), for any episodes, languages and selections. Until an answer was overtaken, the answer to the last
selection is under way at most once, in the loader or at one place of the looper (`OneUnderWay`), and as long as it is the list is empty and stands at 0
(`EmptyUntilThen`); so the answer that is handled finds the list as the selection has left it, which is what the position needs when the preferred
language is not there. `PreferredFound` and `LastPreferred` are about the position.

`RightFileIsWanted` (`RightFileWanted`), for any files, sizes, `LongMax` and calls. One call establishes the property from any priorities, so that the types are
all it needs of the state before; the work is in the loop over the files. `NextFound` is its invariant: after the first k files none was found
to be bigger than nothing and none of them is loaded, or the first of the biggest is the only one of them that is.

`PickedIsWhatIsLoaded` (`PickedIsLoaded`), for any names, sizes, number of files and depth of their paths; the comment and the cut are those of
`Torrents`. The decoder is taken through the file part by part: `AfterBoth` says that it reads one sequence of tokens after another as it reads both together, so that
each part of what `Write` writes has a lemma of its own, which says what the call that is given the part has come to behind it, whatever its caller is
(`PathRead`, `FileRead`, `FilesRead`, `InfoRead`, `BodyRead`). A file that was cut ends before the last symbol, and a call that has ended stays
as it is (`AfterEnd`), so that there is no value yet (`BeforeValue`). `DecoderAnswers` puts this together: the answer is the dictionary of the torrent, or an
exception. From there on the loops that list the videos only add entries (`AddFilesAdds`). What a call of `setFilePriority`
chooses by name is the second half (`NamedChosen`).

Several of the proofs are about functions defined by recursion: the loops over files, tokens and entries, and the removal of messages from the looper. They rest on the first
lemmas of the module: the numbers are well-ordered (`SmallestIn`, from the library's `WFMin`), so that a set that has 0 and the successors has all numbers
(`UpTo`), and a step that stays in a set defines a function (`Recursion`). The decoder has no such set, since a call holds
calls; that there is a function of its steps for each number of tokens is proved by `UpTo` itself (`AfterReads`).

**SubtitleFileProofs** (from `LineAssumption`). `CuesAreKept` (`CuesKept`), for a file of any length. The property compares finished files; the invariant of a
conversion is over the lines that have been read. `SrtReads` says of each place the reader can be at how what is written relates to these lines: outside of
the cues (`Outside`) and before a time (`AtTime`) both show the same times and texts, and nothing that comes next belongs to a cue that is already written; in a text (`TextFrom`) they do up to the
time of the cue, the text that is held is the part of the file from there on, and it is not written yet. `VttReads` says the same of the second conversion, which has no text to
hold: instead the cue that is open in one file is open in the other, unless its text was nothing but tags (`SameOpen`). `SubtitleInv` joins what the two have come to. A failure is part of it: the
first conversion fails exactly where a number is not followed by a time, the second where a time has no end.

The work is in what a line adds to what a player reads, which depends on all the lines before it: a number is the beginning of a cue only once its time is there
(`NumberAfter`, `CueAfter`), a line is shown in every cue that is still open (`LineAfter`), and a text put behind the time of a cue shows its lines up to
the first empty one (`PlainLines`, `TextShows`). `ColouredShows` says that the trim and the colour change nothing of that but for lines of spaces. `KeptWith` is how a
cue that shows a part of its text, and cues that come after it, keep the relation between the files. That a reader has a function of its steps at all is proved by `UpTo` (`SrtUpTo`, `VttUpTo`).

**PlayerProofs** (from `PlayerAssumption`). `PlayerTypes`, `SilentIsSafe` (`SilentWhenPaused`), `ReadyIsSafe` (`ReadyIsCurrent`), `OneScreenIsSafe`
(`OneScreen`), `SubtitlesAreChosen` (`SubtitlesAsChosen`) and `PositionIsKept` (`PositionKept`): all the safety properties of the run `player`, for any length,
subtitles and number of disturbances. All are about messages that come late, so that the invariant `PlayerInv` speaks of the queue of the looper: which
messages can be in it, how many of a kind and in which order. One message of the life of the activity waits at a time and suits its state
(`LifeOK`). Of the preparations in the executor and the results in the queue only one counts, and none once the video is ready (`ReadyOK`).
Every load of subtitles that was cancelled has a later one behind it, and the last one loads the choice (`SubOK`). A device that plays beside the
Chromecast has a "playing" in the queue, at which it pauses (`CastOK`). The heart is `SilentOK`: when libVLC is off, whoever holds the audio focus, or will
by a "playing" that waits, has a "stopped" behind it in the queue (`Covered`), and every "stopped" comes before the "onDestroy" (`InTime`); so the
focus is given back before the activity is gone. The lemmas at the start of the module say what taking, adding and revoking a message does to these.

**CatalogueProofs** (from `CatalogueAssumption`). `CatalogueTypes`, `SelectionIsShown` (`ShowsSelection`) and `PagesAreInOrder` (`PagesInOrder`), for every
`MAX_PAGE_COUNT` and any number of selections, stops and errors. Both properties speak of a screen on which all has settled, and say nothing of the way
there; the invariant `IInv` follows what will be shown last on that way (`Coming`): the request of the list loader asks for what is selected, once it has
answered the last list in the looper does, and once only transactions wait the fragment of the one that is posted does. That one transaction is
posted at a time (`CommitOK`) makes it the last. `Counts` relates the page of each `VideoData` to the grid: it is 1 until its grid is on the screen, and
then the number of pages shown, one more while a page is on its way or its error waits (`Busy`).

Only model-checked: liveness (`StartedVideoCompletes`, `TaskEnds`, `QueueDrains`, `WaitingStarts`, `LoadingEnds`, `PagingGoesOn`, `PlaybackStarts`).
Liveness under fairness and ENABLED are out of reach of the prover. Every invariant and every action property of the passing runs is a theorem. The two
properties that runs expect to be violated are findings, and have none.

## Plan

Done: all the modules above, their runs, the refinement of `DownloadLife`, and the theorems. What remains, in this order:

1. RELOAD beside the download manager, in `Playback`: it is in `Prioritizer` only, where nobody else uses the session.
2. The overlay of the player and its timers, as far as they keep state.

## Not modelled

Most of the implementation in the repository, by lines, is vendored: libtorrent, boost and the two libraries of the player. A faithful
model of these would be a project about those programs; here they are what the calls in `J/libtorrent.cpp` and in the player need of them.

The values of the settings, the details of a video and the TV front end keep views, not state. Catalogue parsing translates JSON into objects.
`JSON.convert` has no caller. Nothing asks libtorrent for resume data. The mobile activities are not in the manifest of the
repository, so that their launch modes are those of a default declaration: two main screens can be there at once, which is in `Session`.
`TorrentService` has one at a time.

Three things were met in the code that no property judges. LOAD can look for a torrent before `add` has added it and drop it after
(`A/ui_mobile/base/PlayerBaseActivity.java:468`); that needs a torrent which only `add` knows to be in use. `SubtitleLoadTask` ignores the answer
of the conversion to VTT (`A/ui_mobile/base/PlayerBaseActivity.java:593`), so that a file which is refused is offered to the Chromecast anyway;
what the Chromecast does with it is not in the repository. And the request for the subtitles of an episode counts it from 0
(`A/ui_mobile/VideoTVShowFragment.java:205`), where only the server knows whether that is right.

The classes of the Downloads and Favorites tables are not in the repository; they are
modelled from how the code uses them.
