------------------------------ MODULE Desktop -------------------------------
(***************************************************************************)
(* The Windows UI (ui/src) above the two services of KeyFiles.  Three tasks*)
(* exchange events over two bounded channels whose sends block: the view   *)
(* (ui/src/adapter/view/desktop.rs), which runs the window's event loop and*)
(* sends from its callbacks; the presenter (usecase/presenter.rs), which   *)
(* carries out what was clicked and polls the state of the service; and the*)
(* watcher (usecase/watcher.rs), which reports changes of log files.  The  *)
(* page in the window (ui/html/main.js) shows one log.                     *)
(*                                                                         *)
(* Start and stop launch a script and do not wait for it, so scripts of    *)
(* several clicks run side by side.  tauri and nssm are taken as this code *)
(* uses them: callbacks run inside run_iteration, a service is restarted   *)
(* when its process exits.                                                 *)
(***************************************************************************)
EXTENDS KeyFiles, Sequences

CONSTANTS Hbbs, Hbbr,
          File, FirstFile,   \* the logs; "hbbs.out"
          None,
          Buffer,            \* BUFFER: the capacity of a channel
          FirstKey,          \* the key of servers that have one already
          Scenes             \* bounds: for each scene, how it starts, the items
                             \* that are clicked, and the numbers of faults,
                             \* clicks, changes of files, starts of the page and
                             \* failures of the watcher

Event == [type : {"state", "file", "action", "change", "init", "other", "exit"},
          arg : File \union {None, "Unknown", "Started", "Stopped", "start", "stop", "restart", "exit"}]

ASSUME DesktopAssumption ==
    /\ Proc = {Hbbs, Hbbr} /\ Hbbs # Hbbr
    /\ FirstFile \in File /\ None \notin File \union Event /\ FirstKey \in Key
    /\ Buffer \in Nat \ {0, 1}

VARIABLES
    to_presenter, to_view,   \* the channels
    file, service_state,     \* of the presenter: the chosen log, the last state
    p_out, p_n, p_todo,      \* what it is sending; events of this round; the
                             \* services it is restarting
    v_out, v_n, v_at,        \* the view's; v_at: "events" or "iteration"
    shown,                   \* the state the window shows; None before the first
    w_out, watching, unseen, \* the watcher; files that changed while it was down
    version,                 \* version[f]: how often f changed
    page,                    \* what the page shows, and what it is reading
    scripts,                 \* what is left of each script that runs
    left                     \* what is left of the bounds of the scene

channels == <<to_presenter, to_view>>
presenter == <<file, service_state, p_out, p_n, p_todo>>
view == <<v_out, v_n, v_at, shown>>
watcher == <<w_out, watching, unseen, version>>
uiVars == <<channels, presenter, view, watcher, page, scripts, left>>
vars == <<keyVars, uiVars>>

Show(s) == [type |-> "state", arg |-> s]
Update(f) == [type |-> "file", arg |-> f]
Do(a) == [type |-> "action", arg |-> a]
Change(f) == [type |-> "change", arg |-> f]
BrowserInit == [type |-> "init", arg |-> None]
ViewInit == [type |-> "other", arg |-> None]
AppExit == [type |-> "exit", arg |-> None]

(***************************************************************************)
(* A scene begins with any files and all processes down and no UI, or when *)
(* the UI starts: on a new machine, or above servers that are up, or were. *)
(* The view has sent ViewInit; the presenter is about to send the state.   *)
(***************************************************************************)
Init ==
    /\ KeyInit
    /\ \E s \in Scenes :
          /\ faults.left = s.faults
          /\ v_at = IF s.start = "no UI" THEN "exited" ELSE "events"
          /\ CASE s.start = "no UI" -> wanted = Proc /\ \A p \in Proc : at[p] = "off"
               [] s.start = "new" -> sk = Absent /\ pub = Absent /\ wanted = {}
               [] s.start = "down" -> sk = FirstKey /\ pub = sk /\ wanted = {}
               [] s.start = "up" -> sk = FirstKey /\ \A p \in Proc : at[p] = "serve"
          /\ left = [items |-> s.items, click |-> s.click, change |-> s.change, init |-> s.init,
                     fail |-> s.fail]
    /\ to_presenter = <<ViewInit>> /\ to_view = <<>>
    /\ file = FirstFile /\ service_state = "Unknown"
    /\ p_out = Show("Unknown") /\ p_n = 0 /\ p_todo = <<>>
    /\ v_out = None /\ v_n = 0 /\ shown = None
    /\ w_out = <<>> /\ watching = TRUE /\ unseen = {}
    /\ version = [f \in File |-> 0]
    /\ page = [file |-> None, up |-> FALSE, changed |-> FALSE,
               reading |-> None, shows |-> None, missed |-> FALSE]
    /\ scripts = <<>>

Exited == v_at = "exited"

(* What is left of a script: services to stop and remove, or to run.       *)
StopScript == <<[op |-> "stop", p |-> Hbbr], [op |-> "stop", p |-> Hbbs]>>
StartScript == StopScript \o <<[op |-> "run", p |-> Hbbs], [op |-> "run", p |-> Hbbr]>>

-----------------------------------------------------------------------------
(* The presenter reads its channel while it is not in a send or a restart. *)
Ready == p_out = None /\ p_todo = <<>> /\ ~ Exited

(* One event of a round, of which a round has at most Buffer - 1.          *)
PresenterEvent ==
    LET e == Head(to_presenter) IN
    /\ Ready /\ to_presenter # <<>> /\ p_n < Buffer - 1
    /\ to_presenter' = Tail(to_presenter)
    /\ p_n' = p_n + 1
    /\ \/ e = BrowserInit /\ p_out' = Update(file) /\ UNCHANGED <<file, p_todo, scripts>>
       \/ /\ e.type = "change" /\ UNCHANGED <<file, p_todo, scripts>>
          /\ p_out' = IF e.arg = file THEN Update(file) ELSE None
       \/ /\ e.type = "action" /\ e.arg \in File /\ UNCHANGED <<p_todo, scripts>>
          /\ file' = e.arg /\ p_out' = Update(e.arg)
       \/ e = Do("start") /\ scripts' = Append(scripts, StartScript) /\ UNCHANGED <<file, p_out, p_todo>>
       \/ e = Do("stop") /\ scripts' = Append(scripts, StopScript) /\ UNCHANGED <<file, p_out, p_todo>>
       \/ e = Do("restart") /\ p_todo' = <<Hbbs, Hbbr>> /\ UNCHANGED <<file, p_out, scripts>>
       \/ e = Do("exit") /\ p_out' = AppExit /\ UNCHANGED <<file, p_todo, scripts>>
       \/ e = ViewInit /\ UNCHANGED <<file, p_out, p_todo, scripts>>
    /\ UNCHANGED <<keyVars, to_view, service_state, view, watcher, page, left>>

(* Its send, which waits while the channel is full.                        *)
PresenterSend ==
    /\ p_out # None /\ Len(to_view) < Buffer /\ ~ Exited
    /\ to_view' = Append(to_view, p_out)
    /\ p_out' = None
    /\ UNCHANGED <<keyVars, to_presenter, file, service_state, p_n, p_todo, view, watcher, page, scripts, left>>

(* "nssm restart" of each service, which is waited for; it fails for a     *)
(* service that is not installed.                                          *)
PresenterRestarts ==
    /\ p_todo # <<>> /\ ~ Exited
    /\ p_todo' = Tail(p_todo)
    /\ IF Head(p_todo) \in wanted THEN Killed(Head(p_todo)) ELSE UNCHANGED <<at, key, made, faults>>
    /\ UNCHANGED <<files, wanted, channels, file, service_state, p_out, p_n, view, watcher, page, scripts, left>>

RoundOver == Ready /\ (to_presenter = <<>> \/ p_n = Buffer - 1)

(* A round is over, and the last look at the service is recent.            *)
PresenterRests ==
    /\ RoundOver /\ p_n > 0
    /\ p_n' = 0
    /\ UNCHANGED <<keyVars, channels, file, service_state, p_out, p_todo, view, watcher, page, scripts, left>>

(* service_status: a service whose process has just exited is Running or,  *)
(* before nssm starts it again, is not.                                    *)
Status ==
    CASE Hbbs \notin wanted -> {"Stopped"}
      [] Hbbs \in wanted /\ at[Hbbs] = "off" -> {"Started", "Stopped"}
      [] OTHER -> {"Started"}

(* A second has passed: the service is looked at, a new state is sent.     *)
PresenterChecks ==
    /\ RoundOver
    /\ p_n' = 0
    /\ service_state' \in Status
    /\ p_out' = IF service_state' # service_state THEN Show(service_state') ELSE None
    /\ UNCHANGED <<keyVars, channels, file, p_todo, view, watcher, page, scripts, left>>

(* A step of a script.                                                     *)
ScriptStep(i) ==
    LET s == Head(scripts[i]) IN
    /\ scripts[i] # <<>>
    /\ scripts' = [scripts EXCEPT ![i] = Tail(@)]
    /\ \/ s.op = "stop" /\ wanted' = wanted \ {s.p} /\ Killed(s.p)
       \/ s.op = "run" /\ wanted' = wanted \union {s.p} /\ UNCHANGED <<at, key, made, faults>>
    /\ UNCHANGED <<files, channels, presenter, view, watcher, page, left>>

-----------------------------------------------------------------------------
(* appAction of the page: it is to show this file, as it is now.           *)
AppAction(f) ==
    page' = IF page.up THEN [page EXCEPT !.file = f, !.changed = TRUE] ELSE page

(* One event of a round of the view's.                                     *)
ViewEvent ==
    LET e == Head(to_view) IN
    /\ v_at = "events" /\ to_view # <<>> /\ v_n < Buffer - 1
    /\ to_view' = Tail(to_view)
    /\ v_n' = v_n + 1
    /\ \/ e.type = "state" /\ shown' = e.arg /\ UNCHANGED <<v_at, page>>
       \/ e.type = "file" /\ AppAction(e.arg) /\ UNCHANGED <<v_at, shown>>
       \/ e = AppExit /\ v_at' = "exited" /\ UNCHANGED <<shown, page>>
    /\ UNCHANGED <<keyVars, to_presenter, presenter, v_out, watcher, scripts, left>>

(* The round is over, and run_iteration is called; it returns.             *)
ViewRoundOver ==
    \/ v_at = "iteration"
    \/ v_at = "events" /\ (to_view = <<>> \/ v_n = Buffer - 1)

IterationEnds ==
    /\ ViewRoundOver /\ v_out = None /\ (v_at = "iteration" \/ v_n > 0)
    /\ v_at' = "events" /\ v_n' = 0
    /\ UNCHANGED <<keyVars, channels, presenter, v_out, shown, watcher, page, scripts, left>>

(* The items of the menu and the tray that the shown state leaves enabled; *)
(* all of them, before one is shown.                                       *)
Enabled ==
    File \union {"exit"} \union
    CASE shown = "Started" -> {"stop", "restart"}
      [] shown = "Stopped" -> {"start"}
      [] shown = "Unknown" -> {}
      [] shown = None -> {"start", "stop", "restart"}

(* A callback in run_iteration: an item is clicked, or the page is up.     *)
Click(a) ==
    /\ ViewRoundOver /\ v_out = None /\ left.click > 0 /\ a \in Enabled \intersect left.items
    /\ v_out' = Do(a) /\ v_at' = "iteration"
    /\ left' = [left EXCEPT !.click = @ - 1]
    /\ UNCHANGED <<keyVars, channels, presenter, v_n, shown, watcher, page, scripts>>

(* The configuration is saved in the page, which asks for a restart.       *)
PageSaves ==
    /\ ViewRoundOver /\ v_out = None /\ left.click > 0 /\ page.up /\ "save" \in left.items
    /\ v_out' = Do("restart") /\ v_at' = "iteration"
    /\ left' = [left EXCEPT !.click = @ - 1]
    /\ UNCHANGED <<keyVars, channels, presenter, v_n, shown, watcher, page, scripts>>

PageInit ==
    /\ ViewRoundOver /\ v_out = None /\ left.init > 0
    /\ v_out' = BrowserInit /\ v_at' = "iteration"
    /\ page' = [page EXCEPT !.up = TRUE]
    /\ left' = [left EXCEPT !.init = @ - 1]
    /\ UNCHANGED <<keyVars, channels, presenter, v_n, shown, watcher, scripts>>

(* The send of a callback: while it waits, so does the window.             *)
ViewSend ==
    /\ v_out # None /\ Len(to_presenter) < Buffer
    /\ to_presenter' = Append(to_presenter, v_out)
    /\ v_out' = None
    /\ UNCHANGED <<keyVars, to_view, presenter, v_n, v_at, shown, watcher, page, scripts, left>>

-----------------------------------------------------------------------------
(* A log is written; the watcher is told, if it is watching.               *)
FileChanges(f) ==
    /\ left.change > 0 /\ ~ Exited
    /\ left' = [left EXCEPT !.change = @ - 1]
    /\ version' = [version EXCEPT ![f] = @ + 1]
    /\ IF watching
       THEN w_out' = Append(w_out, f) /\ unseen' = unseen \ {f}
       ELSE unseen' = unseen \union {f} /\ UNCHANGED w_out
    /\ UNCHANGED <<keyVars, channels, presenter, view, watching, page, scripts>>

WatcherSend ==
    /\ w_out # <<>> /\ Len(to_presenter) < Buffer /\ ~ Exited
    /\ to_presenter' = Append(to_presenter, Change(Head(w_out)))
    /\ w_out' = Tail(w_out)
    /\ UNCHANGED <<keyVars, to_view, presenter, view, watching, unseen, version, page, scripts, left>>

(* watch returns an error, and is called again a second later.             *)
WatchFails ==
    /\ watching /\ w_out = <<>> /\ left.fail > 0 /\ ~ Exited
    /\ watching' = FALSE
    /\ left' = [left EXCEPT !.fail = @ - 1]
    /\ UNCHANGED <<keyVars, channels, presenter, view, w_out, unseen, version, page, scripts>>

Watch ==
    /\ ~ watching /\ ~ Exited
    /\ watching' = TRUE
    /\ UNCHANGED <<keyVars, channels, presenter, view, w_out, unseen, version, page, scripts, left>>

-----------------------------------------------------------------------------
(* update of the page begins, and takes the time, which may be that of the *)
(* action: then action_time < now will not hold.                           *)
PageReads ==
    /\ page.changed /\ page.reading = None
    /\ \E later \in BOOLEAN :
          page' = [page EXCEPT !.changed = FALSE,
                               !.reading = <<page.file, version[page.file], later>>]
    /\ UNCHANGED <<keyVars, channels, presenter, view, watcher, scripts, left>>

(* Faulty variant: without the test of action_time.                        *)
PageShowsAny ==
    /\ page.reading # None
    /\ \E v \in page.reading[2]..version[page.reading[1]] :
          page' = [page EXCEPT !.reading = None, !.missed = FALSE,
                               !.shows = <<page.reading[1], v>>]
    /\ UNCHANGED <<keyVars, channels, presenter, view, watcher, scripts, left>>

(* Faulty variant: is_file_changed is cleared after the file was read.     *)
PageShowsClears ==
    /\ page.reading # None
    /\ \E v \in page.reading[2]..version[page.reading[1]] :
          page' = [page EXCEPT !.reading = None, !.changed = FALSE,
                               !.missed = ~ page.reading[3] /\ ~ page.changed,
                               !.shows = IF page.reading[3] /\ ~ page.changed
                                         THEN <<page.reading[1], v>> ELSE @]
    /\ UNCHANGED <<keyVars, channels, presenter, view, watcher, scripts, left>>

(* The file has been read, at some moment since: the contents are shown,   *)
(* if no action came in the meantime, nor in the millisecond it began in.  *)
PageShows ==
    /\ page.reading # None
    /\ \E v \in page.reading[2]..version[page.reading[1]] :
          page' = [page EXCEPT !.reading = None,
                               !.missed = ~ page.reading[3] /\ ~ page.changed,
                               !.shows = IF page.reading[3] /\ ~ page.changed
                                         THEN <<page.reading[1], v>> ELSE @]
    /\ UNCHANGED <<keyVars, channels, presenter, view, watcher, scripts, left>>

(* There is no such file, or exists or readTextFile fails, and the loop of *)
(* init only logs that: what was shown stays, whichever log it is of, and  *)
(* the file is not read again before the next action.                      *)
PageFails ==
    /\ page.reading # None
    /\ page' = [page EXCEPT !.reading = None, !.missed = ~ page.changed]
    /\ UNCHANGED <<keyVars, channels, presenter, view, watcher, scripts, left>>

-----------------------------------------------------------------------------
Keys == KeyNext /\ UNCHANGED uiVars

Next ==
    \/ Keys
    \/ PresenterEvent \/ PresenterSend \/ PresenterRestarts \/ PresenterRests \/ PresenterChecks
    \/ \E i \in DOMAIN scripts : ScriptStep(i)
    \/ ViewEvent \/ IterationEnds \/ PageSaves \/ PageInit \/ ViewSend
    \/ \E a \in File \union {"start", "stop", "restart", "exit"} : Click(a)
    \/ \E f \in File : FileChanges(f)
    \/ WatcherSend \/ WatchFails \/ Watch
    \/ PageReads \/ PageShows \/ PageFails

(***************************************************************************)
(* Every thread, page and script runs on unless it waits in a send; a      *)
(* second passes, so that the presenter looks at the service at the end of *)
(* some round; the page comes up.                                          *)
(***************************************************************************)
Fairness ==
    /\ \A p \in Proc : WF_vars((Spawn(p) \/ GenSk(p)) /\ UNCHANGED uiVars)
    /\ WF_vars(PresenterEvent \/ PresenterSend \/ PresenterRestarts \/ PresenterRests)
    /\ SF_vars(PresenterChecks)
    /\ WF_vars(\E i \in DOMAIN scripts : ScriptStep(i))
    /\ WF_vars(ViewEvent \/ IterationEnds) /\ SF_vars(ViewSend) /\ SF_vars(PageInit)
    /\ SF_vars(WatcherSend) /\ WF_vars(Watch)
    /\ WF_vars(PageReads \/ PageShows \/ PageFails)

Spec == Init /\ [][Next]_vars /\ Fairness

-----------------------------------------------------------------------------
(* The presenter waits for room in the view's channel, and the view, in a  *)
(* callback, for room in the presenter's: neither reads any more.          *)
Wedged ==
    /\ p_out # None /\ Len(to_view) = Buffer
    /\ v_out # None /\ Len(to_presenter) = Buffer

(* What the presenter has sent or is sending, and the view has not read.   *)
OnItsWay == IF p_out = None THEN to_view ELSE Append(to_view, p_out)

NoneOf(s, type) == \A i \in 1..Len(s) : s[i].type # type

Has(s, X) == \E i \in 1..Len(s) : s[i] \in X

LastIs(s, e) ==
    \E i \in 1..Len(s) : s[i] = e /\ \A j \in (i + 1)..Len(s) : s[j].type # e.type

(* The window shows the state of the service that the presenter saw last,  *)
(* or will, once it has read the events that are on their way.             *)
StateFollows ==
    \/ NoneOf(OnItsWay, "state") /\ shown = service_state
    \/ LastIs(OnItsWay, Show(service_state))

(* Somewhere on its way is an event that will make the page read the log.  *)
Told ==
    \/ ~ NoneOf(OnItsWay, "file")
    \/ v_out = BrowserInit
    \/ Has(to_presenter, {BrowserInit, Change(file)})
    \/ Has(w_out, {file})

(* The page, if it is up, shows the newest contents of the chosen log, or  *)
(* reads them, or is about to: no change is lost between the three tasks.  *)
(* The page itself loses one when its last reading came to nothing: it     *)
(* failed, or began in the millisecond of the action.                      *)
LogFollows ==
    page.up /\ ~ Told /\ file \notin unseen =>
        /\ page.file = file
        /\ \/ page.changed
           \/ \E later \in BOOLEAN : page.reading = <<file, version[file], later>>
           \/ page.reading = None /\ (page.missed \/ page.shows = <<file, version[file]>>)

(* A reading that ends after another log was chosen is not shown.          *)
ShowsChosen == page'.shows # page.shows => page'.shows[1] = page'.file

(* When nothing is on its way the window is up to date, in whatever order  *)
(* clicks, looks at the service and changes of logs came; and the contents *)
(* of a log appear only while it is the one the page is to show.           *)
WindowFollows == [](StateFollows /\ LogFollows) /\ [][ShowsChosen]_vars

(* The window ends up showing the state of the hbbs service and the newest *)
(* contents of the log that was chosen last, whatever was clicked, changed *)
(* and restarted at the same time; unless the two tasks wait for each      *)
(* other, no process can start, the log changed while nobody watched, or   *)
(* the page is not up, began its last reading in the very millisecond it   *)
(* was told to, or could not read the log.                                 *)
ViewSettles ==
    <>[](\/ Exited \/ Wedged \/ Spoilt
         \/ /\ shown = IF Hbbs \in wanted THEN "Started" ELSE "Stopped"
            /\ \/ page.shows = <<file, version[file]>>
               \/ file \in unseen \/ page.missed \/ ~ page.up)
=============================================================================
