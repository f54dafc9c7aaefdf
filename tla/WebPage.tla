------------------------------ MODULE WebPage ------------------------------
(***************************************************************************)
(* The page of static/index.html over the endpoints of web.py: what it     *)
(* shows of a tablet that is plugged and unplugged, written by the page's  *)
(* own operations and, behind its back, by others.                         *)
(*                                                                         *)
(* The page is one thread of callbacks; each is one step, up to its next   *)
(* await.  The server answers one request at a time, in any order, since   *)
(* _device_lock does not queue fairly.  A request opens an SSH connection   *)
(* before it does anything, so an answer is long in the page when the next *)
(* one is made: answers arrive in the order they were made.  The ping takes *)
(* no lock and is answered at any time.                                    *)
(***************************************************************************)
EXTENDS Naturals, Sequences

CONSTANTS
    Screen, Stock, Custom,  \* screens; their stock image, and the others
    None,                   \* no image, no screen
    Watcher,                \* calls of watch() in progress at once
    MaxOps,                 \* bound: operations
    MaxSurprises            \* bound: unpluggings, writes of others, and requests that
                            \* fail though the tablet is there, together

Image == {Stock} \cup Custom

ASSUME NamesAssumption == None \notin Image \cup Screen /\ Stock \notin Custom
ASSUME BoundAssumption == MaxOps \in Nat /\ MaxSurprises \in Nat

VARIABLES
    here, image,    \* the tablet: whether it is attached, and what its screens hold
    hidden,         \* the tab is in the background
    connected,      \* CONNECTED
    state,          \* STATE: what the last status said of each screen
    thumbs,         \* THUMBS
    fetching,       \* thumbnails that are asked for and not answered by the server yet
    loading,        \* loadPromise: a status is asked for
    stage, op,      \* BUSY: the operation in progress, and whether it waits for load()
    watch, timer,   \* what each call of watch() waits for; whether a next one is scheduled
    answers,        \* answers on their way to the page
    unseen, foreign,\* screens changed since the last status, or since the thumbnails
                    \* were all forgotten, and not by an operation that said so
    ops, surprises

tablet == <<here, image>>
page == <<connected, state, thumbs, fetching, loading, stage, op, watch, timer>>
history == <<unseen, foreign>>
bounds == <<ops, surprises>>
vars == <<tablet, hidden, page, answers, history, bounds>>

Op == ({"apply", "restore"} \X Screen) \cup ({"restoreAll", "backup"} \X {None})
NoOp == <<"none", None>>
Answer == [kind : {"status"}, ok : BOOLEAN, of : [Screen -> Image]]
          \cup [kind : {"thumb"}, screen : Screen, of : Image \cup {None}]
          \cup [kind : {"op"}, ok : BOOLEAN]
Pending(kind) == \E i \in 1..Len(answers) : answers[i].kind = kind

Init ==
    /\ here \in BOOLEAN /\ image \in [Screen -> Image]
    /\ hidden = FALSE /\ connected = FALSE
    /\ state = [p \in Screen |-> None] /\ thumbs = [p \in Screen |-> None]
    /\ fetching = [p \in Screen |-> 0] /\ loading = FALSE
    /\ stage = "idle" /\ op = NoOp
    /\ \E w \in Watcher : watch = [v \in Watcher |-> IF v = w THEN "ping" ELSE "off"]
    /\ timer = FALSE /\ answers = <<>>
    /\ unseen = {} /\ foreign = {}
    /\ ops = 0 /\ surprises = 0

-----------------------------------------------------------------------------
Surprise == surprises < MaxSurprises /\ surprises' = surprises + 1

(* The functions of the page. *)

(* Mutant: no generation, so a thumbnail on its way is still put in the cache. *)
ForgetAllButOnTheWay(rest) ==
    /\ thumbs' = [p \in Screen |-> None]
    /\ foreign' = {}
    /\ answers' = rest /\ UNCHANGED fetching

(* forgetAllThumbs.  The generation makes the page ignore the answer of    *)
(* every fetch on its way: it is no picture any more, and what the server  *)
(* has not answered yet is as good as dropped.                             *)
Ignored(rest) == [i \in DOMAIN rest |-> IF rest[i].kind = "thumb"
                                        THEN [rest[i] EXCEPT !.of = None] ELSE rest[i]]
ForgetAll(rest) ==
    /\ thumbs' = [p \in Screen |-> None]
    /\ foreign' = {}
    /\ answers' = Ignored(rest)
    /\ fetching' = [p \in Screen |-> 0]

KeepThumbs(rest) == answers' = rest /\ UNCHANGED <<thumbs, foreign, fetching>>

(* showDisconnected. *)
ShowDisconnected(rest) == connected' = FALSE /\ ForgetAll(rest)

(* renderGrid: asks for every thumbnail that is not in the cache. *)
RenderGrid(rest) ==
    /\ fetching' = [p \in Screen |-> IF thumbs[p] = None THEN fetching[p] + 1 ELSE fetching[p]]
    /\ answers' = rest
    /\ UNCHANGED <<thumbs, foreign>>

(* watch(): a probe, or while hidden or at work nothing but the next timer. *)
(* A timer that fired is spent; one that is set when the tab comes back is  *)
(* still set.                                                              *)
StartWatch(w) ==
    IF ~hidden' /\ stage = "idle" /\ ~loading
    THEN watch' = [watch EXCEPT ![w] = "ping"] /\ timer' = (timer /\ hidden)
    ELSE timer' = TRUE /\ UNCHANGED watch

TimerFires(w) ==
    /\ timer /\ watch[w] = "off"
    /\ UNCHANGED hidden /\ StartWatch(w)
    /\ UNCHANGED <<tablet, connected, state, thumbs, fetching, loading, stage, op,
                   answers, history, bounds>>

(* The timer may still be set: two calls of watch() then overlap. *)
BecomeVisible(w) ==
    /\ hidden /\ watch[w] = "off"
    /\ hidden' = FALSE /\ StartWatch(w)
    /\ UNCHANGED <<tablet, connected, state, thumbs, fetching, loading, stage, op,
                   answers, history, bounds>>

Hide ==
    /\ ~hidden /\ hidden' = TRUE
    /\ UNCHANGED <<tablet, page, answers, history, bounds>>

(* Mutant: watch() schedules the next one only when it had nothing to do. *)
PingAnswerOnce(w) ==
    /\ watch[w] \in {"up", "down"}
    /\ IF watch[w] = "up" /\ ~connected
       THEN loading' = TRUE /\ watch' = [watch EXCEPT ![w] = "load"]
            /\ KeepThumbs(answers) /\ UNCHANGED <<connected, timer>>
       ELSE /\ watch' = [watch EXCEPT ![w] = "off"]
            /\ IF watch[w] = "down" /\ connected
               THEN ShowDisconnected(answers) /\ UNCHANGED timer
               ELSE KeepThumbs(answers) /\ timer' = TRUE /\ UNCHANGED connected
            /\ UNCHANGED loading
    /\ UNCHANGED <<tablet, hidden, state, stage, op, unseen, bounds>>

(* The rest of watch(), which may by now be in the middle of an operation. *)
PingAnswer(w) ==
    /\ watch[w] \in {"up", "down"}
    /\ IF watch[w] = "up" /\ ~connected
       THEN loading' = TRUE /\ watch' = [watch EXCEPT ![w] = "load"]
            /\ KeepThumbs(answers) /\ UNCHANGED <<connected, timer>>
       ELSE /\ watch' = [watch EXCEPT ![w] = "off"] /\ timer' = TRUE
            /\ IF watch[w] = "down" /\ connected
               THEN ShowDisconnected(answers)
               ELSE KeepThumbs(answers) /\ UNCHANGED connected
            /\ UNCHANGED loading
    /\ UNCHANGED <<tablet, hidden, state, stage, op, unseen, bounds>>

(* Mutant: load() keeps its promise when it is settled. *)
StatusAnswerKept ==
    /\ answers # <<>> /\ Head(answers).kind = "status"
    /\ IF Head(answers).ok
       THEN /\ connected' = TRUE /\ state' = Head(answers).of
            /\ RenderGrid(Tail(answers))
       ELSE ShowDisconnected(Tail(answers)) /\ UNCHANGED state
    /\ timer' = TRUE
    /\ watch' = [w \in Watcher |-> IF watch[w] = "load" THEN "off" ELSE watch[w]]
    /\ stage' = IF stage = "load" THEN "idle" ELSE stage
    /\ UNCHANGED <<tablet, hidden, loading, op, unseen, bounds>>

(* loadStatus gets its answer; whoever awaits the promise goes on: watch()  *)
(* and an operation at its load() end, and schedule the next watch.         *)
StatusAnswer ==
    /\ answers # <<>> /\ Head(answers).kind = "status"
    /\ IF Head(answers).ok
       THEN /\ connected' = TRUE /\ state' = Head(answers).of
            /\ RenderGrid(Tail(answers))
       ELSE ShowDisconnected(Tail(answers)) /\ UNCHANGED state
    /\ loading' = FALSE /\ timer' = TRUE
    /\ watch' = [w \in Watcher |-> IF watch[w] = "load" THEN "off" ELSE watch[w]]
    /\ stage' = IF stage = "load" THEN "idle" ELSE stage
    /\ UNCHANGED <<tablet, hidden, op, unseen, bounds>>

ThumbAnswer ==
    /\ answers # <<>> /\ Head(answers).kind = "thumb"
    /\ LET a == Head(answers) IN
       thumbs' = IF a.of = None THEN thumbs ELSE [thumbs EXCEPT ![a.screen] = a.of]
    /\ answers' = Tail(answers)
    /\ UNCHANGED <<tablet, hidden, connected, state, fetching, loading, stage, op, watch, timer,
                   history, bounds>>

(* doApply, doRestore, batch: on the selected screen, or on all of them.    *)
Click ==
    /\ stage = "idle" /\ connected /\ ops < MaxOps
    /\ ops' = ops + 1
    /\ op' \in Op /\ stage' = "sent"
    /\ UNCHANGED <<tablet, hidden, connected, state, thumbs, fetching, loading, watch, timer,
                   answers, history, surprises>>

(* Refresh: an operation without a request of its own. *)
Refresh ==
    /\ stage = "idle" /\ ops < MaxOps
    /\ ops' = ops + 1
    /\ ForgetAll(answers)
    /\ loading' = TRUE /\ stage' = "load"
    /\ UNCHANGED <<tablet, hidden, connected, state, op, watch, timer, unseen, surprises>>

(* What an operation that succeeded makes the page forget. *)
Forget(rest) ==
    CASE op[1] \in {"apply", "restore"} ->
            /\ thumbs' = [thumbs EXCEPT ![op[2]] = None]
            /\ answers' = rest /\ UNCHANGED <<fetching, foreign>>
      [] op[1] = "restoreAll" -> ForgetAll(rest)
      [] OTHER -> KeepThumbs(rest)

(* Mutant: the page does not read the status again after an operation. *)
OpAnswerNoLoad ==
    /\ answers # <<>> /\ Head(answers).kind = "op"
    /\ IF Head(answers).ok THEN Forget(Tail(answers)) ELSE KeepThumbs(Tail(answers))
    /\ stage' = "idle" /\ timer' = TRUE /\ op' = NoOp
    /\ UNCHANGED <<tablet, hidden, connected, state, loading, watch, unseen, bounds>>

(* load() joins the status that is asked for already, if one is. *)
OpAnswer ==
    /\ answers # <<>> /\ Head(answers).kind = "op"
    /\ IF Head(answers).ok
       THEN /\ Forget(Tail(answers))
            /\ loading' = TRUE /\ stage' = "load" /\ UNCHANGED timer
       ELSE /\ KeepThumbs(Tail(answers))
            /\ stage' = "idle" /\ timer' = TRUE /\ UNCHANGED loading
    /\ op' = NoOp
    /\ UNCHANGED <<tablet, hidden, connected, state, watch, unseen, bounds>>

-----------------------------------------------------------------------------
(* The endpoints. *)

(* A request fails without a tablet, or for another reason. *)
Fails == IF here THEN Surprise ELSE UNCHANGED surprises

(* ping: a bare connect. *)
Ping(w) ==
    /\ watch[w] = "ping"
    /\ \/ here /\ watch' = [watch EXCEPT ![w] = "up"] /\ UNCHANGED surprises
       \/ Fails /\ watch' = [watch EXCEPT ![w] = "down"]
    /\ UNCHANGED <<tablet, hidden, connected, state, thumbs, fetching, loading, stage, op, timer,
                   answers, history, ops>>

(* status: {"connected": False} or an error when the tablet does not answer. *)
Status ==
    /\ loading /\ ~Pending("status")
    /\ \/ here /\ unseen' = {} /\ UNCHANGED surprises
          /\ answers' = Append(answers, [kind |-> "status", ok |-> TRUE, of |-> image])
       \/ Fails /\ UNCHANGED unseen
          /\ answers' = Append(answers, [kind |-> "status", ok |-> FALSE, of |-> image])
    /\ UNCHANGED <<tablet, hidden, page, foreign, ops>>

(* current: the screen's picture, or an error. *)
Current(p) ==
    /\ fetching[p] > 0
    /\ fetching' = [fetching EXCEPT ![p] = @ - 1]
    /\ \E i \in {image[p], None} :
          /\ IF i = None THEN Fails ELSE here /\ UNCHANGED surprises
          /\ answers' = Append(answers, [kind |-> "thumb", screen |-> p, of |-> i])
    /\ UNCHANGED <<tablet, hidden, connected, state, thumbs, loading, stage, op, watch, timer,
                   history, ops>>

(* Screens that hold another image than the page was told of.  A page that *)
(* is not connected shows none and will ask for them anew.                 *)
BehindItsBack(new) ==
    LET changed == {p \in Screen : new[p] # image[p]} IN
    /\ unseen' = unseen \cup changed
    /\ foreign' = IF connected THEN foreign \cup changed ELSE foreign

(* apply_screen, restore, restore_all, backup.  restore_all succeeds with  *)
(* any of the screens restored.                                            *)
Written(new) ==
    CASE op[1] = "apply" -> \E c \in Custom : new = [image EXCEPT ![op[2]] = c]
      [] op[1] = "restore" -> new = [image EXCEPT ![op[2]] = Stock]
      [] op[1] = "restoreAll" -> \A p \in Screen : new[p] \in {image[p], Stock}
      [] OTHER -> new = image

(* An operation may fail after it wrote, in the revert of its remount. *)
Operation ==
    /\ stage = "sent" /\ ~Pending("op")
    /\ \E new \in [Screen -> Image] :
          /\ image' = new
          /\ \/ here /\ Written(new) /\ UNCHANGED <<surprises, history>>
                /\ answers' = Append(answers, [kind |-> "op", ok |-> TRUE])
             \/ Fails /\ (new = image \/ (here /\ Written(new))) /\ BehindItsBack(new)
                /\ answers' = Append(answers, [kind |-> "op", ok |-> FALSE])
    /\ UNCHANGED <<here, hidden, page, ops>>

(* A command, or the page in another tab, writes a screen. *)
OtherWrites ==
    /\ here /\ Surprise
    /\ \E p \in Screen, i \in Image :
          /\ image' = [image EXCEPT ![p] = i]
          /\ BehindItsBack([image EXCEPT ![p] = i])
    /\ UNCHANGED <<here, hidden, page, answers, ops>>

Unplug ==
    /\ here /\ Surprise
    /\ here' = FALSE
    /\ UNCHANGED <<image, hidden, page, answers, history, ops>>

(* The tablet that is plugged in may be another one. *)
Plug ==
    /\ ~here /\ here' = TRUE
    /\ \E new \in [Screen -> Image] : image' = new /\ BehindItsBack(new)
    /\ UNCHANGED <<hidden, page, answers, bounds>>

Server == Status \/ Operation \/ \E p \in Screen : Current(p)
Probe(w) == Ping(w) \/ PingAnswer(w)
Page == StatusAnswer \/ ThumbAnswer \/ OpAnswer

Next ==
    \/ Server \/ Page \/ Click \/ Refresh \/ Hide \/ OtherWrites \/ Unplug \/ Plug
    \/ \E w \in Watcher : Probe(w) \/ TimerFires(w) \/ BecomeVisible(w)

Spec == Init /\ [][Next]_vars

(* The server answers every request, the lock being free in the end; the   *)
(* page handles every answer, and its timer fires.                          *)
Fairness ==
    /\ WF_vars(Status) /\ WF_vars(Operation) /\ WF_vars(Page)
    /\ \A p \in Screen : WF_vars(Current(p))
    /\ \A w \in Watcher : WF_vars(Probe(w))
    /\ WF_vars(\E w \in Watcher : TimerFires(w))
FairSpec == Spec /\ Fairness

-----------------------------------------------------------------------------
(* The variables have their types; a status is asked for while somebody     *)
(* awaits it, and BUSY is an operation that is asked for or awaits it too.  *)
TypeOK ==
    /\ here \in BOOLEAN /\ image \in [Screen -> Image] /\ hidden \in BOOLEAN
    /\ connected \in BOOLEAN /\ loading \in BOOLEAN /\ timer \in BOOLEAN
    /\ state \in [Screen -> Image \cup {None}] /\ thumbs \in [Screen -> Image \cup {None}]
    /\ fetching \in [Screen -> Nat]
    /\ stage \in {"idle", "sent", "load"} /\ op \in Op \cup {NoOp}
    /\ watch \in [Watcher -> {"off", "ping", "up", "down", "load"}]
    /\ answers \in Seq(Answer)
    /\ unseen \subseteq Screen /\ foreign \subseteq Screen
    /\ loading <=> stage = "load" \/ \E w \in Watcher : watch[w] = "load"
    /\ stage = "sent" <=> op # NoOp

(* "Cache them by key so a redraw costs nothing and only screens we know   *)
(* have changed are refetched": no thumbnail outlives the image it shows,  *)
(* of this tablet or the one before, for screens that only this page       *)
(* writes, and for all of them after a Refresh.                            *)
ThumbsTrue ==
    stage # "sent" => \A p \in Screen \ foreign : thumbs[p] \in {None, image[p]}

(* Between operations the tiles say of each screen what is true of it:     *)
(* load() may join a status that is on its way, but not one older than the *)
(* operation.                                                              *)
StateTrue ==
    connected /\ stage = "idle" /\ ~loading =>
        \A p \in Screen \ unseen : state[p] = image[p]

(* "The tablet gets plugged and unplugged constantly, so the UI notices":  *)
(* whatever the user does meanwhile and whichever requests fail.           *)
Noticed == \A b \in BOOLEAN : <>[](here = b /\ ~hidden) => <>[](connected = b)
=============================================================================
