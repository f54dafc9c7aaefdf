---------------------------- MODULE WebPageProofs ----------------------------
(* Theorems about WebPage, for any number of screens, images, overlapping   *)
(* calls of watch(), operations and surprises.                              *)
EXTENDS WebPage, TLAPS

(* Answers and sequences of them. *)

LEMMA AnswerFields ==
    ASSUME NEW a \in Answer
    PROVE  /\ a.kind \in {"status", "thumb", "op"}
           /\ a.kind = "status" => a.ok \in BOOLEAN /\ a.of \in [Screen -> Image]
           /\ a.kind = "thumb" => a.screen \in Screen /\ a.of \in Image \cup {None}
           /\ a.kind = "op" => a.ok \in BOOLEAN
BY DEF Answer

LEMMA AnswersMade ==
    /\ \A of \in [Screen -> Image], ok \in BOOLEAN : [kind |-> "status", ok |-> ok, of |-> of] \in Answer
    /\ \A p \in Screen, of \in Image \cup {None} : [kind |-> "thumb", screen |-> p, of |-> of] \in Answer
    /\ \A ok \in BOOLEAN : [kind |-> "op", ok |-> ok] \in Answer
BY DEF Answer

(* An answer that a later generation ignores is otherwise the same. *)
Same(b, a) ==
    /\ b.kind = a.kind
    /\ a.kind # "thumb" => b = a
    /\ a.kind = "thumb" => b.screen = a.screen /\ b.of \in {a.of, None}

LEMMA IgnoredTyped ==
    ASSUME NEW rest \in Seq(Answer)
    PROVE  /\ Ignored(rest) \in Seq(Answer) /\ Len(Ignored(rest)) = Len(rest)
           /\ \A i \in 1..Len(rest) : /\ Same(Ignored(rest)[i], rest[i])
                                      /\ rest[i].kind = "thumb" => Ignored(rest)[i].of = None
<1>1. ASSUME NEW a \in Answer, a.kind = "thumb"
      PROVE  /\ [a EXCEPT !.of = None] \in Answer /\ [a EXCEPT !.of = None].kind = "thumb"
             /\ [a EXCEPT !.of = None].screen = a.screen /\ [a EXCEPT !.of = None].of = None
  BY <1>1 DEF Answer
<1>2. \A i \in 1..Len(rest) : rest[i] \in Answer /\ DOMAIN rest = 1..Len(rest)
  OBVIOUS
<1>3. DOMAIN rest = 1..Len(rest)
  OBVIOUS
<1>4. ASSUME NEW i \in 1..Len(rest)
      PROVE  /\ Ignored(rest)[i] \in Answer /\ Same(Ignored(rest)[i], rest[i])
             /\ rest[i].kind = "thumb" => Ignored(rest)[i].of = None
  BY <1>1, <1>2, <1>3 DEF Ignored, Same
<1>5. Ignored(rest) \in [1..Len(rest) -> Answer]
  BY <1>3, <1>4 DEF Ignored
<1> QED BY <1>4, <1>5

LEMMA TailTyped ==
    ASSUME NEW s \in Seq(Answer), s # <<>>
    PROVE  /\ Tail(s) \in Seq(Answer) /\ Len(Tail(s)) = Len(s) - 1
           /\ \A i \in 1..Len(Tail(s)) : Tail(s)[i] = s[i + 1]
           /\ Len(s) \in Nat \ {0} /\ Head(s) = s[1] /\ Head(s) \in Answer
OBVIOUS

LEMMA AppendTyped ==
    ASSUME NEW s \in Seq(Answer), NEW a \in Answer
    PROVE  /\ Append(s, a) \in Seq(Answer) /\ Len(Append(s, a)) = Len(s) + 1
           /\ \A i \in 1..Len(s) : Append(s, a)[i] = s[i]
           /\ Append(s, a)[Len(s) + 1] = a
OBVIOUS

-----------------------------------------------------------------------------
(* Types. *)

(* What the functions of the page keep of the types. *)
LEMMA ForgetTyped ==
    ASSUME TypeOK, NEW rest \in Seq(Answer),
           ForgetAll(rest) \/ RenderGrid(rest) \/ KeepThumbs(rest) \/ Forget(rest)
    PROVE  /\ answers' \in Seq(Answer) /\ thumbs' \in [Screen -> Image \cup {None}]
           /\ fetching' \in [Screen -> Nat] /\ foreign' \subseteq Screen
<1>1. CASE ForgetAll(rest)
  BY <1>1, IgnoredTyped DEF ForgetAll, TypeOK
<1>2. CASE RenderGrid(rest)
  BY <1>2 DEF RenderGrid, TypeOK
<1>3. CASE KeepThumbs(rest)
  BY <1>3 DEF KeepThumbs, TypeOK
<1>4. CASE Forget(rest) /\ op[1] \in {"apply", "restore"}
  BY <1>4 DEF Forget, TypeOK
<1>5. CASE Forget(rest) /\ op[1] \notin {"apply", "restore"}
  BY <1>1, <1>3, <1>5 DEF Forget
<1> QED BY <1>1, <1>2, <1>3, <1>4, <1>5

(* A status is asked for while somebody awaits it. *)
Awaited == loading <=> stage = "load" \/ \E w \in Watcher : watch[w] = "load"
Busy == stage = "sent" <=> op # NoOp

(* One status and one operation at a time are answered, and awaited. *)
Position == 1..Len(answers)
InOrder ==
    /\ \A i, j \in Position : answers[i].kind = answers[j].kind /\ answers[i].kind # "thumb" => i = j
    /\ \A i \in Position : /\ answers[i].kind = "status" => loading
                           /\ answers[i].kind = "op" => stage = "sent"

LEMMA StepTyped == ASSUME TypeOK, InOrder, Next PROVE TypeOK'
<1>n. \A o \in Op : o # NoOp
  BY DEF Op, NoOp
<1>1. ASSUME NEW w \in Watcher, TimerFires(w) \/ BecomeVisible(w)
      PROVE  TypeOK'
  <2>1. /\ UNCHANGED <<tablet, connected, state, thumbs, fetching, loading, stage, op, answers, history>>
        /\ hidden' \in BOOLEAN
    BY <1>1 DEF TimerFires, BecomeVisible, TypeOK
  <2>2. StartWatch(w) /\ watch[w] = "off"
    BY <1>1 DEF TimerFires, BecomeVisible
  <2>3. /\ watch' \in [Watcher -> {"off", "ping", "up", "down", "load"}] /\ timer' \in BOOLEAN
        /\ \A v \in Watcher : watch'[v] = "load" <=> watch[v] = "load"
    BY <2>1, <2>2 DEF StartWatch, TypeOK
  <2> QED BY <2>1, <2>3 DEF TypeOK, tablet, history
<1>2. ASSUME NEW w \in Watcher, Ping(w)
      PROVE  TypeOK'
  BY <1>2 DEF Ping, TypeOK, tablet, history
<1>3. ASSUME NEW w \in Watcher, PingAnswer(w)
      PROVE  TypeOK'
  <2>1. answers \in Seq(Answer)
    BY DEF TypeOK
  <2>2. /\ answers' \in Seq(Answer) /\ thumbs' \in [Screen -> Image \cup {None}]
        /\ fetching' \in [Screen -> Nat] /\ foreign' \subseteq Screen
    BY <1>3, <2>1, ForgetTyped DEF PingAnswer, ShowDisconnected
  <2>3. watch' \in [Watcher -> {"off", "ping", "up", "down", "load"}] /\ Awaited'
        /\ loading' \in BOOLEAN /\ timer' \in BOOLEAN /\ connected' \in BOOLEAN
    BY <1>3 DEF PingAnswer, ShowDisconnected, TypeOK, Awaited
  <2> QED BY <1>3, <2>2, <2>3 DEF PingAnswer, TypeOK, Awaited, tablet
<1>4. CASE StatusAnswer
  <2>1. Tail(answers) \in Seq(Answer) /\ Head(answers) \in Answer
    BY <1>4, TailTyped DEF StatusAnswer, TypeOK
  <2>2. /\ answers' \in Seq(Answer) /\ thumbs' \in [Screen -> Image \cup {None}]
        /\ fetching' \in [Screen -> Nat] /\ foreign' \subseteq Screen
    BY <1>4, <2>1, ForgetTyped DEF StatusAnswer, ShowDisconnected
  <2>3. watch' \in [Watcher -> {"off", "ping", "up", "down", "load"}] /\ Awaited' /\ Busy'
    BY <1>4 DEF StatusAnswer, TypeOK, Awaited, Busy
  <2>4. connected' \in BOOLEAN /\ state' \in [Screen -> Image \cup {None}]
    BY <1>4, <2>1, AnswerFields DEF StatusAnswer, ShowDisconnected, TypeOK
  <2> QED BY <1>4, <2>2, <2>3, <2>4 DEF StatusAnswer, TypeOK, Awaited, Busy, tablet
<1>5. CASE ThumbAnswer
  <2>1. Tail(answers) \in Seq(Answer) /\ Head(answers) \in Answer
    BY <1>5, TailTyped DEF ThumbAnswer, TypeOK
  <2>2. thumbs' \in [Screen -> Image \cup {None}]
    BY <1>5, <2>1, AnswerFields DEF ThumbAnswer, TypeOK
  <2> QED BY <1>5, <2>1, <2>2 DEF ThumbAnswer, TypeOK, tablet, history
<1>6. CASE OpAnswer
  <2>1. Tail(answers) \in Seq(Answer) /\ Head(answers) \in Answer
    BY <1>6, TailTyped DEF OpAnswer, TypeOK
  <2>2. /\ answers' \in Seq(Answer) /\ thumbs' \in [Screen -> Image \cup {None}]
        /\ fetching' \in [Screen -> Nat] /\ foreign' \subseteq Screen
    BY <1>6, <2>1, ForgetTyped DEF OpAnswer
  <2>3. stage' \in {"idle", "sent", "load"} /\ Busy' /\ op' \in Op \cup {NoOp}
        /\ loading' \in BOOLEAN /\ timer' \in BOOLEAN
    BY <1>6 DEF OpAnswer, TypeOK, Busy
  <2>4. Awaited'
    <3>1. stage = "sent"
      BY <1>6, TailTyped DEF OpAnswer, InOrder, Position, TypeOK
    <3> QED BY <1>6, <3>1 DEF OpAnswer, TypeOK, Awaited
  <2> QED BY <1>6, <2>2, <2>3, <2>4 DEF OpAnswer, TypeOK, Awaited, Busy, tablet
<1>7. CASE Click
  BY <1>7, <1>n DEF Click, TypeOK, tablet, history
<1>8. CASE Refresh
  <2>1. /\ answers' \in Seq(Answer) /\ thumbs' \in [Screen -> Image \cup {None}]
        /\ fetching' \in [Screen -> Nat] /\ foreign' \subseteq Screen
    BY <1>8, ForgetTyped DEF Refresh, TypeOK
  <2> QED BY <1>8, <2>1 DEF Refresh, TypeOK, tablet
<1>9. CASE Hide \/ Unplug
  <2>1. UNCHANGED <<image, page, answers, history>> /\ here' \in BOOLEAN /\ hidden' \in BOOLEAN
    BY <1>9 DEF Hide, Unplug, TypeOK, tablet
  <2> QED BY <2>1 DEF TypeOK, page, history
<1>10. CASE OtherWrites \/ Plug
  <2>1. PICK new \in [Screen -> Image] : image' = new /\ BehindItsBack(new)
    BY <1>10 DEF OtherWrites, Plug, TypeOK
  <2>2. unseen' \subseteq Screen /\ foreign' \subseteq Screen
    BY <2>1 DEF BehindItsBack, TypeOK
  <2>3. UNCHANGED <<hidden, page, answers>> /\ here' \in BOOLEAN
    BY <1>10 DEF OtherWrites, Plug, TypeOK
  <2> QED BY <2>1, <2>2, <2>3 DEF TypeOK, page
<1>11. CASE Status
  <2>1. answers' \in Seq(Answer)
    <3>1. PICK ok \in BOOLEAN : answers' = Append(answers, [kind |-> "status", ok |-> ok, of |-> image])
      BY <1>11 DEF Status
    <3> QED BY <3>1, AnswersMade, AppendTyped DEF TypeOK
  <2> QED BY <1>11, <2>1 DEF Status, TypeOK, tablet, page
<1>12. ASSUME NEW p \in Screen, Current(p)
       PROVE  TypeOK'
  <2>1. answers' \in Seq(Answer)
    BY <1>12, AnswersMade, AppendTyped DEF Current, TypeOK
  <2>2. fetching' \in [Screen -> Nat]
    BY <1>12 DEF Current, TypeOK
  <2> QED BY <1>12, <2>1, <2>2 DEF Current, TypeOK, tablet, history
<1>13. CASE Operation
  <2>1. PICK new \in [Screen -> Image], ok \in BOOLEAN :
             /\ image' = new /\ answers' = Append(answers, [kind |-> "op", ok |-> ok])
             /\ UNCHANGED history \/ BehindItsBack(new)
    BY <1>13 DEF Operation
  <2>2. answers' \in Seq(Answer) /\ unseen' \subseteq Screen /\ foreign' \subseteq Screen
    BY <2>1, AnswersMade, AppendTyped DEF TypeOK, BehindItsBack, history
  <2> QED BY <1>13, <2>1, <2>2 DEF Operation, TypeOK, page
<1> QED BY <1>1, <1>2, <1>3, <1>4, <1>5, <1>6, <1>7, <1>8, <1>9, <1>10, <1>11, <1>12, <1>13
        DEF Next, Server, Page, Probe

-----------------------------------------------------------------------------
(* The answers on their way.  A callback of the page takes the first one    *)
(* off (k = 1) or none, and may have a later generation ignore the rest.    *)
Shifted(k) ==
    /\ answers' \in Seq(Answer) /\ Len(answers') = Len(answers) - k
    /\ \A i \in 1..Len(answers') : Same(answers'[i], answers[i + k])

LEMMA RestShifted ==
    ASSUME TypeOK, NEW k \in {0, 1}, k = 1 => answers # <<>>,
           LET rest == IF k = 0 THEN answers ELSE Tail(answers)
           IN ForgetAll(rest) \/ RenderGrid(rest) \/ KeepThumbs(rest) \/ Forget(rest)
              \/ answers' = rest
    PROVE  Shifted(k)
<1> DEFINE left == IF k = 0 THEN answers ELSE Tail(answers)
<1>1. /\ left \in Seq(Answer) /\ Len(left) = Len(answers) - k
      /\ \A i \in 1..Len(left) : left[i] = answers[i + k]
  <2>1. CASE k = 0
    BY <2>1 DEF TypeOK
  <2>2. CASE k = 1
    BY <2>2, TailTyped DEF TypeOK
  <2> QED BY <2>1, <2>2
<1>2. answers' = left \/ answers' = Ignored(left)
  BY DEF ForgetAll, RenderGrid, KeepThumbs, Forget
<1> HIDE DEF left
<1>3. CASE answers' = left
  BY <1>1, <1>3, AnswerFields DEF Shifted, Same
<1>4. CASE answers' = Ignored(left)
  <2>1. /\ answers' \in Seq(Answer) /\ Len(answers') = Len(left)
        /\ \A i \in 1..Len(left) : Same(answers'[i], left[i])
    <3>1. /\ Ignored(left) \in Seq(Answer) /\ Len(Ignored(left)) = Len(left)
          /\ \A i \in 1..Len(left) : Same(Ignored(left)[i], left[i])
      <4>1. left \in Seq(Answer)
        BY <1>1
      <4> QED BY <4>1, IgnoredTyped
    <3> QED BY <1>4, <3>1
  <2> QED BY <1>1, <2>1 DEF Shifted
<1> QED BY <1>2, <1>3, <1>4

LEMMA OrderShifted ==
    ASSUME TypeOK, InOrder, NEW k \in {0, 1}, Shifted(k),
           \A i \in Position : i > k => /\ answers[i].kind = "status" => loading'
                                        /\ answers[i].kind = "op" => stage' = "sent"
    PROVE  InOrder'
<1>1. \A i \in 1..Len(answers') : i + k \in Position /\ i + k > k /\ answers'[i].kind = answers[i + k].kind
  BY DEF Shifted, Same, Position, TypeOK
<1>2. \A i, j \in 1..Len(answers') : i + k = j + k => i = j
  OBVIOUS
<1>3. ASSUME NEW i \in 1..Len(answers'), NEW j \in 1..Len(answers'),
             answers'[i].kind = answers'[j].kind, answers'[i].kind # "thumb"
      PROVE  i = j
  <2>1. i + k = j + k
    BY <1>1, <1>3 DEF InOrder
  <2> QED BY <1>2, <2>1
<1>4. ASSUME NEW i \in 1..Len(answers')
      PROVE  /\ answers'[i].kind = "status" => loading'
             /\ answers'[i].kind = "op" => stage' = "sent"
  <2>1. PICK j \in Position : j > k /\ answers'[i].kind = answers[j].kind
    BY <1>1
  <2>2. /\ answers[j].kind = "status" => loading'
        /\ answers[j].kind = "op" => stage' = "sent"
    BY <2>1 DEF Position
  <2> QED BY <2>1, <2>2
<1> QED BY <1>3, <1>4 DEF InOrder, Position

(* The server adds an answer at the end. *)
LEMMA OrderAppended ==
    ASSUME TypeOK, InOrder, NEW a \in Answer, answers' = Append(answers, a),
           UNCHANGED <<loading, stage>>,
           a.kind # "thumb" => ~Pending(a.kind),
           a.kind = "status" => loading, a.kind = "op" => stage = "sent"
    PROVE  InOrder'
<1>1. /\ Len(answers') = Len(answers) + 1 /\ Len(answers) \in Nat
      /\ \A i \in Position : answers'[i] = answers[i]
      /\ answers'[Len(answers) + 1] = a
  BY AppendTyped DEF TypeOK, Position
<1>2. \A i \in Position' : i \in Position \/ i = Len(answers) + 1
  BY <1>1 DEF Position
<1>3. a.kind # "thumb" => \A i \in Position : answers[i].kind # a.kind
  BY DEF Pending, Position
<1> QED BY <1>1, <1>2, <1>3 DEF InOrder

(* What the first answer is, nothing behind it is too. *)
LEMMA HeadAlone ==
    ASSUME TypeOK, InOrder, answers # <<>>
    PROVE  /\ 1 \in Position /\ Head(answers) = answers[1] /\ Head(answers) \in Answer
           /\ Head(answers).kind # "thumb" =>
                  \A i \in Position : i > 1 => answers[i].kind # Head(answers).kind
           /\ Head(answers).kind = "op" => stage = "sent"
           /\ Head(answers).kind = "status" => loading
BY TailTyped DEF TypeOK, InOrder, Position

LEMMA StepOrdered == ASSUME TypeOK, InOrder, Next PROVE InOrder'
<1>1. ASSUME UNCHANGED answers, loading => loading', stage = "sent" => stage' = "sent"
      PROVE  InOrder'
  BY <1>1 DEF InOrder, Position
<1>2. ASSUME NEW w \in Watcher, TimerFires(w) \/ BecomeVisible(w) \/ Ping(w)
      PROVE  InOrder'
  BY <1>1, <1>2 DEF TimerFires, BecomeVisible, Ping
<1>3. CASE Hide \/ Unplug \/ OtherWrites \/ Plug \/ Click
  BY <1>1, <1>3 DEF Hide, Unplug, OtherWrites, Plug, Click, page
<1>4. ASSUME NEW w \in Watcher, PingAnswer(w)
      PROVE  InOrder'
  <2>1. Shifted(0)
    BY <1>4, RestShifted DEF PingAnswer, ShowDisconnected
  <2> QED BY <1>4, <2>1, OrderShifted DEF PingAnswer, InOrder, TypeOK
<1>5. CASE StatusAnswer
  <2>1. Shifted(1) /\ answers # <<>>
    BY <1>5, RestShifted DEF StatusAnswer, ShowDisconnected
  <2> QED BY <1>5, <2>1, OrderShifted, HeadAlone DEF StatusAnswer, InOrder
<1>6. CASE ThumbAnswer
  <2>1. Shifted(1)
    BY <1>6, RestShifted DEF ThumbAnswer
  <2> QED BY <1>6, <2>1, OrderShifted DEF ThumbAnswer, InOrder
<1>7. CASE OpAnswer
  <2>1. Shifted(1) /\ answers # <<>>
    BY <1>7, RestShifted DEF OpAnswer
  <2> QED BY <1>7, <2>1, OrderShifted, HeadAlone DEF OpAnswer, InOrder
<1>8. CASE Refresh
  <2>1. Shifted(0)
    BY <1>8, RestShifted DEF Refresh
  <2> QED BY <1>8, <2>1, OrderShifted DEF Refresh, InOrder
<1>9. CASE Status
  <2>1. PICK a \in Answer : answers' = Append(answers, a) /\ a.kind = "status"
    <3>1. PICK ok \in BOOLEAN : answers' = Append(answers, [kind |-> "status", ok |-> ok, of |-> image])
      BY <1>9 DEF Status
    <3> QED BY <3>1, AnswersMade DEF TypeOK
  <2> QED BY <1>9, <2>1, OrderAppended DEF Status, page
<1>10. ASSUME NEW p \in Screen, Current(p)
       PROVE  InOrder'
  <2>1. PICK a \in Answer : answers' = Append(answers, a) /\ a.kind = "thumb"
    <3>1. PICK i \in Image \cup {None} :
               answers' = Append(answers, [kind |-> "thumb", screen |-> p, of |-> i])
      BY <1>10 DEF Current, TypeOK
    <3> QED BY <3>1, AnswersMade
  <2> QED BY <1>10, <2>1, OrderAppended DEF Current
<1>11. CASE Operation
  <2>1. PICK a \in Answer : answers' = Append(answers, a) /\ a.kind = "op"
    <3>1. PICK ok \in BOOLEAN : answers' = Append(answers, [kind |-> "op", ok |-> ok])
      BY <1>11 DEF Operation
    <3> QED BY <3>1, AnswersMade
  <2> QED BY <1>11, <2>1, OrderAppended DEF Operation, page
<1> QED BY <1>2, <1>3, <1>4, <1>5, <1>6, <1>7, <1>8, <1>9, <1>10, <1>11
        DEF Next, Server, Page, Probe

LEMMA InitTyped == Init => TypeOK /\ InOrder
<1> SUFFICES ASSUME Init PROVE TypeOK /\ InOrder
  OBVIOUS
<1>1. answers \in Seq(Answer) /\ fetching \in [Screen -> Nat]
  BY DEF Init
<1>2. watch \in [Watcher -> {"off", "ping", "up", "down", "load"}]
      /\ \A w \in Watcher : watch[w] # "load"
  BY DEF Init
<1>3. Position = {}
  BY DEF Init, Position
<1> QED BY <1>1, <1>2, <1>3 DEF Init, TypeOK, InOrder

LEMMA Ordered == Spec => [](TypeOK /\ InOrder)
<1>1. TypeOK /\ InOrder /\ [Next]_vars => (TypeOK /\ InOrder)'
  <2>1. TypeOK /\ InOrder /\ UNCHANGED vars => (TypeOK /\ InOrder)'
    BY DEF vars, tablet, page, history, bounds, TypeOK, InOrder, Position
  <2> QED BY <2>1, StepTyped, StepOrdered
<1> QED BY InitTyped, <1>1, PTL DEF Spec

(* The page of index.html: for any screens and any calls of watch() that    *)
(* overlap, a status is asked for exactly while somebody awaits it, and     *)
(* BUSY is an operation that is asked for or awaits it.                     *)
THEOREM TypeCorrect == Spec => []TypeOK
BY Ordered, PTL

-----------------------------------------------------------------------------
(* Thumbnails and tiles.  What the page shows and what is on its way to it  *)
(* is true of the tablet, but for what an operation has just made false     *)
(* whose answer is on its way behind it and makes the page forget.          *)

(* An operation that succeeded is answered, behind the first i answers. *)
Done(i) == \E j \in Position : j > i /\ answers[j].kind = "op" /\ answers[j].ok

(* The page forgets the screen when the operation has succeeded. *)
Forgets(p) == op[1] = "restoreAll" \/ (op[1] \in {"apply", "restore"} /\ op[2] = p)

(* A page that is not connected shows nothing and has nothing on its way. *)
Blank ==
    ~connected =>
        /\ \A p \in Screen : thumbs[p] = None /\ fetching[p] = 0
        /\ \A i \in Position : answers[i].kind = "thumb" => answers[i].of = None

ThumbsSound ==
    /\ \A p \in Screen \ foreign :
          thumbs[p] \in {None, image[p]} \/ (Done(0) /\ Forgets(p))
    /\ \A i \in Position : answers[i].kind = "thumb" /\ answers[i].screen \notin foreign =>
          \/ answers[i].of \in {None, image[answers[i].screen]}
          \/ Done(i) /\ Forgets(answers[i].screen)

StateSound ==
    /\ connected /\ ~loading /\ ~Done(0) => \A p \in Screen \ unseen : state[p] = image[p]
    /\ \A i \in Position : answers[i].kind = "status" /\ answers[i].ok /\ ~Done(i) =>
          \A p \in Screen \ unseen : answers[i].of[p] = image[p]

PageInv == TypeOK /\ InOrder /\ Blank /\ ThumbsSound /\ StateSound

(* What Done becomes. *)
LEMMA DoneShifted ==
    ASSUME TypeOK, NEW k \in {0, 1}, Shifted(k)
    PROVE  \A i \in Nat : Done(i)' <=> Done(i + k)
<1> SUFFICES ASSUME NEW i \in Nat PROVE Done(i)' <=> Done(i + k)
  OBVIOUS
<1>0. Len(answers) \in Nat /\ Len(answers') = Len(answers) - k /\ Len(answers') \in Nat
  BY DEF TypeOK, Shifted
<1>1. ASSUME NEW j \in 1..Len(answers'), j > i, answers'[j].kind = "op", answers'[j].ok
      PROVE  Done(i + k)
  <2>1. Same(answers'[j], answers[j + k])
    BY DEF Shifted
  <2>2. answers[j + k].kind = "op" /\ answers[j + k].ok
    BY <1>1, <2>1 DEF Same
  <2>3. j + k \in Position /\ j + k > i + k
    BY <1>0, <1>1 DEF Position
  <2> QED BY <2>2, <2>3 DEF Done
<1>2. ASSUME NEW j \in Position, j > i + k, answers[j].kind = "op", answers[j].ok
      PROVE  Done(i)'
  <2>1. j - k \in 1..Len(answers') /\ j - k > i /\ (j - k) + k = j
    BY <1>0, <1>2 DEF Position
  <2>2. Same(answers'[j - k], answers[j])
    BY <2>1 DEF Shifted
  <2>3. answers'[j - k].kind = "op" /\ answers'[j - k].ok
    BY <1>2, <2>2 DEF Same
  <2> QED BY <2>1, <2>3 DEF Done, Position
<1> QED BY <1>1, <1>2 DEF Done, Position

LEMMA DoneAppended ==
    ASSUME TypeOK, NEW a \in Answer, answers' = Append(answers, a)
    PROVE  /\ \A i \in 0..Len(answers) : Done(i)' <=> Done(i) \/ (a.kind = "op" /\ a.ok)
           /\ Position' = Position \cup {Len(answers) + 1}
           /\ \A i \in Position : answers'[i] = answers[i]
           /\ answers'[Len(answers) + 1] = a
<1>1. /\ Len(answers') = Len(answers) + 1 /\ Len(answers) \in Nat
      /\ \A i \in Position : answers'[i] = answers[i]
      /\ answers'[Len(answers) + 1] = a
  BY AppendTyped DEF TypeOK, Position
<1>2. Position' = Position \cup {Len(answers) + 1}
  BY <1>1 DEF Position
<1>3. \A i \in 0..Len(answers) : Len(answers) + 1 > i
  BY <1>1
<1> QED BY <1>1, <1>2, <1>3 DEF Done

(* With no operation answered there is none behind any answer. *)
LEMMA DoneFirst ==
    ASSUME TypeOK, NEW i \in Nat, Done(i)
    PROVE  Done(0) /\ (InOrder => stage = "sent")
BY DEF Done, Position, InOrder

(* Off the queue comes an answer other than that of the operation. *)
LEMMA DoneStays ==
    ASSUME TypeOK, answers # <<>>, ~(Head(answers).kind = "op" /\ Head(answers).ok), Done(0)
    PROVE  Done(1)
<1>1. PICK j \in Position : j > 0 /\ answers[j].kind = "op" /\ answers[j].ok
  BY DEF Done
<1>2. j # 1 /\ j \in Nat
  BY <1>1, TailTyped DEF TypeOK, Position
<1> QED BY <1>1, <1>2 DEF Done

(* Everything is forgotten: nothing is left to be wrong. *)
LEMMA AllForgotten ==
    ASSUME NEW rest \in Seq(Answer), ForgetAll(rest)
    PROVE  Blank' /\ ThumbsSound'
<1>1. /\ answers' = Ignored(rest) /\ Len(answers') = Len(rest)
      /\ \A i \in 1..Len(rest) : answers'[i].kind = "thumb" => answers'[i].of = None
  BY IgnoredTyped DEF ForgetAll, Same
<1>2. \A p \in Screen : thumbs'[p] = None /\ fetching'[p] = 0
  BY DEF ForgetAll
<1> QED BY <1>1, <1>2 DEF Blank, ThumbsSound, Position

(* The cache is left alone. *)
LEMMA ThumbsKept ==
    ASSUME PageInv, NEW k \in {0, 1}, Shifted(k), UNCHANGED <<image, thumbs, foreign>>,
           ~Done(0) \/ (op' = op /\ (Done(0) => Done(k)))
    PROVE  ThumbsSound'
<1>1. /\ TypeOK /\ ThumbsSound /\ (Done(0)' <=> Done(k))
      /\ \A i \in 1..Len(answers') : Done(i)' <=> Done(i + k)
  <2>1. TypeOK /\ ThumbsSound
    BY DEF PageInv
  <2>2. \A i \in Nat : Done(i)' <=> Done(i + k)
    BY <2>1, DoneShifted
  <2>3. 0 + k = k /\ 0 \in Nat /\ \A i \in 1..Len(answers') : i \in Nat
    OBVIOUS
  <2> QED BY <2>1, <2>2, <2>3
<1>2. ASSUME NEW p \in Screen \ foreign'
      PROVE  thumbs'[p] \in {None, image'[p]} \/ (Done(0) /\ Forgets(p))'
  BY <1>1 DEF ThumbsSound, Forgets
<1>3. ASSUME NEW i \in Position', answers'[i].kind = "thumb", answers'[i].screen \notin foreign'
      PROVE  \/ answers'[i].of \in {None, image'[answers'[i].screen]}
             \/ (Done(i) /\ Forgets(answers[i].screen))'
  <2>1. i + k \in Position /\ Same(answers'[i], answers[i + k]) /\ i + k \in Nat /\ i \in 1..Len(answers')
    BY <1>1 DEF Shifted, Position, TypeOK
  <2>2. /\ answers[i + k].kind = "thumb" /\ answers'[i].screen = answers[i + k].screen
        /\ answers'[i].of \in {answers[i + k].of, None}
    BY <1>3, <2>1 DEF Same
  <2>3. \/ answers[i + k].of \in {None, image[answers[i + k].screen]}
        \/ Done(i + k) /\ Forgets(answers[i + k].screen)
    BY <1>1, <1>3, <2>1, <2>2 DEF ThumbsSound
  <2>4. CASE answers[i + k].of \in {None, image[answers[i + k].screen]}
    BY <2>2, <2>4
  <2>5. CASE Done(i + k) /\ Forgets(answers[i + k].screen)
    <3>1. Done(0)
      BY <1>1, <2>1, <2>5, DoneFirst
    <3>2. Done(i)' /\ op' = op
      BY <1>1, <2>1, <2>5, <3>1
    <3> QED BY <2>2, <2>5, <3>2 DEF Forgets
  <2> QED BY <2>3, <2>4, <2>5
<1> QED BY <1>2, <1>3 DEF ThumbsSound

(* The state is left alone. *)
LEMMA StateKept ==
    ASSUME PageInv, NEW k \in {0, 1}, Shifted(k), UNCHANGED <<image, unseen>>,
           \/ ~connected'
           \/ loading'
           \/ connected /\ ~loading /\ state' = state /\ (Done(0) => Done(k))
    PROVE  StateSound'
<1>1. /\ TypeOK /\ StateSound /\ (Done(0)' <=> Done(k))
      /\ \A i \in 1..Len(answers') : Done(i)' <=> Done(i + k)
  <2>1. TypeOK /\ StateSound
    BY DEF PageInv
  <2>2. \A i \in Nat : Done(i)' <=> Done(i + k)
    BY <2>1, DoneShifted
  <2>3. 0 + k = k /\ 0 \in Nat /\ \A i \in 1..Len(answers') : i \in Nat
    OBVIOUS
  <2> QED BY <2>1, <2>2, <2>3
<1>2. ASSUME connected', ~loading', ~Done(0)', NEW p \in Screen \ unseen'
      PROVE  state'[p] = image'[p]
  BY <1>1, <1>2 DEF StateSound
<1>3. ASSUME NEW i \in Position', answers'[i].kind = "status", answers'[i].ok, ~Done(i)',
             NEW p \in Screen \ unseen'
      PROVE  answers'[i].of[p] = image'[p]
  <2>1. i + k \in Position /\ Same(answers'[i], answers[i + k]) /\ i \in 1..Len(answers')
    BY <1>1 DEF Shifted, Position, TypeOK
  <2>2. answers'[i] = answers[i + k] /\ ~Done(i + k)
    BY <1>1, <1>3, <2>1 DEF Same
  <2> QED BY <1>1, <1>3, <2>1, <2>2 DEF StateSound
<1> QED BY <1>2, <1>3 DEF StateSound

(* Steps that neither answer nor change the tablet. *)
LEMMA QuietSteps ==
    ASSUME PageInv,
           UNCHANGED <<image, connected, state, thumbs, fetching, answers, unseen, foreign>>,
           loading' = loading \/ loading', op' = op \/ stage = "idle"
    PROVE  (Blank /\ ThumbsSound /\ StateSound)'
<1>1. Shifted(0)
  BY RestShifted DEF PageInv
<1>2. ~Done(0) \/ op' = op
  BY DoneFirst DEF PageInv
<1>3. ThumbsSound'
  BY <1>1, <1>2, ThumbsKept
<1>4. StateSound'
  BY <1>1, StateKept DEF PageInv, StateSound, Done, Position
<1> QED BY <1>3, <1>4 DEF PageInv, Blank, Position

(* The steps of the page. *)
LEMMA PingSound ==
    ASSUME PageInv, NEW w \in Watcher, PingAnswer(w)
    PROVE  (Blank /\ ThumbsSound /\ StateSound)'
<1>1. CASE watch[w] = "up" /\ ~connected
  BY <1>1, QuietSteps DEF PingAnswer, KeepThumbs, tablet
<1>2. CASE ~(watch[w] = "up" /\ ~connected) /\ watch[w] = "down" /\ connected
  <2>1. ForgetAll(answers) /\ connected' = FALSE /\ UNCHANGED <<image, unseen>>
    BY <1>2 DEF PingAnswer, ShowDisconnected, tablet
  <2>2. answers \in Seq(Answer) /\ Shifted(0)
    BY <2>1, RestShifted DEF PageInv, TypeOK
  <2> QED BY <2>1, <2>2, AllForgotten, StateKept
<1>3. CASE ~(watch[w] = "up" /\ ~connected) /\ ~(watch[w] = "down" /\ connected)
  BY <1>3, QuietSteps DEF PingAnswer, KeepThumbs, tablet
<1> QED BY <1>1, <1>2, <1>3

LEMMA StatusSound ==
    ASSUME PageInv, StatusAnswer
    PROVE  (Blank /\ ThumbsSound /\ StateSound)'
<1>0. /\ TypeOK /\ InOrder /\ answers # <<>> /\ UNCHANGED <<image, op, unseen>>
      /\ Tail(answers) \in Seq(Answer)
  BY TailTyped DEF PageInv, TypeOK, StatusAnswer, tablet
<1>1. Shifted(1) /\ Head(answers).kind = "status" /\ Head(answers) = answers[1] /\ 1 \in Position
  BY <1>0, RestShifted, HeadAlone DEF StatusAnswer, ShowDisconnected
<1>2. Done(0) => Done(1)
  BY <1>0, <1>1, DoneStays
<1>3. CASE Head(answers).ok
  <2>1. RenderGrid(Tail(answers)) /\ connected' = TRUE /\ state' = Head(answers).of
    BY <1>3 DEF StatusAnswer
  <2>2. ThumbsSound'
    BY <1>0, <1>1, <1>2, <2>1, ThumbsKept DEF RenderGrid
  <2>3. StateSound'
    <3>1. (Done(0)' <=> Done(1)) /\ \A i \in 1..Len(answers') : Done(i)' <=> Done(i + 1)
      <4>1. \A i \in Nat : Done(i)' <=> Done(i + 1)
        BY <1>0, <1>1, DoneShifted
      <4>2. 0 + 1 = 1 /\ 0 \in Nat /\ \A i \in 1..Len(answers') : i \in Nat
        OBVIOUS
      <4> QED BY <4>1, <4>2
    <3>2. ~Done(1) => \A p \in Screen \ unseen : state'[p] = image[p]
      BY <1>1, <1>3, <2>1 DEF PageInv, StateSound
    <3>3. \A i \in Position' : answers'[i].kind # "status"
      <4>1. \A i \in Position' : /\ i + 1 \in Position /\ i + 1 > 1
                                 /\ answers'[i].kind = answers[i + 1].kind
        BY <1>0, <1>1 DEF Shifted, Same, Position, TypeOK
      <4> QED BY <1>0, <1>1, <4>1, HeadAlone
    <3> QED BY <1>0, <3>1, <3>2, <3>3 DEF StateSound
  <2>4. Blank'
    BY <2>1 DEF Blank
  <2> QED BY <2>2, <2>3, <2>4
<1>4. CASE ~Head(answers).ok
  <2>1. ForgetAll(Tail(answers)) /\ connected' = FALSE
    BY <1>4 DEF StatusAnswer, ShowDisconnected
  <2> QED BY <1>0, <1>1, <2>1, AllForgotten, StateKept
<1> QED BY <1>3, <1>4

LEMMA ThumbSound ==
    ASSUME PageInv, ThumbAnswer
    PROVE  (Blank /\ ThumbsSound /\ StateSound)'
<1> DEFINE a == Head(answers)
<1>0. /\ TypeOK /\ InOrder /\ answers # <<>> /\ a.kind = "thumb" /\ answers' = Tail(answers)
      /\ UNCHANGED <<image, op, unseen, foreign, connected, state, loading, fetching>>
  BY DEF PageInv, ThumbAnswer, tablet, history
<1>1. Shifted(1) /\ a = answers[1] /\ 1 \in Position /\ a.screen \in Screen
  BY <1>0, RestShifted, HeadAlone, AnswerFields
<1>2. (Done(0) => Done(1)) /\ (Done(1) => Done(0)) /\ (Done(0)' <=> Done(1))
  <2>1. Done(0)' <=> Done(0 + 1)
    BY <1>0, <1>1, DoneShifted
  <2>2. Done(1) => Done(0)
    BY <1>0, DoneFirst
  <2> QED BY <1>0, <2>1, <2>2, DoneStays
<1>3. StateSound'
  BY <1>0, <1>1, <1>2, StateKept DEF PageInv, StateSound
<1>4. \A p \in Screen : thumbs'[p] = IF p = a.screen /\ a.of # None THEN a.of ELSE thumbs[p]
  BY <1>0, <1>1 DEF ThumbAnswer, TypeOK
<1>5. a.screen \notin foreign => a.of \in {None, image[a.screen]} \/ (Done(1) /\ Forgets(a.screen))
  BY <1>0, <1>1 DEF PageInv, ThumbsSound
<1>6. \A p \in Screen \ foreign : thumbs'[p] \in {None, image[p]} \/ (Done(0)' /\ Forgets(p))
  BY <1>2, <1>4, <1>5 DEF PageInv, ThumbsSound
<1>7. ASSUME NEW i \in Position', answers'[i].kind = "thumb"
      PROVE  /\ i + 1 \in Position /\ answers'[i] = answers[i + 1]
             /\ Done(i)' <=> Done(i + 1)
  <2>1. i \in 1..Len(answers') /\ i \in Nat
    BY DEF Position
  <2>2. i + 1 \in Position /\ answers'[i] = answers[i + 1]
    BY <1>0, <2>1, TailTyped DEF Position, TypeOK
  <2> QED BY <1>0, <1>1, <2>1, <2>2, DoneShifted
<1>8. ThumbsSound'
  <2>1. ASSUME NEW i \in Position', answers'[i].kind = "thumb", answers'[i].screen \notin foreign'
        PROVE  \/ answers'[i].of \in {None, image'[answers'[i].screen]}
               \/ (Done(i) /\ Forgets(answers[i].screen))'
    BY <1>0, <1>7, <2>1 DEF PageInv, ThumbsSound, Forgets
  <2> QED BY <1>0, <1>6, <2>1 DEF ThumbsSound, Forgets
<1>9. Blank'
  <2>1. ~connected => a.of = None
    BY <1>0, <1>1 DEF PageInv, Blank
  <2> QED BY <1>0, <1>4, <1>7, <2>1 DEF PageInv, Blank
<1> QED BY <1>3, <1>8, <1>9

LEMMA RefreshSound ==
    ASSUME PageInv, Refresh
    PROVE  (Blank /\ ThumbsSound /\ StateSound)'
<1>1. ForgetAll(answers) /\ loading' /\ UNCHANGED <<image, unseen>> /\ answers \in Seq(Answer)
  BY DEF Refresh, PageInv, TypeOK, tablet
<1>2. Shifted(0)
  BY <1>1, RestShifted DEF PageInv
<1> QED BY <1>1, <1>2, AllForgotten, StateKept

(* The answer of the operation: the page forgets what it has changed. *)
LEMMA OpSound ==
    ASSUME PageInv, OpAnswer
    PROVE  (Blank /\ ThumbsSound /\ StateSound)'
<1> DEFINE rest == Tail(answers)
<1>0. /\ TypeOK /\ InOrder /\ answers # <<>> /\ Head(answers).kind = "op"
      /\ UNCHANGED <<image, unseen, connected, state>> /\ rest \in Seq(Answer)
  BY TailTyped DEF PageInv, TypeOK, OpAnswer, tablet
<1>1. Shifted(1) /\ \A i \in Position : i > 1 => answers[i].kind # "op"
  BY <1>0, RestShifted, HeadAlone DEF OpAnswer
<1>2. ~Done(1) /\ (Done(0) => Head(answers).ok) /\ \A i \in Position : ~Done(i)
  BY <1>0, <1>1, HeadAlone DEF Done, Position, TypeOK
<1>3. ASSUME KeepThumbs(rest), ~(Done(0) /\ \E p \in Screen : Forgets(p))
      PROVE  Blank' /\ ThumbsSound'
  <2>1. /\ \A i \in Position' : /\ i + 1 \in Position /\ answers'[i] = answers[i + 1]
                                /\ ~Done(i + 1)
        /\ UNCHANGED <<thumbs, foreign, fetching>>
    BY <1>0, <1>2, <1>3, TailTyped DEF KeepThumbs, Position, TypeOK
  <2>2. \A p \in Screen \ foreign : thumbs[p] \in {None, image[p]}
    BY <1>3 DEF PageInv, ThumbsSound
  <2>3. \A i \in Position' : answers'[i].kind = "thumb" /\ answers'[i].screen \notin foreign =>
            answers'[i].of \in {None, image[answers'[i].screen]}
    BY <2>1 DEF PageInv, ThumbsSound
  <2>4. ThumbsSound'
    BY <1>0, <2>1, <2>2, <2>3 DEF ThumbsSound
  <2>5. Blank'
    BY <1>0, <2>1 DEF PageInv, Blank
  <2> QED BY <2>4, <2>5
<1>4. CASE Head(answers).ok
  <2>1. Forget(rest) /\ loading'
    BY <1>4 DEF OpAnswer
  <2>2. StateSound'
    BY <1>0, <1>1, <2>1, StateKept
  <2>3. CASE op[1] \in {"apply", "restore"}
    <3>1. /\ thumbs' = [thumbs EXCEPT ![op[2]] = None] /\ answers' = rest
          /\ UNCHANGED <<fetching, foreign>>
      BY <2>1, <2>3 DEF Forget
    <3>2. \A i \in Position' : /\ i + 1 \in Position /\ answers'[i] = answers[i + 1]
                               /\ ~Done(i + 1)
      BY <1>0, <1>2, <3>1, TailTyped DEF Position, TypeOK
    <3>3. \A p \in Screen : thumbs'[p] = IF p = op[2] THEN None ELSE thumbs[p]
      BY <1>0, <3>1 DEF TypeOK
    <3>4. \A p \in Screen \ foreign : thumbs'[p] \in {None, image[p]}
      BY <2>3, <3>3 DEF PageInv, ThumbsSound, Forgets
    <3>5. \A i \in Position' : answers'[i].kind = "thumb" /\ answers'[i].screen \notin foreign =>
              answers'[i].of \in {None, image[answers'[i].screen]}
      BY <3>2 DEF PageInv, ThumbsSound
    <3>6. ThumbsSound'
      BY <1>0, <3>1, <3>4, <3>5 DEF ThumbsSound
    <3>7. Blank'
      BY <1>0, <3>1, <3>2, <3>3 DEF PageInv, Blank
    <3> QED BY <2>2, <3>6, <3>7
  <2>4. CASE op[1] = "restoreAll"
    BY <1>0, <2>1, <2>2, <2>4, AllForgotten DEF Forget
  <2>5. CASE op[1] \notin {"apply", "restore", "restoreAll"}
    <3>1. KeepThumbs(rest) /\ \A p \in Screen : ~Forgets(p)
      BY <2>1, <2>5 DEF Forget, Forgets
    <3> QED BY <1>3, <2>2, <3>1
  <2> QED BY <2>3, <2>4, <2>5
<1>5. CASE ~Head(answers).ok
  <2>1. KeepThumbs(rest) /\ UNCHANGED loading /\ ~Done(0)
    BY <1>2, <1>5 DEF OpAnswer
  <2>2. StateSound'
    BY <1>0, <1>1, <2>1, StateKept DEF PageInv, StateSound, TypeOK
  <2> QED BY <1>3, <2>1, <2>2
<1> QED BY <1>4, <1>5

(* The steps of the server and of others. *)

(* An answer that tells nothing of a success keeps what Done says. *)
LEMMA DoneKept ==
    ASSUME TypeOK, NEW a \in Answer, answers' = Append(answers, a), ~(a.kind = "op" /\ a.ok)
    PROVE  /\ Done(0)' <=> Done(0)
           /\ \A i \in Position : (Done(i)' <=> Done(i)) /\ answers'[i] = answers[i]
           /\ \A i \in Position' : i \in Position \/ answers'[i] = a
<1>1. Len(answers) \in Nat
  BY DEF TypeOK
<1>2. 0 \in 0..Len(answers) /\ \A i \in Position : i \in 0..Len(answers)
  BY <1>1 DEF Position
<1> QED BY <1>2, DoneAppended

(* A status read from the tablet is true of it. *)
LEMMA ReadSound ==
    ASSUME PageInv, Status
    PROVE  (Blank /\ ThumbsSound /\ StateSound)'
<1>0. TypeOK /\ UNCHANGED <<image, connected, state, thumbs, fetching, loading, op, foreign>> /\ loading
  BY DEF Status, PageInv, tablet, page
<1>1. PICK a \in Answer : /\ answers' = Append(answers, a) /\ a.kind = "status"
                          /\ a.ok => a.of = image
                          /\ unseen' = {} \/ (~a.ok /\ unseen' = unseen)
  <2>1. PICK ok \in BOOLEAN :
             /\ answers' = Append(answers, [kind |-> "status", ok |-> ok, of |-> image])
             /\ unseen' = {} \/ (~ok /\ unseen' = unseen)
    BY DEF Status
  <2> QED BY <1>0, <2>1, AnswersMade DEF TypeOK
<1>2. /\ Done(0)' <=> Done(0)
      /\ \A i \in Position : (Done(i)' <=> Done(i)) /\ answers'[i] = answers[i]
      /\ \A i \in Position' : i \in Position \/ answers'[i] = a
  BY <1>0, <1>1, DoneKept
<1>3. Blank'
  BY <1>0, <1>1, <1>2 DEF PageInv, Blank
<1>4. ThumbsSound'
  BY <1>0, <1>1, <1>2 DEF PageInv, ThumbsSound, Forgets
<1>5. \A i \in Position : answers[i].kind # "status"
  BY DEF Status, Pending, Position
<1>6. StateSound'
  BY <1>0, <1>1, <1>2, <1>5 DEF StateSound
<1> QED BY <1>3, <1>4, <1>6

(* So is a picture. *)
LEMMA PictureSound ==
    ASSUME PageInv, NEW p \in Screen, Current(p)
    PROVE  (Blank /\ ThumbsSound /\ StateSound)'
<1>0. /\ TypeOK /\ UNCHANGED <<image, connected, state, thumbs, loading, op, unseen, foreign>>
      /\ fetching[p] > 0 /\ fetching' = [fetching EXCEPT ![p] = @ - 1]
  BY DEF Current, PageInv, tablet, history
<1>1. PICK a \in Answer : /\ answers' = Append(answers, a) /\ a.kind = "thumb"
                          /\ a.screen = p /\ a.of \in {None, image[p]}
  <2>1. PICK i \in {image[p], None} :
             answers' = Append(answers, [kind |-> "thumb", screen |-> p, of |-> i])
    BY DEF Current
  <2>2. i \in Image \cup {None}
    BY <1>0, <2>1 DEF TypeOK
  <2>3. [kind |-> "thumb", screen |-> p, of |-> i] \in Answer
    BY <2>2, AnswersMade
  <2> QED BY <2>1, <2>3
<1>2. /\ Done(0)' <=> Done(0)
      /\ \A i \in Position : (Done(i)' <=> Done(i)) /\ answers'[i] = answers[i]
      /\ \A i \in Position' : i \in Position \/ answers'[i] = a
  BY <1>0, <1>1, DoneKept
<1>3. connected /\ connected'
  BY <1>0 DEF PageInv, Blank, TypeOK
<1>4. ThumbsSound'
  BY <1>0, <1>1, <1>2 DEF PageInv, ThumbsSound, Forgets
<1>5. StateSound'
  <2>1. \A i \in Position' : answers'[i].kind = "status" =>
            /\ i \in Position /\ answers'[i] = answers[i]
            /\ Done(i)' <=> Done(i)
    BY <1>1, <1>2
  <2> QED BY <1>0, <1>2, <2>1 DEF PageInv, StateSound
<1> QED BY <1>3, <1>4, <1>5 DEF Blank

(* Whatever is written behind the page's back, it counts as such. *)
LEMMA BehindSound ==
    ASSUME PageInv, NEW new \in [Screen -> Image], image' = new, BehindItsBack(new), UNCHANGED page,
           answers' = answers \/ answers' = Append(answers, [kind |-> "op", ok |-> FALSE])
    PROVE  (Blank /\ ThumbsSound /\ StateSound)'
<1>0. TypeOK /\ UNCHANGED <<connected, state, thumbs, fetching, loading, op>>
  BY DEF PageInv, page
<1>1. /\ Done(0)' <=> Done(0)
      /\ \A i \in Position : (Done(i)' <=> Done(i)) /\ answers'[i] = answers[i]
      /\ \A i \in Position' : i \in Position \/ answers'[i].kind = "op"
  <2>1. CASE answers' = answers
    BY <2>1 DEF Done, Position
  <2>2. CASE answers' = Append(answers, [kind |-> "op", ok |-> FALSE])
    <3>1. PICK a \in Answer : answers' = Append(answers, a) /\ a.kind = "op" /\ ~a.ok
      BY <2>2, AnswersMade
    <3> QED BY <1>0, <3>1, DoneKept
  <2> QED BY <2>1, <2>2
<1>2. \A p \in Screen \ unseen' : p \notin unseen /\ image'[p] = image[p]
  BY DEF BehindItsBack
<1>3. StateSound'
  BY <1>0, <1>1, <1>2 DEF PageInv, StateSound
<1>4. Blank'
  BY <1>0, <1>1 DEF PageInv, Blank
<1>5. CASE ~connected
  BY <1>0, <1>1, <1>3, <1>4, <1>5 DEF Blank, ThumbsSound
<1>6. CASE connected
  <2>1. \A p \in Screen \ foreign' : p \notin foreign /\ image'[p] = image[p]
    BY <1>6 DEF BehindItsBack
  <2>2. \A p \in Screen \ foreign' : thumbs'[p] \in {None, image'[p]} \/ (Done(0) /\ Forgets(p))'
    BY <1>0, <1>1, <2>1 DEF PageInv, ThumbsSound, Forgets
  <2>3. ASSUME NEW i \in Position', answers'[i].kind = "thumb", answers'[i].screen \notin foreign'
        PROVE  \/ answers'[i].of \in {None, image'[answers'[i].screen]}
               \/ (Done(i) /\ Forgets(answers[i].screen))'
    <3>1. i \in Position /\ answers'[i] = answers[i] /\ (Done(i)' <=> Done(i))
      BY <1>1, <2>3
    <3>2. answers[i].screen \in Screen
      BY <1>0, <2>3, <3>1, AnswerFields DEF Position, TypeOK
    <3> QED BY <1>0, <2>1, <2>3, <3>1, <3>2 DEF PageInv, ThumbsSound, Forgets
  <2>4. ThumbsSound'
    BY <2>2, <2>3 DEF ThumbsSound
  <2> QED BY <1>3, <1>4, <2>4
<1> QED BY <1>5, <1>6

(* The page's own operation writes what its success makes the page forget. *)
LEMMA OperationSound ==
    ASSUME PageInv, Operation
    PROVE  (Blank /\ ThumbsSound /\ StateSound)'
<1>0. TypeOK /\ UNCHANGED page /\ UNCHANGED <<connected, state, thumbs, fetching, loading, op>>
  BY DEF Operation, PageInv, page
<1>1. PICK new \in [Screen -> Image] :
           /\ image' = new
           /\ \/ /\ Written(new) /\ UNCHANGED history
                 /\ answers' = Append(answers, [kind |-> "op", ok |-> TRUE])
              \/ BehindItsBack(new) /\ answers' = Append(answers, [kind |-> "op", ok |-> FALSE])
  BY DEF Operation
<1>2. CASE BehindItsBack(new) /\ answers' = Append(answers, [kind |-> "op", ok |-> FALSE])
  BY <1>0, <1>1, <1>2, BehindSound
<1>3. CASE /\ Written(new) /\ UNCHANGED <<unseen, foreign>>
           /\ answers' = Append(answers, [kind |-> "op", ok |-> TRUE])
  <2>1. \A p \in Screen : image'[p] = image[p] \/ Forgets(p)
    BY <1>0, <1>1, <1>3 DEF Written, Forgets, TypeOK
  <2>2. /\ Done(0)' /\ \A i \in Position : Done(i)' /\ answers'[i] = answers[i]
        /\ \A i \in Position' : i \in Position \/ answers'[i].kind = "op"
    <3>1. PICK a \in Answer : answers' = Append(answers, a) /\ a.kind = "op" /\ a.ok
      BY <1>3, AnswersMade
    <3>2. 0 \in 0..Len(answers) /\ \A i \in Position : i \in 0..Len(answers)
      BY <1>0 DEF Position, TypeOK
    <3> QED BY <1>0, <3>1, <3>2, DoneAppended
  <2>3. \A p \in Screen \ foreign' : thumbs'[p] \in {None, image'[p]} \/ (Done(0) /\ Forgets(p))'
    BY <1>0, <1>3, <2>1, <2>2 DEF PageInv, ThumbsSound, Forgets
  <2>4. ASSUME NEW i \in Position', answers'[i].kind = "thumb", answers'[i].screen \notin foreign'
        PROVE  \/ answers'[i].of \in {None, image'[answers'[i].screen]}
               \/ (Done(i) /\ Forgets(answers[i].screen))'
    <3>1. i \in Position /\ answers'[i] = answers[i] /\ Done(i)'
      BY <2>2, <2>4
    <3>2. answers[i].screen \in Screen
      BY <1>0, <2>4, <3>1, AnswerFields DEF Position, TypeOK
    <3> QED BY <1>0, <1>3, <2>1, <2>4, <3>1, <3>2 DEF PageInv, ThumbsSound, Forgets
  <2>5. ThumbsSound'
    BY <2>3, <2>4 DEF ThumbsSound
  <2>6. StateSound'
    BY <2>2 DEF StateSound
  <2>7. Blank'
    BY <1>0, <2>2 DEF PageInv, Blank
  <2> QED BY <2>5, <2>6, <2>7
<1> QED BY <1>1, <1>2, <1>3 DEF history

LEMMA StepSound == ASSUME PageInv, Next PROVE (Blank /\ ThumbsSound /\ StateSound)'
<1>1. ASSUME NEW w \in Watcher, TimerFires(w) \/ BecomeVisible(w) \/ Ping(w)
      PROVE  (Blank /\ ThumbsSound /\ StateSound)'
  BY <1>1, QuietSteps DEF TimerFires, BecomeVisible, Ping, tablet, history
<1>2. CASE Hide \/ Unplug \/ Click
  BY <1>2, QuietSteps DEF Hide, Unplug, Click, tablet, page, history
<1>3. CASE OtherWrites \/ Plug
  <2>1. PICK new \in [Screen -> Image] : image' = new /\ BehindItsBack(new)
    BY <1>3 DEF OtherWrites, Plug, PageInv, TypeOK
  <2> QED BY <1>3, <2>1, BehindSound DEF OtherWrites, Plug
<1> QED BY <1>1, <1>2, <1>3, PingSound, StatusSound, ThumbSound, RefreshSound, OpSound,
           ReadSound, PictureSound, OperationSound DEF Next, Server, Page, Probe

LEMMA Sound == Spec => []PageInv
<1>1. Init => PageInv
  <2> SUFFICES ASSUME Init PROVE PageInv
    OBVIOUS
  <2>1. Position = {} /\ answers = <<>> /\ ~connected
    BY DEF Init, Position
  <2>2. Init => TypeOK /\ InOrder
    BY InitTyped
  <2> QED BY <2>1, <2>2 DEF Init, PageInv, Blank, ThumbsSound, StateSound
<1>2. PageInv /\ [Next]_vars => PageInv'
  <2>1. ASSUME PageInv, UNCHANGED vars PROVE PageInv'
    BY <2>1 DEF vars, tablet, page, history, bounds, PageInv, TypeOK, InOrder, Position,
                Blank, ThumbsSound, StateSound, Done, Forgets
  <2> QED BY <2>1, StepTyped, StepOrdered, StepSound DEF PageInv
<1> QED BY <1>1, <1>2, PTL DEF Spec

(* The cache of thumbnails of index.html: for any screens, overlapping      *)
(* probes, failures and swaps of the tablet, no thumbnail outlives the      *)
(* image it shows, of a screen that only this page writes.                  *)
THEOREM ThumbsAreTrue == Spec => []ThumbsTrue
<1>1. PageInv => ThumbsTrue
  BY DoneFirst DEF PageInv, ThumbsSound, ThumbsTrue
<1> QED BY <1>1, Sound, PTL

(* load() and its promise: between operations a tile says what is true of   *)
(* its screen, but for what others have written since the last status.      *)
THEOREM StateIsTrue == Spec => []StateTrue
<1>1. PageInv => StateTrue
  BY DoneFirst DEF PageInv, StateSound, StateTrue
<1> QED BY <1>1, Sound, PTL
=============================================================================
