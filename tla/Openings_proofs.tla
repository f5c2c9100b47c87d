--------------------------- MODULE Openings_proofs ---------------------------
(***************************************************************************)
(* One page for a request, nothing across Stop, and every mission's own    *)
(* tab, for any number of missions, tabs and openings.                     *)
(*                                                                         *)
(* The first needs that the companion can claim only what the queue still  *)
(* waits for in this epoch, and that it acts only on what was handed to    *)
(* it.  The last needs to know what the worker's choice of a tab is worth  *)
(* when it comes to navigate: between the two lie a claim and another      *)
(* fetch, and the page may have gone on, or been closed.                   *)
(***************************************************************************)
EXTENDS Openings, FiniteSetTheorems, SequenceTheorems, TLAPS

Task  == [product : Products, burst : BOOLEAN, epoch : Nat, stage : Stages]
Pages == Products \cup {"none", "other", "purchase"}
Going == {"claiming", "won", "go"}

TypeOK ==
  /\ stopEpoch \in Nat
  /\ task \in Seq(Task) /\ Len(task) <= MaxTasks
  /\ sweep.plan \subseteq Products
  /\ ext \in [Ids -> Worker]
  /\ choice \in [Ids -> Tabs \cup {NewTab}]
  /\ tab \in [Tabs -> Pages]

Opened(t) == t \in Tasks /\ task[t].stage = "opened"

OpensCounted == opens = [t \in Ids |-> IF Opened(t) THEN 1 ELSE 0]

\* On offer is only what the queue waits for, asked for since the last Stop.
OfferedIsAsked == \A t \in requests :
  t \in Tasks /\ task[t].stage = "asking" /\ task[t].epoch = stopEpoch

\* The worker touches a tab only for what was handed to it.
HandedOver == \A t \in Ids :
  /\ ext[t] # "idle" => t \in Tasks
  /\ ext[t] \in {"won", "go"} => task[t].stage = "handed"

RequestInv == TypeOK /\ OpensCounted /\ OfferedIsAsked /\ HandedOver

\* A tab is chosen only while the worker goes on with the opening.
ChosenWhileGoing == \A t \in Ids : choice[t] # NewTab => ext[t] \in Going

\* An opening that is no burst goes on alone.
AloneUnlessBurst == \A t \in Ids : ext[t] \in Going /\ ~task[t].burst =>
  \A u \in Ids \ {t} : ext[u] = "idle" \/ (ext[u] = "listed" /\ ~task[u].burst)

\* Two openings have chosen one tab only for the same mission.
ChosenForOne == \A t, u \in Ids :
  choice[t] # NewTab /\ choice[t] = choice[u] => task[t].product = task[u].product

\* The chosen tab shows the mission's page, or what that page went on to, or no
\* mission's page at all.
ChoiceStands == \A t \in Ids : choice[t] # NewTab =>
  \/ tab[choice[t]] \in {task[t].product, "purchase"}
  \/ (tab[choice[t]] = "other" /\ ~task[t].burst)

TabInv == ChosenWhileGoing /\ AloneUnlessBurst /\ ChosenForOne /\ ChoiceStands

OpeningsInv == RequestInv /\ TabInv

-----------------------------------------------------------------------------
(* What a step does to the openings that exist.                            *)

Same(t) ==
  /\ task'[t].product = task[t].product
  /\ task'[t].burst = task[t].burst
  /\ task'[t].epoch = task[t].epoch

Kept == \A t \in Tasks : t \in Tasks' /\ Same(t)

\* Asking appends openings and changes none.
Asked ==
  /\ task' \in Seq(Task) /\ Len(task') <= MaxTasks
  /\ Tasks \subseteq Tasks'
  /\ \A t \in Tasks : task'[t] = task[t]
  /\ \A t \in Tasks' \ Tasks : task'[t].stage = "queued"

LEMMA TasksAre ==
  ASSUME TypeOK
  PROVE  /\ Tasks = 1 .. Len(task) /\ Tasks \subseteq Ids /\ Len(task) \in Nat
         /\ \A t \in Tasks : task[t] \in Task
<1>1. task \in Seq(Task) /\ Len(task) <= MaxTasks /\ MaxTasks \in Nat
  BY OpeningsAssumption DEF TypeOK
<1>2. Len(task) \in Nat /\ DOMAIN task = 1 .. Len(task)
  BY <1>1, LenProperties
<1>3. \A t \in 1 .. Len(task) : task[t] \in Task
  BY <1>1, ElementOfSeq
<1>. QED BY <1>1, <1>2, <1>3 DEF Tasks, Ids

LEMMA FunctionIsSeq ==
  ASSUME NEW S, NEW n \in Nat, NEW f \in [1 .. n -> S]
  PROVE  f \in Seq(S)
OBVIOUS

LEMMA AskAppends ==
  ASSUME TypeOK, NEW P \in SUBSET Products, NEW burst \in BOOLEAN, Ask(P, burst)
  PROVE  Asked
<1>1. PICK s \in Orders(P \ Pending) :
        /\ Len(task) + Len(s) <= MaxTasks
        /\ task' = task \o [i \in DOMAIN s |-> NewTask(s[i], burst)]
  BY DEF Ask
<1> DEFINE Q == P \ Pending
           n == Cardinality(Q)
           more == [i \in DOMAIN s |-> NewTask(s[i], burst)]
<1>2. IsFiniteSet(Q) /\ Q \subseteq Products
  BY OpeningsAssumption, FS_Subset
<1>3. n \in Nat
  BY <1>2, FS_CardinalityType
<1>4. s \in [1 .. n -> Q]
  BY <1>1 DEF Orders, Injection
<1>5. DOMAIN s = 1 .. n /\ \A i \in 1 .. n : s[i] \in Products
  BY <1>2, <1>4
<1>6. \A i \in 1 .. n : NewTask(s[i], burst) \in Task /\ NewTask(s[i], burst).stage = "queued"
  BY <1>5 DEF NewTask, Task, Stages, TypeOK
<1>7. more \in [1 .. n -> Task] /\ \A i \in 1 .. n : more[i].stage = "queued"
  BY <1>5, <1>6
<1>8. more \in Seq(Task) /\ s \in Seq(Q)
  BY <1>3, <1>4, <1>7, FunctionIsSeq
<1>9. Len(more) = n /\ Len(s) = n
  BY <1>3, <1>5, <1>7, <1>8, LenProperties
<1>10. task \in Seq(Task) /\ Len(task) \in Nat /\ Tasks = 1 .. Len(task)
  BY TasksAre DEF TypeOK
<1> HIDE DEF more, n, Q
<1>11. task' = task \o more
  BY <1>1 DEF more
<1>12. /\ task' \in Seq(Task) /\ Len(task') = Len(task) + n
       /\ \A i \in 1 .. Len(task) + n :
            task'[i] = IF i <= Len(task) THEN task[i] ELSE more[i - Len(task)]
  BY <1>8, <1>9, <1>10, <1>11, ConcatProperties
<1>13. DOMAIN task' = 1 .. Len(task) + n
  BY <1>12, LenProperties
<1>14. \A t \in Tasks : t \in Tasks' /\ task'[t] = task[t]
  BY <1>3, <1>10, <1>12, <1>13 DEF Tasks
<1>15. ASSUME NEW t \in Tasks' \ Tasks PROVE task'[t].stage = "queued"
  <2>1. t \in 1 .. Len(task) + n /\ ~(t <= Len(task))
    BY <1>3, <1>10, <1>13 DEF Tasks
  <2>2. task'[t] = more[t - Len(task)] /\ t - Len(task) \in 1 .. n
    BY <1>3, <1>10, <1>12, <2>1
  <2>. QED BY <1>7, <2>2
<1>16. Len(task') <= MaxTasks
  BY <1>1, <1>9, <1>12
<1>. QED BY <1>12, <1>14, <1>15, <1>16 DEF Asked

LEMMA AskedKeeps ==
  ASSUME Asked
  PROVE  Kept
BY DEF Asked, Kept, Same

LEMMA MovedIsKept ==
  ASSUME TypeOK, NEW t \in Tasks, NEW stage \in Stages, task' = To(t, stage)
  PROVE  /\ task' \in Seq(Task) /\ Len(task') = Len(task) /\ Tasks' = Tasks
         /\ task'[t].stage = stage
         /\ \A u \in Tasks \ {t} : task'[u] = task[u]
         /\ Kept
<1>1. task \in Seq(Task) /\ Tasks = 1 .. Len(task) /\ task[t] \in Task
  BY TasksAre DEF TypeOK
<1> DEFINE r == [task[t] EXCEPT !.stage = stage]
<1>2. r \in Task /\ r.stage = stage /\ r.product = task[t].product
      /\ r.burst = task[t].burst /\ r.epoch = task[t].epoch
  BY <1>1 DEF Task
<1>3. task' = [task EXCEPT ![t] = r]
  BY DEF To
<1> HIDE DEF r
<1>4. t \in 1 .. Len(task)
  BY <1>1
<1>5. task' \in Seq(Task) /\ Len(task') = Len(task)
      /\ \A u \in 1 .. Len(task) : task'[u] = IF u = t THEN r ELSE task[u]
  BY <1>1, <1>2, <1>3, <1>4, ExceptSeq
<1>6. Tasks' = Tasks
  BY <1>1, <1>5, LenProperties DEF Tasks
<1>. QED BY <1>1, <1>2, <1>4, <1>5, <1>6 DEF Kept, Same
-----------------------------------------------------------------------------
(* The three things a step can be for the promise.                         *)

Settling ==
  /\ opens' = opens /\ Tasks' = Tasks
  /\ \A t \in Tasks :
       /\ task[t].stage = "dropped" => task'[t].stage = "dropped"
       /\ task[t].stage = "opened" <=> task'[t].stage = "opened"

PageOpened(t) ==
  /\ t \in Tasks /\ task[t].stage \notin {"opened", "dropped"}
  /\ Tasks' = Tasks
  /\ opens' = [opens EXCEPT ![t] = @ + 1]
  /\ task'[t].stage = "opened"
  /\ \A u \in Tasks \ {t} : task'[u] = task[u]

StepKind ==
  \/ Asked /\ opens' = opens
  \/ Settling
  \/ \E t \in Ids : PageOpened(t)

Boundary == \A t \in Tasks :
  task[t].stage \in {"queued", "asking"} /\ task[t].epoch # stopEpoch =>
    task'[t].stage \in {task[t].stage, "dropped"}

TaskTyped == task \in Seq(Task) /\ Len(task) <= MaxTasks

\* What every step does to the openings.
Orderly == TaskTyped' /\ Kept /\ StepKind /\ Boundary

LEMMA AskIsOrderly ==
  ASSUME TypeOK, NEW P \in SUBSET Products, NEW burst \in BOOLEAN,
         Ask(P, burst), opens' = opens
  PROVE  Orderly /\ Asked
<1>1. Asked
  BY AskAppends
<1>2. \A t \in Tasks : task'[t] = task[t]
  BY <1>1 DEF Asked
<1>3. TaskTyped'
  BY <1>1 DEF TaskTyped, Asked
<1>. QED BY <1>1, <1>2, <1>3, AskedKeeps DEF Orderly, StepKind, Boundary

LEMMA NothingMoved ==
  ASSUME TypeOK, UNCHANGED <<task, opens>>
  PROVE  Orderly
<1>1. Tasks' = Tasks
  BY DEF Tasks
<1>2. Kept
  BY <1>1 DEF Kept, Same
<1>. QED BY <1>1, <1>2 DEF Orderly, TaskTyped, TypeOK, StepKind, Settling, Boundary

LEMMA MoveIsOrderly ==
  ASSUME TypeOK, NEW t \in Tasks, NEW stage \in Stages, task' = To(t, stage), opens' = opens,
         task[t].stage \notin {"opened", "dropped"}, stage # "opened",
         stage = "dropped" \/ Current(t) \/ task[t].stage = "handed"
  PROVE  Orderly
<1>1. /\ task' \in Seq(Task) /\ Len(task') = Len(task) /\ Tasks' = Tasks
      /\ task'[t].stage = stage
      /\ \A u \in Tasks \ {t} : task'[u] = task[u]
      /\ Kept
  BY MovedIsKept
<1>2. Settling
  BY <1>1 DEF Settling
<1>3. Boundary
  BY <1>1 DEF Boundary, Current
<1>. QED BY <1>1, <1>2, <1>3 DEF Orderly, TaskTyped, TypeOK, StepKind

LEMMA OpenIsOrderly ==
  ASSUME TypeOK, NEW t \in Tasks, OpenPage(t),
         task[t].stage \notin {"opened", "dropped"}, Current(t) \/ task[t].stage = "handed"
  PROVE  Orderly
<1>1. task' = To(t, "opened") /\ "opened" \in Stages /\ t \in Ids
  BY TasksAre DEF OpenPage, Stages
<1>2. /\ task' \in Seq(Task) /\ Len(task') = Len(task) /\ Tasks' = Tasks
      /\ task'[t].stage = "opened"
      /\ \A u \in Tasks \ {t} : task'[u] = task[u]
      /\ Kept
  BY <1>1, MovedIsKept
<1>3. PageOpened(t)
  BY <1>2 DEF PageOpened, OpenPage
<1>4. Boundary
  BY <1>2 DEF Boundary, Current
<1>. QED BY <1>1, <1>2, <1>3, <1>4 DEF Orderly, TaskTyped, TypeOK, StepKind

LEMMA DirectIsOrderly ==
  ASSUME TypeOK, NEW t \in Tasks, OpenDirectly(t), task[t].stage \in {"queued", "asking"}
  PROVE  Orderly
<1>1. CASE Current(t)
  BY <1>1, OpenIsOrderly DEF OpenDirectly
<1>2. CASE ~Current(t)
  BY <1>2, MoveIsOrderly DEF OpenDirectly, Stages
<1>. QED BY <1>1, <1>2

\* Some openings are given up at once.
LEMMA GivenUpIsOrderly ==
  ASSUME TypeOK, NEW R, opens' = opens,
         task' = [t \in Tasks |-> IF t \in R THEN [task[t] EXCEPT !.stage = "dropped"] ELSE task[t]],
         \A t \in Tasks : t \in R => task[t].stage # "opened"
  PROVE  /\ Orderly /\ Tasks' = Tasks
         /\ \A t \in Tasks : task'[t] = IF t \in R THEN [task[t] EXCEPT !.stage = "dropped"] ELSE task[t]
<1>1. Tasks = 1 .. Len(task) /\ Len(task) \in Nat /\ \A t \in Tasks : task[t] \in Task
  BY TasksAre
<1>2. Tasks' = Tasks
  BY DEF Tasks
<1>3. \A t \in Tasks : task'[t] = IF t \in R THEN [task[t] EXCEPT !.stage = "dropped"] ELSE task[t]
  BY DEF Tasks
<1>4. \A t \in Tasks : task'[t] \in Task /\ Same(t) /\ task'[t].stage \in {task[t].stage, "dropped"}
      /\ (task[t].stage = "opened" <=> task'[t].stage = "opened")
  BY <1>1, <1>3 DEF Task, Same, Stages
<1>5. task' \in [1 .. Len(task) -> Task]
  BY <1>1, <1>3, <1>4
<1>6. task' \in Seq(Task) /\ DOMAIN task' = 1 .. Len(task)
  BY <1>1, <1>5, FunctionIsSeq
<1>7. Len(task') = Len(task)
  BY <1>1, <1>6, LenProperties
<1>8. TaskTyped'
  BY <1>6, <1>7 DEF TaskTyped, TypeOK
<1>9. Settling /\ Boundary /\ Kept
  BY <1>2, <1>4 DEF Settling, Boundary, Kept
<1>. QED BY <1>2, <1>3, <1>8, <1>9 DEF Orderly, StepKind

\* What is counted follows from the three kinds.
LEMMA KindCounts ==
  ASSUME TypeOK, OpensCounted, TaskTyped', StepKind
  PROVE  OpensCounted'
<1>1. Tasks \subseteq Ids
  BY TasksAre
<1>2. CASE Asked /\ opens' = opens
  BY <1>1, <1>2 DEF Asked, OpensCounted, Opened
<1>3. CASE Settling
  BY <1>1, <1>3 DEF Settling, OpensCounted, Opened
<1>4. ASSUME NEW t \in Ids, PageOpened(t) PROVE OpensCounted'
  <2>1. opens[t] = 0
    BY <1>4 DEF PageOpened, OpensCounted, Opened
  <2>2. opens' = [opens EXCEPT ![t] = 1]
    BY <1>4, <2>1 DEF PageOpened
  <2>3. \A u \in Ids \ {t} : Opened(u)' <=> Opened(u)
    BY <1>4 DEF PageOpened, Opened
  <2>4. Opened(t)'
    BY <1>4 DEF PageOpened, Opened
  <2>. QED BY <2>2, <2>3, <2>4 DEF OpensCounted
<1>. QED BY <1>2, <1>3, <1>4 DEF StepKind
-----------------------------------------------------------------------------
(* What every action does to the openings and to the requests on offer.    *)

RestTyped ==
  /\ stopEpoch \in Nat /\ sweep.plan \subseteq Products
  /\ ext \in [Ids -> Worker]
  /\ choice \in [Ids -> Tabs \cup {NewTab}] /\ tab \in [Tabs -> Pages]

LEMMA Together ==
  ASSUME RequestInv, Orderly, RestTyped', OfferedIsAsked', HandedOver'
  PROVE  RequestInv' /\ Orderly
<1>1. TaskTyped' /\ StepKind
  BY DEF Orderly
<1>2. OpensCounted'
  BY <1>1, KindCounts DEF RequestInv
<1>3. TypeOK'
  BY <1>1 DEF TypeOK, TaskTyped, RestTyped
<1>. QED BY <1>2, <1>3 DEF RequestInv

\* Nothing that was there changes, and no request is added.
LEMMA LeftAlone ==
  ASSUME RequestInv, Orderly, RestTyped', requests' \subseteq requests,
         requests' = {} \/ stopEpoch' = stopEpoch, UNCHANGED ext,
         \A t \in Tasks : task'[t] = task[t]
  PROVE  RequestInv' /\ Orderly
<1>1. \A t \in Tasks : t \in Tasks'
  BY DEF Orderly, Kept
<1>2. OfferedIsAsked'
  BY <1>1 DEF OfferedIsAsked, RequestInv
<1>3. \A t \in Ids : ext[t] # "idle" => t \in Tasks
  BY DEF RequestInv, HandedOver
<1>4. HandedOver'
  BY <1>1, <1>3 DEF RequestInv, HandedOver
<1>. QED BY <1>2, <1>4, Together

LEMMA OperatorOrderly ==
  ASSUME RequestInv, Operator
  PROVE  RequestInv' /\ Orderly /\ UNCHANGED chrome
<1>1. TypeOK
  BY DEF RequestInv
<1>2. ASSUME NEW resumes \in BOOLEAN, Stop(resumes) PROVE RequestInv' /\ Orderly /\ UNCHANGED chrome
  <2>1. Orderly
    BY <1>1, <1>2, NothingMoved DEF Stop
  <2>2. RestTyped'
    BY <1>1, <1>2 DEF Stop, TypeOK, RestTyped, chrome
  <2>. QED BY <1>2, <2>1, <2>2, LeftAlone DEF Stop, Withdrawn, chrome
<1>3. ASSUME NEW p \in Products, OpenProduct(p) PROVE RequestInv' /\ Orderly /\ UNCHANGED chrome
  <2>1. Orderly /\ Asked
    BY <1>1, <1>3, AskIsOrderly DEF OpenProduct
  <2>2. RestTyped'
    BY <1>1, <1>3 DEF OpenProduct, TypeOK, RestTyped, chrome
  <2>. QED BY <1>3, <2>1, <2>2, LeftAlone DEF OpenProduct, Asked, chrome
<1>4. ASSUME NEW connected \in BOOLEAN, Sweep(connected) PROVE RequestInv' /\ Orderly /\ UNCHANGED chrome
  <2>1. CASE connected
    <3>1. Orderly /\ Asked
      BY <1>1, <1>4, <2>1, AskIsOrderly DEF Sweep
    <3>2. RestTyped'
      BY <1>1, <1>4, <2>1 DEF Sweep, TypeOK, RestTyped, chrome
    <3>. QED BY <1>4, <3>1, <3>2, LeftAlone DEF Sweep, Asked, chrome
  <2>2. CASE ~connected
    <3>1. PICK b \in Products \ Pending :
            /\ Ask({b}, FALSE)
            /\ sweep' = [plan |-> Products \ {b}, boot |-> Len(task) + 1, epoch |-> stopEpoch]
      BY <1>4, <2>2 DEF Sweep
    <3>2. Orderly /\ Asked
      BY <1>1, <1>4, <3>1, AskIsOrderly DEF Sweep
    <3>3. RestTyped'
      BY <1>1, <1>4, <3>1 DEF Sweep, TypeOK, RestTyped, chrome
    <3>. QED BY <1>4, <3>2, <3>3, LeftAlone DEF Sweep, Asked, chrome
  <2>. QED BY <2>1, <2>2
<1>. QED BY <1>2, <1>3, <1>4 DEF Operator

LEMMA DesktopOrderly ==
  ASSUME RequestInv, Desktop
  PROVE  RequestInv' /\ Orderly /\ UNCHANGED chrome
<1>1. TypeOK
  BY DEF RequestInv
<1>2. ASSUME NEW p \in Products, NEW burst \in BOOLEAN, OpenReleased(p, burst)
      PROVE  RequestInv' /\ Orderly /\ UNCHANGED chrome
  <2>1. Orderly /\ Asked
    BY <1>1, <1>2, AskIsOrderly DEF OpenReleased
  <2>2. RestTyped'
    BY <1>1, <1>2 DEF OpenReleased, TypeOK, RestTyped, chrome
  <2>. QED BY <1>2, <2>1, <2>2, LeftAlone DEF OpenReleased, Asked, chrome
<1>3. ASSUME SweepConnected PROVE RequestInv' /\ Orderly /\ UNCHANGED chrome
  <2>1. Orderly /\ Asked
    BY <1>1, <1>3, AskIsOrderly DEF SweepConnected, TypeOK
  <2>2. RestTyped'
    BY <1>1, <1>3 DEF SweepConnected, TypeOK, RestTyped, chrome, NoSweep
  <2>. QED BY <1>3, <2>1, <2>2, LeftAlone DEF SweepConnected, Asked, chrome
<1>4. ASSUME SweepFails PROVE RequestInv' /\ Orderly /\ UNCHANGED chrome
  <2>1. Orderly
    BY <1>1, <1>4, NothingMoved DEF SweepFails
  <2>2. RestTyped'
    BY <1>1, <1>4 DEF SweepFails, TypeOK, RestTyped, chrome, NoSweep
  <2>. QED BY <1>4, <2>1, <2>2, LeftAlone DEF SweepFails, chrome
<1>. QED BY <1>2, <1>3, <1>4 DEF Desktop

LEMMA EnvironmentOrderly ==
  ASSUME RequestInv, Environment
  PROVE  RequestInv' /\ Orderly
<1>1. TypeOK
  BY DEF RequestInv
<1>2. CASE Tick
  <2>1. Orderly
    BY <1>1, <1>2, NothingMoved DEF Tick
  <2>2. RestTyped'
    BY <1>1, <1>2 DEF Tick, TypeOK, RestTyped, chrome
  <2>. QED BY <1>2, <2>1, <2>2, LeftAlone DEF Tick, chrome
<1>3. CASE Overload
  <2>1. Orderly
    BY <1>1, <1>3, NothingMoved DEF Overload
  <2>2. RestTyped'
    BY <1>1, <1>3 DEF Overload, TypeOK, RestTyped, chrome
  <2>. QED BY <1>3, <2>1, <2>2, LeftAlone DEF Overload, chrome
<1>4. ASSUME NEW c \in Tabs, TabMoves(c) PROVE RequestInv' /\ Orderly
  <2>1. Orderly
    BY <1>1, <1>4, NothingMoved DEF TabMoves, desktop
  <2>2. choice' \in [Ids -> Tabs \cup {NewTab}] /\ tab' \in [Tabs -> Pages]
    BY <1>1, <1>4 DEF TabMoves, TypeOK, Pages
  <2>3. RestTyped'
    BY <1>1, <1>4, <2>2 DEF TabMoves, TypeOK, RestTyped, desktop
  <2>. QED BY <1>4, <2>1, <2>3, LeftAlone DEF TabMoves, desktop
<1>5. CASE WorkerDies
  <2> DEFINE R == {t \in Tasks : ext[t] \in {"won", "go"}}
  <2>1. task' = [t \in Tasks |-> IF t \in R THEN [task[t] EXCEPT !.stage = "dropped"] ELSE task[t]]
    BY <1>5 DEF WorkerDies
  <2>2. \A t \in R : t \in Tasks /\ task[t].stage = "handed"
    BY <1>1, TasksAre DEF RequestInv, HandedOver
  <2>3. opens' = opens
    BY <1>5 DEF WorkerDies
  <2> HIDE DEF R
  <2>4. /\ Orderly /\ Tasks' = Tasks
        /\ \A t \in Tasks : task'[t] = IF t \in R THEN [task[t] EXCEPT !.stage = "dropped"] ELSE task[t]
    BY <1>1, <2>1, <2>2, <2>3, GivenUpIsOrderly
  <2>5. RestTyped'
    BY <1>1, <1>5 DEF WorkerDies, TypeOK, RestTyped, Worker
  <2>6. OfferedIsAsked'
    BY <1>5, <2>2, <2>4 DEF WorkerDies, RequestInv, OfferedIsAsked
  <2>7. HandedOver'
    BY <1>5 DEF WorkerDies, HandedOver
  <2>. QED BY <2>4, <2>5, <2>6, <2>7, Together
<1>6. CASE Crash
  <2> DEFINE R == {t \in Tasks : ~Settled(t)}
  <2>1. task' = [t \in Tasks |-> IF t \in R THEN [task[t] EXCEPT !.stage = "dropped"] ELSE task[t]]
    BY <1>6 DEF Crash
  <2>2. \A t \in Tasks : t \in R => task[t].stage \notin {"opened", "handed"}
    BY DEF Settled
  <2>3. opens' = opens
    BY <1>6 DEF Crash
  <2> HIDE DEF R
  <2>4. /\ Orderly /\ Tasks' = Tasks
        /\ \A t \in Tasks : task'[t] = IF t \in R THEN [task[t] EXCEPT !.stage = "dropped"] ELSE task[t]
    BY <1>1, <2>1, <2>2, <2>3, GivenUpIsOrderly
  <2>5. RestTyped'
    BY <1>1, <1>6 DEF Crash, TypeOK, RestTyped, chrome, NoSweep
  <2>6. OfferedIsAsked'
    BY <1>6 DEF Crash, OfferedIsAsked
  <2>7. HandedOver'
    BY <1>6, <2>2, <2>4 DEF Crash, RequestInv, HandedOver, chrome
  <2>. QED BY <2>4, <2>5, <2>6, <2>7, Together
<1>. QED BY <1>2, <1>3, <1>4, <1>5, <1>6 DEF Environment
LEMMA PollOrderly ==
  ASSUME RequestInv, Poll
  PROVE  RequestInv' /\ Orderly
<1>1. TypeOK /\ Tasks' = Tasks /\ task' = task
  BY DEF RequestInv, Poll, desktop, Tasks
<1>2. Orderly
  BY <1>1, NothingMoved DEF Poll, desktop
<1>3. RestTyped'
  BY <1>1 DEF Poll, TypeOK, RestTyped, desktop, Worker
<1>4. OfferedIsAsked'
  BY <1>1 DEF Poll, desktop, RequestInv, OfferedIsAsked
<1>5. HandedOver'
  BY <1>1 DEF Poll, RequestInv, OfferedIsAsked, HandedOver
<1>. QED BY <1>2, <1>3, <1>4, <1>5, Together

\* Only the opening a step is about changes its stage.
LEMMA OneMoves ==
  ASSUME TypeOK, NEW t \in Tasks, NEW stage \in Stages, task' = To(t, stage)
  PROVE  Tasks' = Tasks /\ task'[t].stage = stage /\ task'[t].epoch = task[t].epoch
         /\ \A u \in Tasks \ {t} : task'[u] = task[u]
BY MovedIsKept DEF Kept, Same

LEMMA DirectEffect ==
  ASSUME TypeOK, NEW t \in Tasks, OpenDirectly(t)
  PROVE  /\ Tasks' = Tasks /\ \A u \in Tasks \ {t} : task'[u] = task[u]
         /\ tab' \in [Tabs -> Pages]
<1>1. task[t].product \in Pages
  BY TasksAre DEF Task, Pages
<1>2. tab' \in [Tabs -> Pages]
  BY <1>1 DEF OpenDirectly, TypeOK
<1>. QED BY <1>2, OneMoves DEF OpenDirectly, OpenPage, Stages

LEMMA OpeningOrderly ==
  ASSUME RequestInv, NEW t \in Ids, Opening(t)
  PROVE  RequestInv' /\ Orderly
<1>1. TypeOK /\ t \in Tasks
  BY DEF RequestInv, Opening
<1>2. ASSUME Orderly, Tasks' = Tasks, \A u \in Tasks \ {t} : task'[u] = task[u],
             task[t].stage \in {"queued", "asking"}, UNCHANGED ext
      PROVE  HandedOver'
  BY <1>1, <1>2 DEF RequestInv, HandedOver
<1>3. CASE Cross(t)
  <2>1. CASE task' = To(t, "dropped") /\ UNCHANGED <<opens, requests, gap, tab>>
    <3>1. Orderly
      BY <1>1, <1>3, <2>1, MoveIsOrderly DEF Cross, Stages
    <3>2. RestTyped'
      BY <1>1, <1>3, <2>1 DEF Cross, TypeOK, RestTyped
    <3>3. Tasks' = Tasks /\ \A u \in Tasks \ {t} : task'[u] = task[u]
      BY <1>1, <2>1, OneMoves DEF Stages
    <3>4. OfferedIsAsked'
      BY <1>1, <1>3, <2>1, <3>3 DEF Cross, RequestInv, OfferedIsAsked
    <3>. QED BY <1>2, <1>3, <3>1, <3>2, <3>3, <3>4, Together DEF Cross
  <2>2. CASE task' = To(t, "asking") /\ requests' = requests \cup {t} /\ UNCHANGED <<opens, gap, tab>>
    <3>1. Orderly
      BY <1>1, <1>3, <2>2, MoveIsOrderly DEF Cross, Stages
    <3>2. RestTyped'
      BY <1>1, <1>3, <2>2 DEF Cross, TypeOK, RestTyped
    <3>3. Tasks' = Tasks /\ task'[t].stage = "asking" /\ task'[t].epoch = task[t].epoch
          /\ \A u \in Tasks \ {t} : task'[u] = task[u]
      BY <1>1, <2>2, OneMoves DEF Stages
    <3>4. OfferedIsAsked'
      BY <1>1, <1>3, <2>2, <3>3 DEF Cross, RequestInv, OfferedIsAsked, Current
    <3>. QED BY <1>2, <1>3, <3>1, <3>2, <3>3, <3>4, Together DEF Cross
  <2>3. CASE OpenDirectly(t) /\ gap' = Spacing /\ UNCHANGED requests
    <3>1. Orderly
      BY <1>1, <1>3, <2>3, DirectIsOrderly DEF Cross
    <3>2. Tasks' = Tasks /\ (\A u \in Tasks \ {t} : task'[u] = task[u]) /\ tab' \in [Tabs -> Pages]
      BY <1>1, <2>3, DirectEffect
    <3>3. RestTyped'
      BY <1>1, <1>3, <2>3, <3>2 DEF Cross, TypeOK, RestTyped
    <3>4. OfferedIsAsked'
      BY <1>1, <1>3, <2>3, <3>2 DEF Cross, RequestInv, OfferedIsAsked
    <3>. QED BY <1>2, <1>3, <3>1, <3>2, <3>3, <3>4, Together DEF Cross
  <2>. QED BY <1>3, <2>1, <2>2, <2>3 DEF Cross
<1>4. CASE Cancelled(t)
  <2>1. Orderly
    BY <1>1, <1>4, MoveIsOrderly DEF Cancelled, Stages
  <2>2. RestTyped'
    BY <1>1, <1>4 DEF Cancelled, TypeOK, RestTyped, chrome
  <2>3. Tasks' = Tasks /\ \A u \in Tasks \ {t} : task'[u] = task[u]
    BY <1>1, <1>4, OneMoves DEF Stages, Cancelled
  <2>4. OfferedIsAsked'
    BY <1>1, <1>4, <2>3 DEF Cancelled, RequestInv, OfferedIsAsked
  <2>. QED BY <1>2, <1>4, <2>1, <2>2, <2>3, <2>4, Together DEF Cancelled, chrome
<1>5. CASE NotClaimed(t)
  <2>1. Orderly
    BY <1>1, <1>5, DirectIsOrderly DEF NotClaimed
  <2>2. Tasks' = Tasks /\ (\A u \in Tasks \ {t} : task'[u] = task[u]) /\ tab' \in [Tabs -> Pages]
    BY <1>1, <1>5, DirectEffect DEF NotClaimed
  <2>3. RestTyped'
    BY <1>1, <1>5, <2>2 DEF NotClaimed, TypeOK, RestTyped
  <2>4. OfferedIsAsked'
    BY <1>1, <1>5, <2>2 DEF NotClaimed, TakenBack, RequestInv, OfferedIsAsked
  <2>. QED BY <1>2, <1>5, <2>1, <2>2, <2>3, <2>4, Together DEF NotClaimed
<1>. QED BY <1>3, <1>4, <1>5 DEF Opening

LEMMA CompanionOrderly ==
  ASSUME RequestInv, NEW t \in Ids, Companion(t)
  PROVE  RequestInv' /\ Orderly
<1>1. TypeOK /\ t \in Tasks
  BY DEF RequestInv, Companion
<1>2. CASE Choose(t)
  <2>1. Orderly /\ Tasks' = Tasks /\ task' = task
    BY <1>1, <1>2, NothingMoved DEF Choose, desktop, Tasks
  <2>2. Reusable(t) \subseteq Tabs \cup {NewTab}
    BY DEF Reusable
  <2>3. RestTyped'
    BY <1>1, <1>2, <2>2 DEF Choose, TypeOK, RestTyped, desktop, Worker
  <2>4. OfferedIsAsked'
    BY <1>2, <2>1 DEF Choose, desktop, RequestInv, OfferedIsAsked
  <2>5. HandedOver'
    BY <1>1, <1>2, <2>1 DEF Choose, RequestInv, HandedOver, TypeOK
  <2>. QED BY <2>1, <2>3, <2>4, <2>5, Together
<1>3. CASE Claim(t)
  <2>1. CASE Claimable(t)
    <3>1. task[t].stage = "asking" /\ Current(t)
      BY <2>1 DEF Claimable, RequestInv, OfferedIsAsked, Current
    <3>2. PICK stage \in {"handed", "dropped"} :
            /\ task' = To(t, stage)
            /\ ext' = [ext EXCEPT ![t] = IF stage = "handed" THEN "won" ELSE "idle"]
            /\ choice' \in {choice, [choice EXCEPT ![t] = NewTab]}
      BY <1>3, <2>1 DEF Claim, Done
    <3>3. requests' = requests \ {t} /\ UNCHANGED <<stopEpoch, sweep, tab, opens>>
      BY <1>3, <2>1 DEF Claim
    <3>4. Orderly
      BY <1>1, <3>1, <3>2, <3>3, MoveIsOrderly DEF Stages
    <3>5. Tasks' = Tasks /\ task'[t].stage = stage /\ \A u \in Tasks \ {t} : task'[u] = task[u]
      BY <1>1, <3>2, OneMoves DEF Stages
    <3>6. RestTyped'
      BY <1>1, <3>2, <3>3 DEF TypeOK, RestTyped, Worker
    <3>7. OfferedIsAsked'
      BY <3>3, <3>5 DEF RequestInv, OfferedIsAsked
    <3>8. HandedOver'
      BY <1>1, <3>2, <3>5 DEF RequestInv, HandedOver, TypeOK
    <3>. QED BY <3>4, <3>6, <3>7, <3>8, Together
  <2>2. CASE ~Claimable(t)
    <3>1. Done(t) /\ UNCHANGED <<stopEpoch, sweep, tab, opens, requests, task>> /\ Tasks' = Tasks
      BY <1>3, <2>2 DEF Claim, Tasks
    <3>2. Orderly
      BY <1>1, <3>1, NothingMoved
    <3>3. RestTyped'
      BY <1>1, <3>1 DEF Done, TypeOK, RestTyped, Worker
    <3>4. OfferedIsAsked'
      BY <3>1 DEF RequestInv, OfferedIsAsked
    <3>5. HandedOver'
      BY <1>1, <3>1 DEF Done, RequestInv, HandedOver, TypeOK
    <3>. QED BY <3>2, <3>3, <3>4, <3>5, Together
  <2>. QED BY <2>1, <2>2
<1>4. CASE Recheck(t)
  <2>1. task[t].stage = "handed" /\ UNCHANGED <<stopEpoch, requests, sweep, tab, opens>>
    BY <1>4 DEF Recheck, RequestInv, HandedOver
  <2>2. CASE Done(t) /\ task' = To(t, "dropped")
    <3>1. Orderly
      BY <1>1, <2>1, <2>2, MoveIsOrderly DEF Stages
    <3>2. Tasks' = Tasks /\ \A u \in Tasks \ {t} : task'[u] = task[u]
      BY <1>1, <2>2, OneMoves DEF Stages
    <3>3. RestTyped'
      BY <1>1, <2>1, <2>2 DEF Done, TypeOK, RestTyped, Worker
    <3>4. OfferedIsAsked'
      BY <2>1, <3>2 DEF RequestInv, OfferedIsAsked
    <3>5. HandedOver'
      BY <1>1, <2>2, <3>2 DEF Done, RequestInv, HandedOver, TypeOK
    <3>. QED BY <3>1, <3>3, <3>4, <3>5, Together
  <2>3. CASE ext' = [ext EXCEPT ![t] = "go"] /\ UNCHANGED <<task, choice>>
    <3>1. Orderly /\ Tasks' = Tasks
      BY <1>1, <2>1, <2>3, NothingMoved DEF Tasks
    <3>2. RestTyped'
      BY <1>1, <2>1, <2>3 DEF TypeOK, RestTyped, Worker
    <3>3. OfferedIsAsked'
      BY <2>1, <2>3, <3>1 DEF RequestInv, OfferedIsAsked
    <3>4. HandedOver'
      BY <1>1, <2>1, <2>3, <3>1 DEF RequestInv, HandedOver, TypeOK
    <3>. QED BY <3>1, <3>2, <3>3, <3>4, Together
  <2>. QED BY <1>4, <2>2, <2>3 DEF Recheck
<1>5. CASE Navigate(t)
  <2>1. task[t].stage = "handed" /\ OpenPage(t) /\ Done(t) /\ UNCHANGED <<stopEpoch, requests, sweep>>
    BY <1>5 DEF Navigate, RequestInv, HandedOver
  <2>2. Orderly
    BY <1>1, <2>1, OpenIsOrderly
  <2>3. Tasks' = Tasks /\ \A u \in Tasks \ {t} : task'[u] = task[u]
    BY <1>1, <2>1, OneMoves DEF Stages, OpenPage
  <2>4. PICK d \in Tabs \cup {choice[t]} : tab' = [tab EXCEPT ![d] = task[t].product]
    BY <1>5 DEF Navigate
  <2>5. task[t].product \in Pages
    BY <1>1, TasksAre DEF Task, Pages
  <2>6. tab' \in [Tabs -> Pages]
    BY <1>1, <2>4, <2>5 DEF TypeOK
  <2>7. RestTyped'
    BY <1>1, <2>1, <2>6 DEF Done, TypeOK, RestTyped, Worker
  <2>8. OfferedIsAsked'
    BY <2>1, <2>3 DEF RequestInv, OfferedIsAsked
  <2>9. HandedOver'
    BY <1>1, <2>1, <2>3 DEF Done, RequestInv, HandedOver, TypeOK
  <2>. QED BY <2>2, <2>7, <2>8, <2>9, Together
<1>. QED BY <1>2, <1>3, <1>4, <1>5 DEF Companion
-----------------------------------------------------------------------------
(* The theorems about requests and Stop.                                   *)

LEMMA InitRequests == Init => RequestInv
<1> SUFFICES ASSUME Init PROVE RequestInv
  OBVIOUS
<1>1. task = <<>> /\ Tasks = {} /\ Len(task) = 0
  BY DEF Init, Tasks
<1>2. task \in Seq(Task) /\ Len(task) <= MaxTasks
  BY <1>1, OpeningsAssumption
<1>3. tab \in [Tabs -> Pages]
  BY DEF Init, Pages
<1>4. TypeOK
  BY <1>2, <1>3 DEF Init, TypeOK, NoSweep, Worker
<1>. QED BY <1>1, <1>4 DEF Init, RequestInv, OpensCounted, Opened, OfferedIsAsked, HandedOver

LEMMA NextOrderly ==
  ASSUME RequestInv, [Next]_vars
  PROVE  RequestInv' /\ Orderly
<1>1. CASE UNCHANGED vars
  <2>1. TypeOK /\ Tasks' = Tasks
    BY <1>1 DEF vars, desktop, RequestInv, Tasks
  <2>2. Orderly
    BY <1>1, <2>1, NothingMoved DEF vars, desktop
  <2>3. RestTyped'
    BY <1>1, <2>1 DEF vars, desktop, chrome, TypeOK, RestTyped
  <2>. QED BY <1>1, <2>1, <2>2, <2>3, LeftAlone DEF vars, desktop, chrome
<1>. QED BY <1>1, OperatorOrderly, DesktopOrderly, EnvironmentOrderly, PollOrderly,
            OpeningOrderly, CompanionOrderly DEF Next

\* What the requests rest on, at all times.
THEOREM RequestsTyped == Spec => []RequestInv
<1>1. RequestInv /\ [Next]_vars => RequestInv'
  BY NextOrderly
<1>. QED BY <1>1, InitRequests, PTL DEF Spec

\* Every kind of step is a step of the promise, or leaves it alone.
LEMMA KindIsPromised ==
  ASSUME RequestInv, Orderly
  PROVE  [Promise!Next]_(Promise!promise)
<1> DEFINE gone == {t \in Tasks : task[t].stage = "dropped"}
<1>1. TypeOK /\ OpensCounted /\ Tasks \subseteq Ids
  BY TasksAre DEF RequestInv
<1>2. Tasks' \subseteq Ids
  <2>1. task' \in Seq(Task) /\ Len(task') <= MaxTasks /\ MaxTasks \in Nat
    BY OpeningsAssumption DEF Orderly, TaskTyped
  <2>. QED BY <2>1, LenProperties DEF Tasks, Ids
<1>3. CASE Asked /\ opens' = opens
  <2>1. gone' = gone
    BY <1>3 DEF Asked
  <2> DEFINE R == Tasks' \ Tasks
  <2>2. R \in SUBSET Ids /\ R \cap Tasks = {} /\ Tasks' = Tasks \cup R
    BY <1>2, <1>3 DEF Asked
  <2> HIDE DEF R
  <2>3. Promise!Accept(R)
    BY <1>3, <2>1, <2>2 DEF Promise!Accept
  <2>. QED BY <2>2, <2>3 DEF Promise!Next
<1>4. CASE Settling
  <2>1. PICK R \in SUBSET Ids : R \subseteq Tasks \ gone /\ gone' = gone \cup R
    <3>1. gone' \ gone \in SUBSET Ids /\ gone' \ gone \subseteq Tasks \ gone
          /\ gone' = gone \cup (gone' \ gone)
      BY <1>1, <1>4 DEF Settling
    <3>. QED BY <3>1
  <2>2. \A r \in R : opens[r] = 0
    BY <1>1, <1>4, <2>1 DEF Settling, OpensCounted, Opened
  <2>3. Tasks' = Tasks /\ opens' = opens
    BY <1>4 DEF Settling
  <2>4. Promise!Drop(R)
    BY <2>1, <2>2, <2>3 DEF Promise!Drop
  <2>. QED BY <2>4 DEF Promise!Next
<1>5. ASSUME NEW t \in Ids, PageOpened(t) PROVE [Promise!Next]_(Promise!promise)
  <2>1. t \in Tasks \ gone /\ opens[t] = 0
    BY <1>1, <1>5 DEF PageOpened, OpensCounted, Opened
  <2>2. opens' = [opens EXCEPT ![t] = 1]
    BY <1>5, <2>1 DEF PageOpened
  <2>3. Tasks' = Tasks /\ gone' = gone
    BY <1>5 DEF PageOpened
  <2>4. Promise!Open(t)
    BY <2>1, <2>2, <2>3 DEF Promise!Open
  <2>. QED BY <2>4 DEF Promise!Next
<1>. QED BY <1>3, <1>4, <1>5 DEF Orderly, StepKind

\* No request opens two pages, and none opens a page after it was given up, however
\* claims, fallbacks, lost answers, Stop and restarts follow one another: the
\* opening of store pages implements the promise of OpenOnce.
THEOREM RequestsOpenOnceHolds == Spec => RequestsOpenOnce
<1>1. Init => Promise!Init
  BY DEF Init, Promise!Init, Tasks
<1>2. RequestInv /\ [Next]_vars => [Promise!Next]_(Promise!promise)
  BY NextOrderly, KindIsPromised
<1>. QED BY <1>1, <1>2, RequestsTyped, PTL DEF Spec, RequestsOpenOnce, Promise!Spec

\* Stop is a hard boundary for every opening that was asked for before it.
THEOREM StopIsABoundaryHolds == Spec => StopIsABoundary
<1>1. RequestInv /\ [Next]_vars =>
        [\A t \in Tasks : task[t].stage \in {"queued", "asking"} /\ task[t].epoch # stopEpoch =>
            task'[t].stage \in {task[t].stage, "dropped"}]_vars
  BY NextOrderly DEF Orderly, Boundary
<1>. QED BY <1>1, RequestsTyped, PTL DEF Spec, StopIsABoundary
-----------------------------------------------------------------------------
(* The tabs.                                                               *)

TabsKept == \A c \in Tabs : {tab[c], tab'[c]} \subseteq Products => tab'[c] = tab[c]

LEMMA PagesDiffer ==
  ASSUME NEW p \in Products
  PROVE  p \notin {"none", "other", "purchase"}
BY OpeningsAssumption

\* Who has chosen a tab has been asked for, and its product is a mission.
LEMMA ChoosersAre ==
  ASSUME OpeningsInv, NEW t \in Ids, choice[t] # NewTab
  PROVE  t \in Tasks /\ task[t].product \in Products /\ ext[t] \in Going
         /\ choice[t] \in Tabs
<1>1. TypeOK /\ ext[t] \in Going
  BY DEF OpeningsInv, RequestInv, TabInv, ChosenWhileGoing
<1>2. t \in Tasks
  BY <1>1 DEF Going, OpeningsInv, RequestInv, HandedOver
<1>3. task[t].product \in Products
  BY <1>1, <1>2, TasksAre DEF Task
<1>. QED BY <1>1, <1>2, <1>3 DEF TypeOK

\* The worker is idle, lists, or goes on as before, with no choice that it did
\* not have; the openings and the chosen pages are as they were.
LEMMA ChoicesRemain ==
  ASSUME OpeningsInv, Kept,
         \A t \in Ids : ext'[t] = ext[t] \/ ext'[t] = "idle" \/ (ext[t] \in Going /\ ext'[t] \in Going),
         \A t \in Ids : choice'[t] # NewTab => ext'[t] \in Going /\ choice'[t] = choice[t],
         \A t \in Ids : choice'[t] # NewTab =>
           \/ tab'[choice[t]] \in {tab[choice[t]], task[t].product}
           \/ tab[choice[t]] \in Products /\ tab'[choice[t]] = "purchase"
  PROVE  TabInv'
<1>1. TypeOK /\ TabInv /\ HandedOver
  BY DEF OpeningsInv, RequestInv
<1>2. \A t \in Ids : ext[t] # "idle" => t \in Tasks
  BY <1>1 DEF HandedOver
<1>3. \A t \in Tasks : Same(t)
  BY DEF Kept
<1>4. \A t \in Ids : choice'[t] # NewTab => choice[t] # NewTab /\ t \in Tasks
  BY ChoosersAre
<1>5. ChosenWhileGoing'
  BY DEF ChosenWhileGoing
<1>6. ASSUME NEW t \in Ids, ext'[t] \in Going, ~task'[t].burst, NEW u \in Ids \ {t}
      PROVE  ext'[u] = "idle" \/ (ext'[u] = "listed" /\ ~task'[u].burst)
  <2>1. ext[t] \in Going
    BY <1>6 DEF Going
  <2>2. t \in Tasks /\ ~task[t].burst
    BY <1>2, <1>3, <1>6, <2>1 DEF Going, Same
  <2>3. ext[u] = "idle" \/ (ext[u] = "listed" /\ ~task[u].burst)
    BY <1>1, <2>1, <2>2 DEF TabInv, AloneUnlessBurst
  <2>4. ext[u] # "idle" => Same(u)
    BY <1>2, <1>3
  <2>. QED BY <2>3, <2>4 DEF Going, Same
<1>7. AloneUnlessBurst'
  BY <1>6 DEF AloneUnlessBurst
<1>8. ChosenForOne'
  BY <1>1, <1>3, <1>4 DEF TabInv, ChosenForOne, Same
<1>9. ASSUME NEW t \in Ids, choice'[t] # NewTab
      PROVE  \/ tab'[choice'[t]] \in {task'[t].product, "purchase"}
             \/ (tab'[choice'[t]] = "other" /\ ~task'[t].burst)
  <2>1. choice[t] # NewTab /\ choice'[t] = choice[t] /\ Same(t)
    BY <1>3, <1>4, <1>9
  <2>2. \/ tab[choice[t]] \in {task[t].product, "purchase"}
        \/ (tab[choice[t]] = "other" /\ ~task[t].burst)
    BY <1>1, <2>1 DEF TabInv, ChoiceStands
  <2>. QED BY <1>9, <2>1, <2>2 DEF Same
<1>10. ChoiceStands'
  BY <1>9 DEF ChoiceStands
<1>. QED BY <1>5, <1>7, <1>8, <1>10 DEF TabInv

LEMMA ChromeStill ==
  ASSUME OpeningsInv, Kept, UNCHANGED chrome
  PROVE  TabInv' /\ TabsKept
<1>1. UNCHANGED ext /\ UNCHANGED choice /\ UNCHANGED tab
  BY DEF chrome
<1>2. \A t \in Ids : choice[t] # NewTab => ext[t] \in Going
  BY ChoosersAre
<1>3. TabInv'
  BY <1>1, <1>2, ChoicesRemain
<1>. QED BY <1>1, <1>3 DEF TabsKept

\* A page in a new tab is in nobody's way.
LEMMA NewTabTaken ==
  ASSUME OpeningsInv, Kept, UNCHANGED <<ext, choice>>, NEW c \in Tabs, NEW p \in Products,
         tab[c] = "none", tab' = [tab EXCEPT ![c] = p]
  PROVE  TabInv' /\ TabsKept
<1>1. \A t \in Ids : choice[t] # NewTab => ext[t] \in Going /\ choice[t] # c
  BY ChoosersAre, PagesDiffer DEF OpeningsInv, TabInv, ChoiceStands
<1>2. tab \in [Tabs -> Pages]
  BY DEF OpeningsInv, RequestInv, TypeOK
<1>3. \A d \in Tabs \ {c} : tab'[d] = tab[d]
  BY <1>2
<1>4. \A t \in Ids : choice[t] # NewTab => tab'[choice[t]] = tab[choice[t]]
  BY <1>1, <1>3, ChoosersAre
<1>5. TabInv'
  BY <1>1, <1>4, ChoicesRemain
<1>. QED BY <1>3, <1>5, PagesDiffer DEF TabsKept

LEMMA DirectTabs ==
  ASSUME OpeningsInv, Kept, UNCHANGED <<ext, choice>>, NEW t \in Tasks,
         OpenDirectly(t) \/ UNCHANGED tab
  PROVE  TabInv' /\ TabsKept
<1>1. task[t].product \in Products
  BY TasksAre DEF OpeningsInv, RequestInv, Task
<1>2. CASE UNCHANGED tab
  BY <1>2, ChromeStill DEF chrome
<1>3. CASE OpenDirectly(t) /\ Current(t)
  <2>1. PICK c \in Tabs : tab[c] = "none" /\ tab' = [tab EXCEPT ![c] = task[t].product]
    BY <1>3 DEF OpenDirectly
  <2>. QED BY <1>1, <2>1, NewTabTaken
<1>4. CASE OpenDirectly(t) /\ ~Current(t)
  <2>1. UNCHANGED tab
    BY <1>4 DEF OpenDirectly
  <2>. QED BY <1>2, <2>1
<1>. QED BY <1>2, <1>3, <1>4

LEMMA OpeningTabs ==
  ASSUME OpeningsInv, NEW t \in Ids, Opening(t)
  PROVE  TabInv' /\ TabsKept
<1>1. t \in Tasks
  BY DEF Opening
<1>2. Kept
  BY OpeningOrderly DEF OpeningsInv, Orderly
<1>3. UNCHANGED <<ext, choice>> /\ (OpenDirectly(t) \/ UNCHANGED tab)
  BY DEF Opening, Cross, Cancelled, NotClaimed, chrome
<1>. QED BY <1>1, <1>2, <1>3, DirectTabs

\* An opening's work ends without a page.
LEMMA DoneTabs ==
  ASSUME OpeningsInv, Kept, NEW t \in Ids, Done(t), UNCHANGED tab
  PROVE  TabInv' /\ TabsKept
<1>1. TypeOK
  BY DEF OpeningsInv, RequestInv
<1>2. \A u \in Ids : ext'[u] = (IF u = t THEN "idle" ELSE ext[u])
                     /\ choice'[u] = (IF u = t THEN NewTab ELSE choice[u])
  BY <1>1 DEF Done, TypeOK
<1>3. \A u \in Ids : choice[u] # NewTab => ext[u] \in Going
  BY ChoosersAre
<1>4. TabInv'
  BY <1>2, <1>3, ChoicesRemain
<1>. QED BY <1>4 DEF TabsKept

\* An opening goes on with the tab it has.
LEMMA AdvanceTabs ==
  ASSUME OpeningsInv, Kept, NEW t \in Ids, ext[t] \in Going, NEW step \in Going,
         ext' = [ext EXCEPT ![t] = step], UNCHANGED <<choice, tab>>
  PROVE  TabInv' /\ TabsKept
<1>1. ext \in [Ids -> Worker]
  BY DEF OpeningsInv, RequestInv, TypeOK
<1>2. \A u \in Ids : ext'[u] = IF u = t THEN step ELSE ext[u]
  BY <1>1
<1>3. \A u \in Ids : choice[u] # NewTab => ext[u] \in Going
  BY ChoosersAre
<1>4. TabInv'
  BY <1>2, <1>3, ChoicesRemain
<1>. QED BY <1>4 DEF TabsKept
\* The chosen tab is the mission's own, or one that no other opening can have.
LEMMA ChooseTabs ==
  ASSUME OpeningsInv, NEW t \in Ids, Choose(t)
  PROVE  TabInv' /\ TabsKept
<1>1. TypeOK /\ TabInv /\ HandedOver /\ task' = task /\ tab' = tab
  BY DEF OpeningsInv, RequestInv, Choose, desktop
<1>2. PICK c \in Reusable(t) : choice' = [choice EXCEPT ![t] = c]
  BY DEF Choose
<1>3. \A u \in Ids : ext'[u] = (IF u = t THEN "claiming" ELSE ext[u])
                     /\ choice'[u] = (IF u = t THEN c ELSE choice[u])
  BY <1>1, <1>2 DEF Choose, TypeOK
<1>4. ext[t] = "listed" /\ t \in Tasks
  BY <1>1 DEF Choose, HandedOver
<1>5. task[t].product \in Products
  BY <1>1, <1>4, TasksAre DEF Task
<1>6. \/ c = NewTab
      \/ tab[c] = task[t].product
      \/ (tab[c] = "other" /\ ~task[t].burst)
  BY <1>2 DEF Reusable
<1>7. \A u \in Ids : choice[u] # NewTab => ext[u] \in Going /\ task[u].product \in Products
  BY ChoosersAre
\* A burst goes on beside others only when none of those is alone.
<1>8. ASSUME NEW u \in Ids \ {t}, ext[u] \in Going
      PROVE  task[t].burst /\ task[u].burst
  <2>1. task[t].burst
    BY <1>8 DEF Choose, NextUp, Going
  <2>2. task[u].burst
    BY <1>1, <1>4, <1>8, <2>1 DEF TabInv, AloneUnlessBurst
  <2>. QED BY <2>1, <2>2
<1>9. ChosenWhileGoing'
  BY <1>3, <1>7 DEF ChosenWhileGoing, Going
<1>10. ASSUME NEW u \in Ids, ext'[u] \in Going, ~task[u].burst, NEW v \in Ids \ {u}
       PROVE  ext'[v] = "idle" \/ (ext'[v] = "listed" /\ ~task[v].burst)
  <2>1. CASE u = t
    <3>1. ext'[v] = ext[v]
      BY <1>3, <2>1
    <3>2. ext[v] # "idle" => ~task[v].burst /\ ext[v] = "listed"
      BY <1>10, <2>1 DEF Choose, NextUp
    <3>. QED BY <3>1, <3>2
  <2>2. CASE u # t
    <3>1. ext[u] \in Going
      BY <1>3, <1>10, <2>2
    <3>. QED BY <1>8, <1>10, <2>2, <3>1
  <2>. QED BY <2>1, <2>2
<1>11. AloneUnlessBurst'
  BY <1>1, <1>10 DEF AloneUnlessBurst
<1>12. ASSUME NEW u \in Ids \ {t}, choice[u] # NewTab, choice[u] = c
       PROVE  task[u].product = task[t].product
  <2>1. tab[c] \in {task[u].product, "purchase"} \/ (tab[c] = "other" /\ ~task[u].burst)
    BY <1>1, <1>12 DEF TabInv, ChoiceStands
  <2>2. task[t].burst /\ task[u].burst
    BY <1>7, <1>8, <1>12
  <2>3. tab[c] = task[t].product
    BY <1>6, <1>12, <2>2
  <2>. QED BY <1>5, <2>1, <2>2, <2>3, PagesDiffer
<1>13. ASSUME NEW u \in Ids, NEW v \in Ids, choice'[u] # NewTab, choice'[u] = choice'[v]
       PROVE  task[u].product = task[v].product
  <2>1. CASE u = t /\ v # t
    BY <1>3, <1>12, <1>13, <2>1
  <2>2. CASE u # t /\ v = t
    BY <1>3, <1>12, <1>13, <2>2
  <2>3. CASE u # t /\ v # t
    BY <1>1, <1>3, <1>13, <2>3 DEF TabInv, ChosenForOne
  <2>. QED BY <2>1, <2>2, <2>3
<1>14. ChosenForOne'
  BY <1>1, <1>13 DEF ChosenForOne
<1>15. ChoiceStands'
  BY <1>1, <1>3, <1>6 DEF TabInv, ChoiceStands
<1>. QED BY <1>1, <1>9, <1>11, <1>14, <1>15 DEF TabInv, TabsKept

\* What was chosen is still nobody else's when the worker navigates.
LEMMA NavigateTabs ==
  ASSUME OpeningsInv, Kept, NEW t \in Tasks, t \in Ids, Navigate(t)
  PROVE  TabInv' /\ TabsKept
<1>1. TypeOK /\ TabInv
  BY DEF OpeningsInv, RequestInv
<1>2. \A u \in Ids : ext'[u] = (IF u = t THEN "idle" ELSE ext[u])
                     /\ choice'[u] = (IF u = t THEN NewTab ELSE choice[u])
  BY <1>1 DEF Navigate, Done, TypeOK
<1>3. ext[t] \in Going /\ task[t].product \in Products
  BY <1>1, TasksAre DEF Navigate, Going, Task
<1>4. \A u \in Ids : choice[u] # NewTab =>
        ext[u] \in Going /\ choice[u] \in Tabs /\ task[u].product \in Products
  BY ChoosersAre
<1>5. PICK d \in IF choice[t] # NewTab THEN {choice[t]} ELSE {n \in Tabs : tab[n] = "none"} :
        tab' = [tab EXCEPT ![d] = task[t].product]
  BY DEF Navigate
<1>6. d \in Tabs
  BY <1>4, <1>5
<1>7. \A c \in Tabs : tab'[c] = IF c = d THEN task[t].product ELSE tab[c]
  BY <1>1, <1>5, <1>6 DEF TypeOK
<1>8. tab[d] \in {"none", "other", "purchase", task[t].product}
  BY <1>1, <1>5 DEF TabInv, ChoiceStands
<1>9. TabsKept
  BY <1>3, <1>7, <1>8, PagesDiffer DEF TabsKept
<1>10. ASSUME NEW u \in Ids \ {t}, choice[u] # NewTab, choice[u] = d
       PROVE  task[u].product = task[t].product
  <2>1. CASE choice[t] = d /\ choice[t] # NewTab
    BY <1>1, <1>10, <2>1 DEF TabInv, ChosenForOne
  <2>2. CASE tab[d] = "none"
    BY <1>1, <1>4, <1>10, <2>2, PagesDiffer DEF TabInv, ChoiceStands
  <2>. QED BY <1>5, <2>1, <2>2
<1>11. \A u \in Ids : choice'[u] # NewTab => tab'[choice[u]] \in {tab[choice[u]], task[u].product}
  BY <1>2, <1>4, <1>7, <1>10
<1>12. TabInv'
  BY <1>2, <1>4, <1>11, ChoicesRemain
<1>. QED BY <1>9, <1>12

LEMMA CompanionTabs ==
  ASSUME OpeningsInv, NEW t \in Ids, Companion(t)
  PROVE  TabInv' /\ TabsKept
<1>1. Kept /\ t \in Tasks
  BY CompanionOrderly DEF OpeningsInv, Orderly, Companion
<1>2. CASE Choose(t)
  BY <1>2, ChooseTabs
<1>3. CASE Claim(t)
  <2>1. tab' = tab /\ ext[t] \in Going /\ "won" \in Going
    BY <1>3 DEF Claim, Going
  <2>2. Done(t) \/ (ext' = [ext EXCEPT ![t] = "won"] /\ UNCHANGED choice)
    BY <1>3 DEF Claim
  <2>. QED BY <1>1, <2>1, <2>2, DoneTabs, AdvanceTabs
<1>4. CASE Recheck(t)
  <2>1. tab' = tab /\ ext[t] \in Going /\ "go" \in Going
    BY <1>4 DEF Recheck, Going
  <2>2. Done(t) \/ (ext' = [ext EXCEPT ![t] = "go"] /\ UNCHANGED choice)
    BY <1>4 DEF Recheck
  <2>. QED BY <1>1, <2>1, <2>2, DoneTabs, AdvanceTabs
<1>5. CASE Navigate(t)
  BY <1>1, <1>5, NavigateTabs
<1>. QED BY <1>2, <1>3, <1>4, <1>5 DEF Companion

LEMMA PollTabs ==
  ASSUME OpeningsInv, Poll
  PROVE  TabInv' /\ TabsKept
<1>1. \A t \in Ids : choice[t] = NewTab
  BY ChoosersAre DEF Poll, Going
<1>2. \A t \in Ids : ext'[t] \in {"listed", "idle"} /\ choice'[t] = NewTab
  BY <1>1 DEF Poll
<1>3. TabInv'
  BY <1>2 DEF TabInv, ChosenWhileGoing, AloneUnlessBurst, ChosenForOne, ChoiceStands, Going
<1>. QED BY <1>3 DEF TabsKept, Poll

LEMMA EnvironmentTabs ==
  ASSUME OpeningsInv, Environment
  PROVE  TabInv' /\ TabsKept
<1>1. Kept
  BY EnvironmentOrderly DEF OpeningsInv, Orderly
<1>2. CASE Tick \/ Overload \/ Crash
  BY <1>1, <1>2, ChromeStill DEF Tick, Overload, Crash, chrome
<1>3. CASE WorkerDies
  <2>1. \A t \in Ids : ext'[t] = "idle" /\ choice'[t] = NewTab
    BY <1>3 DEF WorkerDies
  <2>2. TabInv'
    BY <2>1 DEF TabInv, ChosenWhileGoing, AloneUnlessBurst, ChosenForOne, ChoiceStands, Going
  <2>. QED BY <1>3, <2>2 DEF TabsKept, WorkerDies
<1>4. ASSUME NEW c \in Tabs, TabMoves(c) PROVE TabInv' /\ TabsKept
  <2>1. tab \in [Tabs -> Pages]
    BY DEF OpeningsInv, RequestInv, TypeOK
  <2>2. \A d \in Tabs : tab'[d] =
          IF d # c THEN tab[d] ELSE IF tab[c] = "purchase" THEN "none" ELSE "purchase"
    BY <1>4, <2>1 DEF TabMoves
  <2>3. \A t \in Ids : choice'[t] = IF choice[t] = c /\ tab[c] = "purchase" THEN NewTab ELSE choice[t]
    BY <1>4 DEF TabMoves
  <2>4. ext' = ext /\ tab[c] \in Products \cup {"purchase"}
    BY <1>4 DEF TabMoves
  <2>5. \A t \in Ids : choice[t] # NewTab => ext[t] \in Going /\ choice[t] \in Tabs
    BY ChoosersAre
  <2>6. TabInv'
    BY <1>1, <2>2, <2>3, <2>4, <2>5, ChoicesRemain
  <2>7. TabsKept
    BY <2>2, PagesDiffer DEF TabsKept
  <2>. QED BY <2>6, <2>7
<1>. QED BY <1>2, <1>3, <1>4 DEF Environment

LEMMA InitTabs ==
  ASSUME Init
  PROVE  TabInv
BY DEF Init, TabInv, ChosenWhileGoing, AloneUnlessBurst, ChosenForOne, ChoiceStands, Going

LEMMA NextTabs ==
  ASSUME OpeningsInv, [Next]_vars
  PROVE  OpeningsInv' /\ TabsKept
<1>1. RequestInv' /\ Kept
  BY NextOrderly DEF OpeningsInv, Orderly
<1>2. CASE UNCHANGED vars
  BY <1>1, <1>2, ChromeStill DEF vars, OpeningsInv
<1>3. CASE Operator \/ Desktop
  BY <1>1, <1>3, OperatorOrderly, DesktopOrderly, ChromeStill DEF OpeningsInv
<1>. QED BY <1>1, <1>2, <1>3, EnvironmentTabs, PollTabs, OpeningTabs, CompanionTabs
         DEF Next, OpeningsInv

\* The worker never shows one mission's page in the tab that shows another's: what
\* it chose is worth that much for as long as claim and fetch take.
THEOREM MissionTabsKeptHolds == Spec => MissionTabsKept
<1>1. Init => OpeningsInv
  BY InitRequests, InitTabs DEF OpeningsInv
<1>2. OpeningsInv /\ [Next]_vars => OpeningsInv'
  BY NextTabs
<1>3. OpeningsInv /\ [Next]_vars =>
        [\A c \in Tabs : {tab[c], tab'[c]} \subseteq Products => tab'[c] = tab[c]]_vars
  BY NextTabs DEF TabsKept
<1>. QED BY <1>1, <1>2, <1>3, PTL DEF Spec, MissionTabsKept
=====
