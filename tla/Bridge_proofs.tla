----------------------------- MODULE Bridge_proofs -----------------------------
(***************************************************************************)
(* The Discord poll, the scan of followed products and the ledgers of a    *)
(* store: what an answer that comes late, a crash between two writes,      *)
(* another click, or a restart does not change.                            *)
(***************************************************************************)
EXTENDS Discord, Scan, Budgets, FiniteSetTheorems, SequenceTheorems,
        WellFoundedInduction, TLAPS

-----------------------------------------------------------------------------
(* Discord.  An answer is used only while its poll's epoch is the current  *)
(* one, and in that epoch the channel is left at most once and never       *)
(* chosen again: the cursor a wanted poll was sent with is still the       *)
(* channel's cursor.                                                       *)

News    == [channel : Channels, id : Nat]
Runtime == [channel : Channels, cursor : Nat, baselined : BOOLEAN]
Memory  == [token : Nat, enabled : BOOLEAN, channel : Channels, paused : BOOLEAN,
            ready : BOOLEAN, runtime : Runtime, signals : SUBSET News]
Request == [epoch : Nat, channel : Channels, token : Nat]
Setup   == [phase : {"setup"}, epoch : Nat, token : Nat, channel : Channels]
Fetch   == [phase : {"fetch"}, epoch : Nat, token : Nat, channel : Channels,
            cursor : Nat, sent : Nat]

DiscordTyped ==
  /\ live \in Memory /\ disk \in Memory
  /\ posted \in [Channels -> Nat] /\ before \in [Channels -> Nat] /\ behind \in [Channels -> Nat]
  /\ epoch \in Nat /\ acted \in [Messages -> Nat]
  /\ connect \subseteq Request
  /\ poll \in {NoPoll} \cup Setup \cup Fetch

\* Every write of the memory is a write of the files, but for what a poll learns.
FilesAgree ==
  /\ disk.token = live.token /\ disk.enabled = live.enabled /\ disk.paused = live.paused
  /\ disk.channel = live.channel /\ disk.runtime = live.runtime /\ disk.signals = live.signals
  /\ live.runtime.channel = live.channel

\* Each epoch has at most one request, with the token pasted then or held since.
OneRequest ==
  /\ \A r \in connect : r.epoch <= epoch
  /\ \A r, s \in connect : r.epoch = s.epoch => r = s
  /\ \A r \in connect : Current(r) => r.token \in {live.token, epoch}

\* The channel of a poll, once left in its epoch, is not chosen again.
NoWayBack ==
  poll # NoPoll =>
    /\ poll.epoch <= epoch
    /\ poll.epoch = epoch /\ poll.channel # live.channel => \A r \in connect : ~Current(r)

\* What the poll on its way knows of the channel is still so.
CursorHeld ==
  poll \in Fetch /\ poll.epoch = epoch /\ poll.channel = live.channel =>
    /\ poll.cursor = live.runtime.cursor
    /\ before[poll.channel] <= poll.sent

\* A channel whose history was read has its cursor behind nothing of it.
HistoryRead ==
  /\ \A c \in Channels : before[c] <= posted[c]
  /\ ~Historical => before[live.channel] <= live.runtime.cursor

ActedIsRecorded == \A m \in Messages : acted[m] # 0 => m \in live.signals \cup forgotten

DiscordInv ==
  /\ DiscordTyped /\ FilesAgree /\ OneRequest /\ NoWayBack /\ CursorHeld
  /\ HistoryRead /\ ActedIsRecorded /\ NothingSkipped

-----------------------------------------------------------------------------
(* The scan.  Only the items of the scan under way are staged, on disk as  *)
(* in memory, and what a page was told is stored stays staged while its    *)
(* scan is under way.                                                      *)

Item   == [product : Followed, scan : Nat]
Phases == {"idle", "looking", "begin", "inventory", "next", "read", "skip", "failing"}
States == {"none", "waiting", "scanning", "complete", "cancelled", "error"}
Import == [scan : Nat, state : States, expired : BOOLEAN, items : SUBSET Item,
           staging : SUBSET Item, since : Nat, mark : Nat]
Page   == [phase : Phases, scan : Nat, todo : SUBSET Followed, at : SUBSET Followed,
           held : SUBSET Followed]

ProductsOf(items) == {i.product : i \in items}

ScanTyped ==
  /\ import \in Import /\ file \in Import
  /\ run \in [Runs -> Page]

\* The file lags behind in the products staged and in the counters at most.
FileLags ==
  /\ file.scan = import.scan /\ file.state = import.state
  /\ file.expired = import.expired /\ file.items = import.items

StagedForThis ==
  /\ \A i \in import.staging : i.scan = import.scan
  /\ \A i \in file.staging : i.scan = import.scan

HeldIsStaged ==
  \A r \in Runs :
    /\ run[r].scan <= import.scan
    /\ Active(import) /\ run[r].scan = import.scan => run[r].held \subseteq ProductsOf(import.staging)

ScanInv == ScanTyped /\ FileLags /\ StagedForThis /\ HeldIsStaged

-----------------------------------------------------------------------------
(* Discord, step by step.                                                  *)

LEMMA PollIs ==
  ASSUME poll \in {NoPoll} \cup Setup \cup Fetch
  PROVE  /\ poll.phase = "fetch" => poll \in Fetch
         /\ poll.phase = "setup" => poll \in Setup
         /\ NoPoll \notin Setup /\ NoPoll \notin Fetch
         /\ Setup \cap Fetch = {}
BY DEF NoPoll, Setup, Fetch

LEMMA EmptyIs ==
  ASSUME NEW c \in Channels
  PROVE  /\ emptyDiscordRuntime(c) \in Runtime /\ emptyDiscordRuntime(c).channel = c
         /\ emptyDiscordRuntime(c).cursor = 0 /\ emptyDiscordRuntime(c).baselined = FALSE
BY DEF emptyDiscordRuntime, Runtime

LEMMA DiscordStarts == ASSUME DiscordInit PROVE DiscordInv
<1>1. PICK c \in Channels :
        /\ live = [token |-> 0, enabled |-> FALSE, channel |-> c, paused |-> TRUE,
                   ready |-> FALSE, runtime |-> emptyDiscordRuntime(c), signals |-> {}]
        /\ disk = live
  BY DiscordAssumption DEF DiscordInit
<1>2. live \in Memory /\ live.runtime.channel = live.channel /\ live.runtime.cursor = 0
      /\ live.runtime.baselined = FALSE
  BY <1>1, EmptyIs DEF Memory
<1>3. /\ posted = [d \in Channels |-> 0] /\ epoch = 0 /\ poll = NoPoll /\ connect = {}
      /\ acted = [m \in Messages |-> 0] /\ before = [d \in Channels |-> 0]
      /\ behind = [d \in Channels |-> 0]
  BY DEF DiscordInit
<1>4. DiscordTyped
  BY <1>1, <1>2, <1>3 DEF DiscordTyped
<1>5. live.channel \in Channels /\ before[live.channel] = 0 /\ behind[live.channel] = 0
  BY <1>2, <1>3 DEF Memory
<1>6. FilesAgree /\ OneRequest /\ NoWayBack /\ ActedIsRecorded
  BY <1>1, <1>2, <1>3 DEF FilesAgree, OneRequest, NoWayBack, ActedIsRecorded
<1>7. CursorHeld
  BY <1>3, PollIs DEF CursorHeld
<1>8. HistoryRead /\ NothingSkipped
  BY <1>2, <1>3, <1>5 DEF HistoryRead, NothingSkipped, Historical
<1> QED BY <1>4, <1>6, <1>7, <1>8 DEF DiscordInv

\* The memory as a step finds it.
LEMMA MemoryIs ==
  ASSUME DiscordInv
  PROVE  /\ live \in Memory /\ disk \in Memory /\ live.channel \in Channels
         /\ live.runtime \in Runtime /\ live.runtime.cursor \in Nat
         /\ live.runtime.channel = live.channel /\ live.token \in Nat /\ epoch \in Nat
         /\ before[live.channel] \in Nat /\ behind[live.channel] \in Nat
BY DEF DiscordInv, DiscordTyped, FilesAgree, Memory, Runtime

-----------------------------------------------------------------------------
(* Crashes.                                                                *)

LEMMA RestartedIs ==
  ASSUME NEW d \in Memory
  PROVE  /\ Restarted(d) \in Memory
         /\ Restarted(d).token = d.token /\ Restarted(d).enabled = d.enabled
         /\ Restarted(d).channel = d.channel /\ Restarted(d).signals = d.signals
         /\ d.runtime.channel = d.channel => Restarted(d).runtime = d.runtime
         /\ d.runtime.channel # d.channel => Restarted(d).runtime = emptyDiscordRuntime(d.channel)
<1>1. d.channel \in Channels /\ d.runtime \in Runtime
  BY DEF Memory
<1> PICK e \in Runtime : e = emptyDiscordRuntime(d.channel)
  BY <1>1, EmptyIs
<1>2. Restarted(d) = [d EXCEPT !.paused = TRUE, !.ready = FALSE,
                               !.runtime = IF d.runtime.channel = d.channel THEN d.runtime ELSE e]
  BY DEF Restarted
<1> QED BY <1>1, <1>2 DEF Memory

\* Whatever the files held, a restart loads a runtime state of the configured channel
\* or none, and what is recorded stays.
LEMMA DiesKeeps ==
  ASSUME DiscordInv, NEW d \in Memory, Dies(d), UNCHANGED <<posted, epoch, behind, forgotten>>,
         live.signals \subseteq d.signals,
         d.runtime.channel = d.channel =>
           d.channel = live.channel /\ d.runtime = live.runtime
           /\ before'[live.channel] = before[live.channel],
         before' \in [Channels -> Nat], \A c \in Channels : before'[c] <= posted[c],
         acted' \in [Messages -> Nat], \A m \in Messages : acted'[m] # 0 => m \in d.signals \cup forgotten
  PROVE  DiscordInv'
<1>1. poll' = NoPoll /\ connect' = {} /\ live' = disk' /\ disk' = Restarted(d)
  BY DEF Dies
<1> PICK m \in Memory : m = Restarted(d)
  BY RestartedIs
<1>2. live' = m /\ disk' = m /\ m.channel = d.channel /\ m.signals = d.signals
  BY <1>1, RestartedIs
<1>3. m.channel \in Channels /\ before'[m.channel] \in Nat /\ behind'[m.channel] \in Nat
  BY DEF Memory, DiscordInv, DiscordTyped
<1>4. \/ d.runtime.channel = d.channel /\ m.runtime = live.runtime /\ m.channel = live.channel
      \/ m.runtime = emptyDiscordRuntime(m.channel)
  BY <1>2, RestartedIs
<1>5. m.runtime.channel = m.channel
  BY <1>3, <1>4, MemoryIs, EmptyIs
<1>6. DiscordTyped'
  BY <1>1, <1>2 DEF DiscordInv, DiscordTyped
<1>7. FilesAgree' /\ OneRequest' /\ NoWayBack' /\ ActedIsRecorded'
  BY <1>1, <1>2, <1>5 DEF FilesAgree, OneRequest, NoWayBack, ActedIsRecorded
<1>8. CursorHeld'
  BY <1>1, <1>6, PollIs DEF CursorHeld, DiscordTyped, NoPoll, Fetch
<1>9. HistoryRead' /\ NothingSkipped'
  <2>1. CASE m.runtime = emptyDiscordRuntime(m.channel)
    <3>1. m.runtime.cursor = 0 /\ m.runtime.baselined = FALSE
      BY <1>3, <2>1, EmptyIs
    <3> QED BY <1>2, <1>3, <3>1 DEF HistoryRead, NothingSkipped, Historical
  <2>2. CASE d.runtime.channel = d.channel /\ m.runtime = live.runtime /\ m.channel = live.channel
    <3>1. before'[live.channel] = before[live.channel]
      BY <2>2
    <3>2. HistoryRead'
      BY <1>2, <2>2, <3>1 DEF DiscordInv, HistoryRead, Historical
    <3>3. NothingSkipped'
      BY <1>2, <2>2, <3>1 DEF DiscordInv, NothingSkipped
    <3> QED BY <3>2, <3>3
  <2> QED BY <1>4, <2>1, <2>2
<1> QED BY <1>6, <1>7, <1>8, <1>9 DEF DiscordInv

LEMMA CrashKeeps == ASSUME DiscordInv, Crash PROVE DiscordInv'
<1>1. UNCHANGED <<posted, old, epoch, acted, before, behind, forgotten, clicks>> /\ Dies(disk)
  BY DEF Crash
<1>2. disk \in Memory /\ disk.signals = live.signals /\ disk.channel = live.channel
      /\ disk.runtime = live.runtime
  BY DEF DiscordInv, DiscordTyped, FilesAgree
<1>3. before' \in [Channels -> Nat] /\ \A c \in Channels : before'[c] <= posted[c]
  BY <1>1 DEF DiscordInv, DiscordTyped, HistoryRead
<1>4. acted' \in [Messages -> Nat] /\ \A m \in Messages : acted'[m] # 0 => m \in disk.signals \cup forgotten
  BY <1>1, <1>2 DEF DiscordInv, DiscordTyped, ActedIsRecorded
<1> QED BY <1>1, <1>2, <1>3, <1>4, DiesKeeps

-----------------------------------------------------------------------------
(* Clicks.                                                                 *)

\* The memory after a click: the channel's runtime state is kept, or it is another
\* channel, without history read.
LEMMA MemoryWritten ==
  ASSUME DiscordInv, NEW m \in Memory, live' = m, disk' = m,
         live.signals \subseteq m.signals, UNCHANGED <<posted, acted, behind, forgotten>>,
         before' \in [Channels -> Nat], \A c \in Channels : before'[c] <= posted[c],
         \/ m.channel = live.channel /\ m.runtime = live.runtime
            /\ before'[live.channel] = before[live.channel]
         \/ m.runtime = emptyDiscordRuntime(m.channel)
  PROVE  FilesAgree' /\ HistoryRead' /\ ActedIsRecorded' /\ NothingSkipped'
<1>1. m.channel \in Channels /\ before'[m.channel] \in Nat /\ behind'[m.channel] \in Nat
  BY DEF Memory, DiscordInv, DiscordTyped
<1>2. m.runtime.channel = m.channel
  BY <1>1, MemoryIs, EmptyIs
<1>3. FilesAgree' /\ ActedIsRecorded'
  BY <1>2 DEF FilesAgree, ActedIsRecorded, DiscordInv
<1>4. CASE m.runtime = emptyDiscordRuntime(m.channel)
  <2>1. m.runtime.cursor = 0 /\ m.runtime.baselined = FALSE
    BY <1>1, <1>4, EmptyIs
  <2> QED BY <1>1, <1>3, <2>1 DEF HistoryRead, NothingSkipped, Historical
<1>5. CASE m.channel = live.channel /\ m.runtime = live.runtime
           /\ before'[live.channel] = before[live.channel]
  <2>1. HistoryRead'
    BY <1>5 DEF DiscordInv, HistoryRead, Historical
  <2>2. NothingSkipped'
    BY <1>5 DEF DiscordInv, NothingSkipped
  <2> QED BY <1>3, <2>1, <2>2
<1> QED BY <1>4, <1>5

\* A new epoch: no answer on its way is wanted, no request is current.
LEMMA SupersedingKeeps ==
  ASSUME DiscordInv, Superseding, UNCHANGED <<poll, connect>>
  PROVE  epoch' \in Nat /\ OneRequest' /\ NoWayBack' /\ CursorHeld'
<1>1. epoch \in Nat /\ epoch' = epoch + 1
  BY MemoryIs DEF Superseding
<1>2. connect \subseteq Request /\ poll \in {NoPoll} \cup Setup \cup Fetch
  BY DEF DiscordInv, DiscordTyped
<1>3. \A r \in connect : r.epoch \in Nat /\ r.epoch <= epoch
  BY <1>2 DEF DiscordInv, OneRequest, Request
<1>4. OneRequest'
  BY <1>1, <1>3 DEF DiscordInv, OneRequest, Current
<1>5. poll # NoPoll => poll.epoch \in Nat /\ poll.epoch <= epoch
  BY <1>2 DEF DiscordInv, NoWayBack, Setup, Fetch
<1>6. NoWayBack' /\ CursorHeld'
  BY <1>1, <1>5, PollIs, <1>2 DEF NoWayBack, CursorHeld
<1> QED BY <1>1, <1>4, <1>6

LEMMA ChosenIs ==
  ASSUME DiscordInv, NEW c \in Channels, ChannelChosen(c), posted' = posted
  PROVE  /\ before' \in [Channels -> Nat] /\ \A d \in Channels : before'[d] <= posted[d]
         /\ c = live.channel => before' = before
<1>1. before \in [Channels -> Nat] /\ posted \in [Channels -> Nat]
      /\ \A d \in Channels : before[d] <= posted[d]
  BY DEF DiscordInv, DiscordTyped, HistoryRead
<1>2. PICK n \in {before[c], posted[c]} : before' = [before EXCEPT ![c] = n]
        /\ (c = live.channel => n = before[c])
  BY DEF ChannelChosen
<1>3. n \in Nat /\ n <= posted[c]
  BY <1>1
<1> QED BY <1>1, <1>2, <1>3

LEMMA ConnectKeeps ==
  ASSUME DiscordInv, NEW c \in Channels, NEW pasted \in BOOLEAN, Connect(c, pasted)
  PROVE  DiscordInv'
<1>1. UNCHANGED <<posted, live, disk, poll, acted, before, behind, forgotten>> /\ epoch' = epoch + 1
  BY DEF Connect, Superseding
<1>2. epoch \in Nat /\ live.token \in Nat
  BY MemoryIs
<1>3. PICK t \in {epoch + 1, live.token} :
        connect' = connect \cup {[epoch |-> epoch + 1, channel |-> c, token |-> t]}
  BY DEF Connect
<1>4. t \in Nat
  BY <1>2
<1> DEFINE new == [epoch |-> epoch + 1, channel |-> c, token |-> t]
<1>5. new \in Request /\ new.epoch = epoch + 1 /\ new.token = t
  BY <1>2, <1>4 DEF Request
<1>6. connect' = connect \cup {new}
  BY <1>3
<1> HIDE DEF new
<1>7. connect \subseteq Request /\ poll \in {NoPoll} \cup Setup \cup Fetch
  BY DEF DiscordInv, DiscordTyped
<1>8. \A r \in connect : r.epoch \in Nat /\ r.epoch <= epoch
  BY <1>7 DEF DiscordInv, OneRequest, Request
<1>9. poll # NoPoll => poll.epoch \in Nat /\ poll.epoch <= epoch
  BY <1>7 DEF DiscordInv, NoWayBack, Setup, Fetch
<1>10. OneRequest'
  <2>1. \A r \in connect' : r.epoch <= epoch'
    BY <1>1, <1>2, <1>5, <1>6, <1>8
  <2>2. \A r, s \in connect' : r.epoch = s.epoch => r = s
    BY <1>2, <1>5, <1>6, <1>8 DEF DiscordInv, OneRequest
  <2>3. \A r \in connect' : r.epoch = epoch' => r.token \in {live'.token, epoch'}
    BY <1>1, <1>2, <1>5, <1>6, <1>8
  <2> QED BY <2>1, <2>2, <2>3 DEF OneRequest, Current
<1>11. NoWayBack' /\ CursorHeld'
  BY <1>1, <1>2, <1>7, <1>9, PollIs DEF NoWayBack, CursorHeld
<1>12. DiscordTyped'
  BY <1>1, <1>2, <1>5, <1>6 DEF DiscordInv, DiscordTyped
<1>13. FilesAgree' /\ HistoryRead' /\ ActedIsRecorded' /\ NothingSkipped'
  BY <1>1 DEF DiscordInv, FilesAgree, HistoryRead, ActedIsRecorded, NothingSkipped, Historical
<1> QED BY <1>10, <1>11, <1>12, <1>13 DEF DiscordInv

\* Disconnect, Forget, Stop and a save of another channel.
LEMMA SupersedingClickKeeps ==
  ASSUME DiscordInv, Superseding, NEW m \in Memory, Operator(m), m.signals = live.signals,
         \/ m.channel = live.channel /\ m.runtime = live.runtime /\ UNCHANGED before
         \/ m.runtime = emptyDiscordRuntime(m.channel) /\ ChannelChosen(m.channel)
  PROVE  DiscordInv'
<1>1. UNCHANGED <<posted, poll, connect, acted, behind, forgotten>> /\ live' = m /\ disk' = m
  BY DEF Operator
<1>2. m.channel \in Channels
  BY DEF Memory
<1>3. before' \in [Channels -> Nat] /\ \A d \in Channels : before'[d] <= posted[d]
  BY <1>1, <1>2, ChosenIs DEF DiscordInv, DiscordTyped, HistoryRead
<1>4. FilesAgree' /\ HistoryRead' /\ ActedIsRecorded' /\ NothingSkipped'
  BY <1>1, <1>3, MemoryWritten
<1>5. epoch' \in Nat /\ OneRequest' /\ NoWayBack' /\ CursorHeld'
  BY <1>1, SupersedingKeeps
<1>6. DiscordTyped'
  BY <1>1, <1>3, <1>5 DEF DiscordInv, DiscordTyped
<1> QED BY <1>4, <1>5, <1>6 DEF DiscordInv

LEMMA ClicksKeep ==
  ASSUME DiscordInv, Disconnect \/ Forget \/ Stop \/ (\E c \in Channels : resetDiscordChannel(c))
  PROVE  DiscordInv'
<1>1. live \in Memory
  BY MemoryIs
<1>2. CASE Disconnect
  <2>1. [live EXCEPT !.enabled = FALSE, !.ready = FALSE] \in Memory
    BY <1>1 DEF Memory
  <2> QED BY <1>1, <1>2, <2>1, SupersedingClickKeeps DEF Disconnect, Memory
<1>3. CASE Forget
  <2>1. [live EXCEPT !.token = 0, !.enabled = FALSE, !.ready = FALSE] \in Memory
    BY <1>1 DEF Memory
  <2> QED BY <1>1, <1>3, <2>1, SupersedingClickKeeps DEF Forget, Memory
<1>4. CASE Stop
  <2>1. [live EXCEPT !.paused = TRUE] \in Memory
    BY <1>1 DEF Memory
  <2> QED BY <1>1, <1>4, <2>1, SupersedingClickKeeps DEF Stop, Memory
<1>5. CASE \E c \in Channels : resetDiscordChannel(c)
  <2>1. PICK c \in Channels : resetDiscordChannel(c)
    BY <1>5
  <2> PICK e \in Runtime : e = emptyDiscordRuntime(c)
    BY EmptyIs
  <2> DEFINE m == [live EXCEPT !.channel = c, !.ready = FALSE, !.runtime = e]
  <2>2. m \in Memory /\ m.channel = c /\ m.runtime = e /\ m.signals = live.signals
    BY <1>1 DEF Memory
  <2>3. Superseding /\ ChannelChosen(c) /\ Operator(m)
    BY <2>1 DEF resetDiscordChannel
  <2> HIDE DEF m
  <2> QED BY <2>2, <2>3, SupersedingClickKeeps
<1> QED BY <1>2, <1>3, <1>4, <1>5

LEMMA ResumeKeeps == ASSUME DiscordInv, Resume PROVE DiscordInv'
<1>1. UNCHANGED <<posted, poll, connect, acted, epoch, before, behind, forgotten>>
      /\ live' = [live EXCEPT !.paused = FALSE] /\ disk' = live'
  BY DEF Resume, Operator
<1>2. live \in Memory
  BY MemoryIs
<1> PICK m \in Memory : m = [live EXCEPT !.paused = FALSE]
  BY <1>2 DEF Memory
<1>3. /\ m.channel = live.channel /\ m.runtime = live.runtime /\ m.token = live.token
      /\ m.signals = live.signals
  BY <1>2 DEF Memory
<1>4. live' = m /\ disk' = m
  BY <1>1
<1>5. before' \in [Channels -> Nat] /\ \A d \in Channels : before'[d] <= posted[d]
  BY <1>1 DEF DiscordInv, DiscordTyped, HistoryRead
<1>6. FilesAgree' /\ HistoryRead' /\ ActedIsRecorded' /\ NothingSkipped'
  BY <1>1, <1>3, <1>4, <1>5, MemoryWritten
<1>7. DiscordTyped'
  BY <1>1, <1>4 DEF DiscordInv, DiscordTyped
<1>8. OneRequest' /\ NoWayBack' /\ CursorHeld'
  BY <1>1, <1>3, <1>4 DEF DiscordInv, OneRequest, NoWayBack, CursorHeld, Current, Historical
<1> QED BY <1>6, <1>7, <1>8 DEF DiscordInv

-----------------------------------------------------------------------------
(* An answer to a Connect.                                                 *)

LEMMA ValidatedKeeps ==
  ASSUME DiscordInv, NEW r \in connect, NEW written \in 1 .. 3, Validated(r, written)
  PROVE  DiscordInv'
<1>1. Current(r) /\ UNCHANGED <<posted, old, epoch, acted, behind, forgotten, clicks>>
  BY DEF Validated
<1>2. r.channel \in Channels /\ r.token \in Nat /\ r.epoch = epoch
  BY <1>1 DEF DiscordInv, DiscordTyped, Request, Current
<1>3. live \in Memory /\ disk \in Memory /\ live.runtime.channel = live.channel
  BY MemoryIs
<1>4. disk.runtime = live.runtime /\ disk.signals = live.signals /\ disk.channel = live.channel
  BY DEF DiscordInv, FilesAgree
<1> PICK saved \in Memory : saved = [disk EXCEPT !.token = r.token]
  BY <1>2, <1>3 DEF Memory
<1>5. saved.runtime = live.runtime /\ saved.signals = live.signals /\ saved.channel = live.channel
  BY <1>3, <1>4 DEF Memory
<1>6. acted' \in [Messages -> Nat] /\ \A m \in Messages : acted'[m] # 0 => m \in live.signals \cup forgotten
  BY <1>1 DEF DiscordInv, DiscordTyped, ActedIsRecorded
<1>7. CASE written = 1
  <2>1. Dies(saved) /\ before' = before
    BY <1>7 DEF Validated
  <2>2. before' \in [Channels -> Nat] /\ \A d \in Channels : before'[d] <= posted[d]
    BY <2>1 DEF DiscordInv, DiscordTyped, HistoryRead
  <2> QED BY <1>1, <1>5, <1>6, <2>1, <2>2, DiesKeeps
<1>8. CASE written = 2
  <2> PICK d \in Memory : d = [saved EXCEPT !.enabled = TRUE, !.channel = r.channel]
    BY <1>2 DEF Memory
  <2>1. d.runtime = live.runtime /\ d.signals = live.signals /\ d.channel = r.channel
    BY <1>5 DEF Memory
  <2>2. Dies(d) /\ ChannelChosen(r.channel)
    BY <1>8 DEF Validated
  <2>3. /\ before' \in [Channels -> Nat] /\ \A c \in Channels : before'[c] <= posted[c]
        /\ r.channel = live.channel => before' = before
    BY <1>1, <1>2, <2>2, ChosenIs
  <2> QED BY <1>1, <1>3, <1>6, <2>1, <2>2, <2>3, DiesKeeps
<1>9. CASE written = 3
  <2> PICK e \in Runtime : e = emptyDiscordRuntime(r.channel)
    BY <1>2, EmptyIs
  <2> PICK run3 \in Runtime : run3 = IF r.channel = live.channel THEN live.runtime ELSE e
    BY <1>3 DEF Memory
  <2> PICK m \in Memory :
        m = [live EXCEPT !.token = r.token, !.enabled = TRUE, !.channel = r.channel,
                         !.ready = TRUE, !.runtime = run3]
    BY <1>2, <1>3 DEF Memory
  <2>1. m.token = r.token /\ m.channel = r.channel /\ m.runtime = run3 /\ m.signals = live.signals
    BY <1>3 DEF Memory
  <2>2. /\ live' = m /\ disk' = m /\ connect' = connect \ {r} /\ ChannelChosen(r.channel)
        /\ UNCHANGED poll
    BY <1>9 DEF Validated
  <2>3. /\ before' \in [Channels -> Nat] /\ \A c \in Channels : before'[c] <= posted[c]
        /\ r.channel = live.channel => before' = before
    BY <1>1, <1>2, <2>2, ChosenIs
  <2>4. FilesAgree' /\ HistoryRead' /\ ActedIsRecorded' /\ NothingSkipped'
    BY <1>1, <2>1, <2>2, <2>3, MemoryWritten
  <2>5. DiscordTyped'
    BY <1>1, <2>2, <2>3 DEF DiscordInv, DiscordTyped
  <2>6. \A s \in connect' : ~Current(s)' /\ ~Current(s)
    BY <1>1, <1>2, <2>2 DEF DiscordInv, OneRequest, Current
  <2>7. OneRequest'
    BY <1>1, <2>2, <2>6 DEF DiscordInv, OneRequest
  <2>8. NoWayBack'
    BY <1>1, <2>2, <2>6 DEF DiscordInv, NoWayBack, Current
  <2>9. CursorHeld'
    <3>1. SUFFICES ASSUME poll \in Fetch, poll.epoch = epoch, poll.channel = m.channel
          PROVE  /\ poll.cursor = m.runtime.cursor
                 /\ before'[poll.channel] <= poll.sent
      BY <1>1, <2>2 DEF CursorHeld
    <3>2. r.channel = live.channel
      BY <1>1, <2>1, <3>1, PollIs DEF DiscordInv, DiscordTyped, NoWayBack, Current
    <3> QED BY <2>1, <2>3, <3>1, <3>2 DEF DiscordInv, CursorHeld
  <2> QED BY <2>4, <2>5, <2>7, <2>8, <2>9 DEF DiscordInv
<1> QED BY <1>7, <1>8, <1>9

\* Steps that leave the memory, the files and the history of the channels alone.
LEMMA MemoryAside ==
  ASSUME DiscordInv, UNCHANGED <<posted, live, disk, acted, before, behind, forgotten>>
  PROVE  FilesAgree' /\ HistoryRead' /\ ActedIsRecorded' /\ NothingSkipped'
BY DEF DiscordInv, FilesAgree, HistoryRead, ActedIsRecorded, NothingSkipped, Historical

LEMMA NotConnectedKeeps == ASSUME DiscordInv, NEW r \in connect, NotConnected(r) PROVE DiscordInv'
<1>1. UNCHANGED <<posted, live, disk, epoch, poll, acted, before, behind, forgotten>> /\ connect' \subseteq connect
  BY DEF NotConnected
<1>2. DiscordTyped' /\ OneRequest' /\ NoWayBack' /\ CursorHeld'
  BY <1>1 DEF DiscordInv, DiscordTyped, OneRequest, NoWayBack, CursorHeld, Current, Historical
<1> QED BY <1>1, <1>2, MemoryAside DEF DiscordInv

-----------------------------------------------------------------------------
(* The poll.                                                               *)

LEMMA PollStartsKeeps == ASSUME DiscordInv, PollStarts PROVE DiscordInv'
<1>1. UNCHANGED <<posted, live, disk, epoch, connect, acted, before, behind, forgotten>>
  BY DEF PollStarts
<1>2. poll' = [phase |-> "setup", epoch |-> epoch, token |-> live.token, channel |-> live.channel]
  BY DEF PollStarts
<1>3. poll' \in Setup /\ poll'.epoch = epoch /\ poll'.channel = live.channel
  BY <1>2, MemoryIs DEF Setup
<1>4. DiscordTyped'
  BY <1>1, <1>3 DEF DiscordInv, DiscordTyped
<1>5. OneRequest' /\ NoWayBack' /\ CursorHeld'
  BY <1>1, <1>3, PollIs, MemoryIs DEF DiscordInv, DiscordTyped, OneRequest, NoWayBack, CursorHeld,
                                      Current
<1> QED BY <1>1, <1>4, <1>5, MemoryAside DEF DiscordInv

LEMMA PollEndsKeeps == ASSUME DiscordInv, PollEnds PROVE DiscordInv'
<1>1. UNCHANGED <<posted, live, disk, epoch, connect, acted, before, behind, forgotten>> /\ poll' = NoPoll
  BY DEF PollEnds
<1>2. DiscordTyped' /\ OneRequest' /\ NoWayBack' /\ CursorHeld'
  BY <1>1, PollIs DEF DiscordInv, DiscordTyped, OneRequest, NoWayBack, CursorHeld, Current
<1> QED BY <1>1, <1>2, MemoryAside DEF DiscordInv

LEMMA PollFetchesKeeps == ASSUME DiscordInv, PollFetches PROVE DiscordInv'
<1>1. UNCHANGED <<posted, disk, epoch, connect, acted, before, behind, forgotten>>
  BY DEF PollFetches
<1>2. poll \in Setup /\ poll.epoch = epoch /\ poll.channel = live.channel
  BY PollIs DEF PollFetches, StillWanted, DiscordInv, DiscordTyped
<1>3. live \in Memory /\ live' = [live EXCEPT !.ready = TRUE]
  BY MemoryIs DEF PollFetches
<1> PICK m \in Memory : m = [live EXCEPT !.ready = TRUE]
  BY <1>3 DEF Memory
<1>4. /\ live' = m /\ m.token = live.token /\ m.enabled = live.enabled /\ m.paused = live.paused
      /\ m.channel = live.channel /\ m.runtime = live.runtime /\ m.signals = live.signals
  BY <1>3 DEF Memory
<1>5. FilesAgree' /\ HistoryRead' /\ ActedIsRecorded' /\ NothingSkipped'
  BY <1>1, <1>4 DEF DiscordInv, FilesAgree, HistoryRead, ActedIsRecorded, NothingSkipped, Historical
<1>6. poll' = [phase |-> "fetch", epoch |-> poll.epoch, token |-> poll.token,
               channel |-> poll.channel, cursor |-> live.runtime.cursor,
               sent |-> posted[poll.channel]]
  BY DEF PollFetches
<1>7. posted[poll.channel] \in Nat /\ live.runtime.cursor \in Nat
  BY <1>2, MemoryIs DEF DiscordInv, DiscordTyped
<1>8. /\ poll' \in Fetch /\ poll'.epoch = epoch /\ poll'.channel = live.channel
      /\ poll'.cursor = live.runtime.cursor /\ poll'.sent = posted[live.channel]
  BY <1>2, <1>6, <1>7 DEF Setup, Fetch
<1>9. DiscordTyped'
  BY <1>1, <1>4, <1>8 DEF DiscordInv, DiscordTyped
<1>10. OneRequest' /\ NoWayBack'
  BY <1>1, <1>4, <1>8, MemoryIs DEF DiscordInv, OneRequest, NoWayBack, Current
<1>11. CursorHeld'
  BY <1>1, <1>4, <1>8, MemoryIs DEF DiscordInv, CursorHeld, HistoryRead, Historical
<1> QED BY <1>5, <1>9, <1>10, <1>11 DEF DiscordInv

\* What a wanted answer is and does.
LEMMA AnswerFinds ==
  ASSUME DiscordInv, poll.phase = "fetch", StillWanted, NEW last \in LastFetched
  PROVE  /\ poll \in Fetch /\ poll.channel = live.channel /\ poll.cursor = live.runtime.cursor
         /\ last \in Nat /\ before[live.channel] <= last
         /\ First(last) \in Nat /\ poll.cursor <= First(last)
         /\ poll.cursor # 0 => First(last) = poll.cursor
<1>1. poll \in Fetch /\ poll.epoch = epoch /\ poll.channel = live.channel
  BY PollIs DEF StillWanted, DiscordInv, DiscordTyped
<1>2. /\ poll.cursor = live.runtime.cursor
      /\ before[live.channel] <= poll.sent
  BY <1>1 DEF DiscordInv, CursorHeld
<1>3. /\ poll.sent \in Nat /\ poll.cursor \in Nat /\ posted[poll.channel] \in Nat
      /\ before[live.channel] \in Nat /\ Limit \in Nat
  BY <1>1, MemoryIs, DiscordAssumption DEF Fetch, DiscordInv, DiscordTyped
<1>4. poll.cursor # 0 => before[live.channel] <= poll.cursor
  BY <1>2 DEF DiscordInv, HistoryRead, Historical
<1>5. PICK low \in Nat, high \in Nat :
        /\ last \in low .. high
        /\ low = poll.sent \/ (poll.cursor # 0 /\ low = poll.cursor + Limit)
  <2>1. ASSUME NEW n \in Nat, NEW x, x = IF poll.cursor = 0 \/ n <= poll.cursor + Limit THEN n ELSE poll.cursor + Limit
        PROVE  x \in Nat /\ (x = n \/ (poll.cursor # 0 /\ x = poll.cursor + Limit))
    BY <1>3, <2>1
  <2> QED BY <1>3, <2>1 DEF LastFetched
<1>6. last \in Nat /\ low <= last
  BY <1>5
<1>7. before[live.channel] <= low
  BY <1>2, <1>3, <1>4, <1>5
<1>8. PageBefore(last) \in Nat
  BY <1>3, <1>6 DEF PageBefore
<1> QED BY <1>1, <1>2, <1>3, <1>6, <1>7, <1>8 DEF First

\* What left the inbox is remembered as forgotten.
LEMMA SignalsGoneKeeps ==
  ASSUME DiscordInv, NEW gone \in SUBSET live.signals, SignalsGone(gone)
  PROVE  DiscordInv'
<1>1. /\ UNCHANGED <<posted, epoch, poll, connect, acted, before, behind>>
      /\ forgotten' = forgotten \cup gone
  BY DEF SignalsGone
<1>2. live \in Memory /\ disk \in Memory /\ live.signals \ gone \in SUBSET News
  BY DEF DiscordInv, DiscordTyped, Memory
<1> PICK m \in Memory : m = [live EXCEPT !.signals = @ \ gone]
  BY <1>2 DEF Memory
<1> PICK d \in Memory : d = [disk EXCEPT !.signals = m.signals]
  BY <1>2 DEF Memory
<1>3. live' = m /\ disk' = d
  BY DEF SignalsGone
<1>4. /\ m.token = live.token /\ m.enabled = live.enabled /\ m.paused = live.paused
      /\ m.channel = live.channel /\ m.runtime = live.runtime
      /\ m.signals = live.signals \ gone
  BY <1>2 DEF Memory
<1>5. /\ d.token = disk.token /\ d.enabled = disk.enabled /\ d.paused = disk.paused
      /\ d.channel = disk.channel /\ d.runtime = disk.runtime /\ d.signals = m.signals
  BY <1>2 DEF Memory
<1>6. DiscordTyped'
  BY <1>1, <1>3 DEF DiscordInv, DiscordTyped
<1>7. FilesAgree'
  BY <1>3, <1>4, <1>5 DEF DiscordInv, FilesAgree
<1>8. OneRequest' /\ NoWayBack'
  BY <1>1, <1>3, <1>4 DEF DiscordInv, OneRequest, NoWayBack, Current
<1>9. CursorHeld' /\ HistoryRead'
  BY <1>1, <1>3, <1>4 DEF DiscordInv, CursorHeld, HistoryRead, Historical
<1>10. ActedIsRecorded'
  BY <1>1, <1>3, <1>4 DEF DiscordInv, ActedIsRecorded
<1>11. NothingSkipped'
  BY <1>1, <1>3, <1>4 DEF DiscordInv, NothingSkipped
<1> QED BY <1>6, <1>7, <1>8, <1>9, <1>10, <1>11 DEF DiscordInv

LEMMA PostKeeps == ASSUME DiscordInv, NEW c \in Channels, Post(c) PROVE DiscordInv'
<1>1. UNCHANGED <<live, disk, epoch, poll, connect, acted, before, behind, forgotten>>
      /\ posted' = [posted EXCEPT ![c] = @ + 1]
  BY DEF Post
<1>2. DiscordTyped' /\ \A d \in Channels : posted[d] <= posted'[d] /\ posted[d] \in Nat /\ posted'[d] \in Nat
  BY <1>1 DEF DiscordInv, DiscordTyped
<1>3. HistoryRead'
  <2>1. \A d \in Channels : before[d] \in Nat /\ before[d] <= posted[d]
    BY DEF DiscordInv, DiscordTyped, HistoryRead
  <2>2. \A d \in Channels : before'[d] <= posted'[d]
    BY <1>1, <1>2, <2>1
  <2> QED BY <1>1, <2>2 DEF DiscordInv, HistoryRead, Historical
<1>4. /\ FilesAgree' /\ OneRequest' /\ NoWayBack' /\ CursorHeld' /\ ActedIsRecorded'
      /\ NothingSkipped'
  BY <1>1 DEF DiscordInv, FilesAgree, OneRequest, NoWayBack, CursorHeld, ActedIsRecorded,
              NothingSkipped, Current, Historical
<1> QED BY <1>2, <1>3, <1>4 DEF DiscordInv

LEMMA AgeKeeps ==
  ASSUME DiscordInv,
         UNCHANGED <<posted, live, disk, epoch, poll, connect, acted, before, behind, forgotten>>
  PROVE  DiscordInv'
BY DEF DiscordInv, DiscordTyped, FilesAgree, OneRequest, NoWayBack, CursorHeld, HistoryRead,
       ActedIsRecorded, NothingSkipped, Current, Historical

\* An answer that is used: its messages are recorded, and only then the cursor passes
\* them; of a channel's first answer nothing is acted on.
LEMMA PollAnswersKeeps ==
  ASSUME DiscordInv, poll.phase = "fetch", NEW last \in LastFetched,
         NEW done \in First(last) .. last, PollAnswers(last, done)
  PROVE  /\ DiscordInv'
         /\ \A m \in Messages :
              acted'[m] # acted[m] => (acted[m] = 0 \/ m \in forgotten) /\ m.id > before[m.channel]
<1>1. StillWanted /\ UNCHANGED <<posted, old, epoch, before, forgotten, clicks>>
  BY DEF PollAnswers
<1>2. /\ poll \in Fetch /\ poll.channel = live.channel /\ poll.cursor = live.runtime.cursor
      /\ last \in Nat /\ before[live.channel] <= last /\ live.runtime.cursor \in Nat
      /\ live \in Memory /\ live.channel \in Channels /\ before[live.channel] \in Nat
      /\ behind[live.channel] \in Nat
  BY <1>1, AnswerFinds, MemoryIs
<1> PICK first \in Nat :
        /\ first = First(last) /\ live.runtime.cursor <= first
        /\ live.runtime.cursor # 0 => first = live.runtime.cursor
  BY <1>1, <1>2, AnswerFinds
<1> DEFINE c == live.channel
           Batch(n) == {[channel |-> c, id |-> i] : i \in first + 1 .. n}
<1>3. Batch(done) \subseteq News /\ done \in Nat
  BY <1>2 DEF News
<1> PICK batch \in SUBSET News : batch = Batch(done)
  BY <1>3
<1>4. \A m \in batch : m.channel = c /\ m.id > live.runtime.cursor
  BY <1>2
<1> PICK handled : handled = Unrecorded(batch)
  OBVIOUS
<1>5. \A m \in handled : m \in batch /\ m \notin live.signals
  BY DEF Unrecorded
<1> PICK acts : acts = IF Historical \/ live.paused THEN {} ELSE handled \ old
  OBVIOUS
<1>6. \A m \in acts : m \in handled /\ ~Historical
  OBVIOUS
<1> PICK recorded \in Memory : recorded = [live EXCEPT !.signals = @ \cup batch]
  <2>1. live.signals \cup batch \in SUBSET News
    BY <1>2 DEF Memory
  <2> QED BY <1>2, <2>1 DEF Memory
<1>7. /\ recorded.signals = live.signals \cup batch /\ recorded.channel = c
      /\ recorded.runtime = live.runtime /\ recorded.token = live.token
  BY <1>2 DEF Memory
<1>8. acted' = [m \in Messages |-> acted[m] + (IF m \in acts THEN 1 ELSE 0)]
  BY <1>2 DEF PollAnswers
<1>9. acted \in [Messages -> Nat]
  BY DEF DiscordInv, DiscordTyped
<1>10. acted' \in [Messages -> Nat] /\ \A m \in Messages : acted'[m] # acted[m] => m \in acts
  <2>1. ASSUME NEW m \in Messages
        PROVE  acted'[m] \in Nat /\ (acted'[m] # acted[m] => m \in acts)
    <3>1. acted[m] \in Nat /\ acted'[m] = acted[m] + (IF m \in acts THEN 1 ELSE 0)
      BY <1>8, <1>9
    <3> QED BY <3>1
  <2>2. acted' = [m \in Messages |-> acted'[m]]
    BY <1>8
  <2> QED BY <2>1, <2>2
<1>11. \A m \in Messages : acted'[m] # 0 => m \in recorded.signals \cup forgotten
  BY <1>5, <1>6, <1>7, <1>10 DEF DiscordInv, ActedIsRecorded
<1>12. \A m \in Messages :
         acted'[m] # acted[m] => (acted[m] = 0 \/ m \in forgotten) /\ m.id > before[m.channel]
  <2>1. SUFFICES ASSUME NEW m \in Messages, m \in acts
                 PROVE  (acted[m] = 0 \/ m \in forgotten) /\ m.id > before[m.channel]
    BY <1>10
  <2>2. m \in batch /\ m \notin live.signals /\ ~Historical
    BY <1>5, <1>6, <2>1
  <2>3. acted[m] = 0 \/ m \in forgotten
    BY <2>2 DEF DiscordInv, ActedIsRecorded
  <2>4. before[live.channel] <= live.runtime.cursor
    BY <2>2 DEF DiscordInv, HistoryRead
  <2>5. m.id \in Nat
    BY <2>2 DEF News
  <2> QED BY <1>2, <1>4, <2>2, <2>3, <2>4, <2>5
<1>13. before' \in [Channels -> Nat] /\ \A d \in Channels : before'[d] <= posted[d]
  BY <1>1 DEF DiscordInv, DiscordTyped, HistoryRead
<1>14. CASE Dies(recorded) /\ UNCHANGED behind
  <2>1. live.signals \subseteq recorded.signals
    BY <1>7
  <2> QED BY <1>1, <1>7, <1>10, <1>11, <1>12, <1>13, <1>14, <2>1, DiesKeeps
<1>15. CASE ~(Dies(recorded) /\ UNCHANGED behind)
  <2> PICK r \in Runtime : r = [channel |-> c, baselined |-> TRUE, cursor |-> last]
    BY <1>2 DEF Runtime
  <2>1. r.channel = c /\ r.baselined = TRUE /\ r.cursor = last
    OBVIOUS
  <2> PICK m \in Memory : m = [recorded EXCEPT !.runtime = r]
    BY DEF Memory
  <2>2. m.runtime = r /\ m.channel = c /\ m.signals = recorded.signals /\ m.token = live.token
    BY <1>7 DEF Memory
  <2>3. /\ done = last /\ live' = m /\ disk' = m /\ poll' = NoPoll /\ connect' = connect
        /\ behind' = [behind EXCEPT ![c] = IF live.runtime.cursor = 0 THEN first ELSE @]
    BY <1>2, <1>15 DEF PollAnswers
  <2> PICK b \in Nat :
        /\ b = behind'[c] /\ behind' = [behind EXCEPT ![c] = b]
        /\ b = IF live.runtime.cursor = 0 THEN first ELSE behind[c]
    BY <1>2, <2>3 DEF DiscordInv, DiscordTyped
  <2>4. DiscordTyped'
    BY <1>1, <1>2, <1>10, <2>3 DEF DiscordInv, DiscordTyped
  <2>5. FilesAgree' /\ ActedIsRecorded'
    BY <1>1, <1>11, <2>1, <2>2, <2>3 DEF FilesAgree, ActedIsRecorded
  <2>6. OneRequest' /\ NoWayBack' /\ CursorHeld'
    BY <1>1, <2>2, <2>3, PollIs DEF DiscordInv, DiscordTyped, OneRequest, NoWayBack, CursorHeld, Current
  <2>7. HistoryRead'
    BY <1>1, <1>2, <2>1, <2>2, <2>3 DEF DiscordInv, HistoryRead, Historical
  <2>8. NothingSkipped'
    <3>1. SUFFICES ASSUME NEW i \in b + 1 .. last
                   PROVE  [channel |-> c, id |-> i] \in live.signals \cup batch \cup forgotten
      BY <1>1, <1>7, <2>1, <2>2, <2>3 DEF NothingSkipped
    <3>2. i \in Nat
      OBVIOUS
    <3>3. CASE live.runtime.cursor # 0 /\ i <= live.runtime.cursor
      BY <1>2, <3>2, <3>3 DEF DiscordInv, NothingSkipped
    <3>4. CASE live.runtime.cursor = 0 \/ i > live.runtime.cursor
      BY <1>2, <2>3, <3>2, <3>4
    <3>5. \/ live.runtime.cursor # 0 /\ i <= live.runtime.cursor
          \/ live.runtime.cursor = 0 \/ i > live.runtime.cursor
      BY <1>2, <3>2
    <3> QED BY <3>3, <3>4, <3>5
  <2> QED BY <1>12, <2>4, <2>5, <2>6, <2>7, <2>8 DEF DiscordInv
<1> QED BY <1>14, <1>15

LEMMA DiscordStepKeeps == ASSUME DiscordInv, [DiscordNext]_discordVars PROVE DiscordInv'
<1>1. CASE \E c \in Channels, pasted \in BOOLEAN : Connect(c, pasted)
  BY <1>1, ConnectKeeps
<1>2. CASE \E r \in connect, written \in 1 .. 3 : Validated(r, written)
  BY <1>2, ValidatedKeeps
<1>3. CASE \E r \in connect : NotConnected(r)
  BY <1>3, NotConnectedKeeps
<1>4. CASE Disconnect \/ Forget \/ Stop \/ (\E c \in Channels : resetDiscordChannel(c))
  BY <1>4, ClicksKeep
<1>5. CASE Resume
  BY <1>5, ResumeKeeps
<1>6. CASE \E c \in Channels : Post(c)
  BY <1>6, PostKeeps
<1>7. CASE PollStarts \/ PollFetches \/ PollEnds
  BY <1>7, PollStartsKeeps, PollFetchesKeeps, PollEndsKeeps
<1>8. CASE poll.phase = "fetch" /\ \E last \in LastFetched : \E done \in First(last) .. last :
             PollAnswers(last, done)
  BY <1>8, PollAnswersKeeps
<1>9. CASE Crash
  BY <1>9, CrashKeeps
<1>10. CASE \E m \in Messages : Age(m)
  BY <1>10, AgeKeeps DEF Age
<1>11. CASE UNCHANGED discordVars
  BY <1>11, AgeKeeps DEF discordVars
<1>12. CASE \E gone \in SUBSET live.signals : SignalsGone(gone)
  BY <1>12, SignalsGoneKeeps
<1> QED BY <1>1, <1>2, <1>3, <1>4, <1>5, <1>6, <1>7, <1>8, <1>9, <1>10, <1>11, <1>12 DEF DiscordNext

\* What an answer on its way, a request being validated and the two files are to one
\* another, whatever was clicked and wherever the process ended.
THEOREM DiscordAlways == DiscordSpec => []DiscordInv
BY DiscordStarts, DiscordStepKeeps, PTL DEF DiscordSpec

\* From a channel's first page on the cursor never passes a message that was not
\* recorded (main.js:2088-2184).
THEOREM NothingSkippedAlways == DiscordSpec => []NothingSkipped
<1>1. DiscordInv => NothingSkipped
  BY DEF DiscordInv
<1> QED BY <1>1, DiscordAlways, PTL

LEMMA QuietStep ==
  ASSUME DiscordInv, [DiscordNext]_discordVars
  PROVE  \A m \in Messages :
           acted'[m] # acted[m] => (acted[m] = 0 \/ m \in forgotten) /\ m.id > before[m.channel]
<1>1. CASE acted' = acted
  BY <1>1
<1>2. CASE poll.phase = "fetch" /\ \E last \in LastFetched : \E done \in First(last) .. last :
             PollAnswers(last, done)
  BY <1>2, PollAnswersKeeps
<1>3. CASE \E c \in Channels, pasted \in BOOLEAN : Connect(c, pasted)
  BY <1>1, <1>3 DEF Connect
<1>4. CASE \E r \in connect, written \in 1 .. 3 : Validated(r, written)
  BY <1>1, <1>4 DEF Validated
<1>5. CASE \E r \in connect : NotConnected(r)
  BY <1>1, <1>5 DEF NotConnected
<1>6. CASE Disconnect \/ Forget \/ Stop \/ Resume \/ (\E c \in Channels : resetDiscordChannel(c))
  BY <1>1, <1>6 DEF Disconnect, Forget, Stop, Resume, resetDiscordChannel, Operator
<1>7. CASE (\E c \in Channels : Post(c)) \/ (\E m \in Messages : Age(m))
  BY <1>1, <1>7 DEF Post, Age
<1>8. CASE PollStarts \/ PollFetches \/ PollEnds \/ Crash \/ UNCHANGED discordVars
  BY <1>1, <1>8 DEF PollStarts, PollFetches, PollEnds, Crash, discordVars
<1>9. CASE \E gone \in SUBSET live.signals : SignalsGone(gone)
  BY <1>1, <1>9 DEF SignalsGone
<1> QED BY <1>1, <1>2, <1>3, <1>4, <1>5, <1>6, <1>7, <1>8, <1>9 DEF DiscordNext

\* History opens nothing, and no message opens anything twice while the inbox keeps
\* it (main.js:2097, discord-ingestion.js:6-24).
THEOREM HistoryIsQuietHolds == DiscordSpec => HistoryIsQuiet
<1>1. DiscordInv /\ [DiscordNext]_discordVars =>
        [\A m \in Messages :
           acted'[m] # acted[m] =>
             (acted[m] = 0 \/ m \in forgotten) /\ m.id > before[m.channel]]_discordVars
  BY QuietStep
<1> QED BY <1>1, DiscordAlways, PTL DEF DiscordSpec, HistoryIsQuiet

LEMMA TokenStep ==
  ASSUME DiscordInv, [DiscordNext]_discordVars
  PROVE  disk'.token \in {disk.token, 0, epoch}
<1>1. disk \in Memory /\ live \in Memory /\ disk.token = live.token
  BY DEF DiscordInv, DiscordTyped, FilesAgree
<1>2. ASSUME NEW d \in Memory, Dies(d) PROVE disk'.token = d.token
  BY <1>2, RestartedIs DEF Dies
<1>3. CASE disk' = disk
  BY <1>3
<1>4. CASE \E r \in connect, written \in 1 .. 3 : Validated(r, written)
  <2>1. PICK r \in connect, written \in 1 .. 3 : Validated(r, written)
    BY <1>4
  <2>2. Current(r)
    BY <2>1 DEF Validated
  <2>3. r.token \in {disk.token, epoch} /\ r.token \in Nat /\ r.channel \in Channels
    BY <1>1, <2>2 DEF DiscordInv, DiscordTyped, OneRequest, Request
  <2> PICK saved \in Memory : saved = [disk EXCEPT !.token = r.token]
    BY <1>1, <2>3 DEF Memory
  <2> PICK d \in Memory : d = [saved EXCEPT !.enabled = TRUE, !.channel = r.channel]
    BY <2>3 DEF Memory
  <2>4. saved.token = r.token /\ d.token = r.token
    BY <1>1 DEF Memory
  <2>5. CASE written = 1
    <3>1. Dies(saved)
      BY <2>1, <2>5 DEF Validated
    <3> QED BY <1>2, <2>3, <2>4, <3>1
  <2>7. CASE written = 2
    <3>1. Dies(d)
      BY <2>1, <2>7 DEF Validated
    <3> QED BY <1>2, <2>3, <2>4, <3>1
  <2>6. CASE written = 3
    <3>1. disk' = [live EXCEPT !.token = r.token, !.enabled = TRUE, !.channel = r.channel,
                     !.ready = TRUE,
                     !.runtime = IF r.channel = live.channel THEN live.runtime
                                 ELSE emptyDiscordRuntime(r.channel)]
      BY <2>1, <2>6 DEF Validated
    <3> QED BY <1>1, <2>3, <3>1 DEF Memory
  <2> QED BY <2>5, <2>6, <2>7
<1>5. CASE Disconnect \/ Forget \/ Stop \/ Resume \/ (\E c \in Channels : resetDiscordChannel(c))
  <2>1. CASE Disconnect
    BY <1>1, <2>1 DEF Disconnect, Operator, Memory
  <2>2. CASE Forget
    BY <1>1, <2>2 DEF Forget, Operator, Memory
  <2>3. CASE Stop
    BY <1>1, <2>3 DEF Stop, Operator, Memory
  <2>4. CASE Resume
    BY <1>1, <2>4 DEF Resume, Operator, Memory
  <2>5. CASE \E c \in Channels : resetDiscordChannel(c)
    BY <1>1, <2>5 DEF resetDiscordChannel, Operator, Memory
  <2> QED BY <1>5, <2>1, <2>2, <2>3, <2>4, <2>5
<1>6. CASE poll.phase = "fetch" /\ \E last \in LastFetched : \E done \in First(last) .. last :
             PollAnswers(last, done)
  <2>9. PICK last \in LastFetched : \E done \in First(last) .. last : PollAnswers(last, done)
    BY <1>6
  <2>1. PICK done \in First(last) .. last : PollAnswers(last, done)
    BY <2>9
  <2>2. /\ poll \in Fetch /\ poll.channel = live.channel /\ First(last) \in Nat /\ last \in Nat
        /\ live.channel \in Channels
    BY <1>6, <2>1, AnswerFinds, MemoryIs DEF PollAnswers
  <2> DEFINE batch == {[channel |-> poll.channel, id |-> i] : i \in First(last) + 1 .. done}
  <2>3. batch \subseteq News
    BY <2>2 DEF News
  <2> HIDE DEF batch
  <2>4. live.signals \cup batch \in SUBSET News
    BY <1>1, <2>3 DEF Memory
  <2> PICK recorded \in Memory : recorded = [live EXCEPT !.signals = @ \cup batch]
    BY <1>1, <2>4 DEF Memory
  <2>5. recorded.token = live.token
    BY <1>1 DEF Memory
  <2>6. Dies(recorded) \/ \E rt : disk' = [recorded EXCEPT !.runtime = rt]
    BY <2>1 DEF PollAnswers, batch
  <2>7. CASE Dies(recorded)
    BY <1>1, <1>2, <2>5, <2>7
  <2>8. CASE \E rt : disk' = [recorded EXCEPT !.runtime = rt]
    BY <1>1, <2>5, <2>8 DEF Memory
  <2> QED BY <2>6, <2>7, <2>8
<1>7. CASE Crash
  BY <1>1, <1>2, <1>7 DEF Crash
<1>8. CASE \/ \E c \in Channels, pasted \in BOOLEAN : Connect(c, pasted)
           \/ \E r \in connect : NotConnected(r)
  BY <1>3, <1>8 DEF Connect, NotConnected
<1>9. CASE (\E c \in Channels : Post(c)) \/ (\E m \in Messages : Age(m))
  BY <1>3, <1>9 DEF Post, Age
<1>10. CASE PollStarts \/ PollFetches \/ PollEnds \/ UNCHANGED discordVars
  BY <1>3, <1>10 DEF PollStarts, PollFetches, PollEnds, discordVars
<1>11. CASE \E gone \in SUBSET live.signals : SignalsGone(gone)
  BY <1>1, <1>11 DEF SignalsGone, Memory
<1> QED BY <1>4, <1>5, <1>6, <1>7, <1>8, <1>9, <1>10, <1>11 DEF DiscordNext

\* "A slow validation cannot restore a credential the user removed while it was in
\* flight" (main.js:3612-3614).
THEOREM RemovedStaysRemovedHolds == DiscordSpec => RemovedStaysRemoved
<1>1. DiscordInv /\ [DiscordNext]_discordVars => [disk'.token \in {disk.token, 0, epoch}]_discordVars
  BY TokenStep
<1> QED BY <1>1, DiscordAlways, PTL DEF DiscordSpec, RemovedStaysRemoved

-----------------------------------------------------------------------------
(* The scan, step by step.                                                 *)

LEMMA ProcessedIs ==
  ASSUME ScanTyped, NEW r \in Runs
  PROVE  Processed(r) \in Nat
<1>1. IsFiniteSet(Followed \ run[r].todo)
  BY FS_Subset, ScanAssumption
<1> QED BY <1>1, FS_CardinalityType DEF Processed

LEMMA ScanStarts == ASSUME ScanInit PROVE ScanInv
<1>1. import = Empty /\ file = Empty /\ run = [r \in Runs |-> NotRunning]
  BY DEF ScanInit
<1>2. Empty \in Import /\ Empty.staging = {} /\ Empty.scan = 0
  BY DEF Empty, Import, States
<1>3. NotRunning \in Page /\ NotRunning.held = {} /\ NotRunning.scan = 0
  BY DEF NotRunning, Page, Phases
<1>4. run \in [Runs -> Page] /\ \A r \in Runs : run[r].held = {} /\ run[r].scan = 0
  BY <1>1, <1>3
<1>5. ScanTyped
  BY <1>1, <1>2, <1>4 DEF ScanTyped
<1>6. FileLags /\ StagedForThis /\ HeldIsStaged
  BY <1>1, <1>2, <1>4 DEF FileLags, StagedForThis, HeldIsStaged
<1> QED BY <1>5, <1>6 DEF ScanInv

\* A write of the file.
LEMMA WritesIs ==
  ASSUME NEW d \in Import, Writes(d)
  PROVE  /\ import' \in Import /\ file' = import'
         /\ import'.scan = d.scan /\ import'.state = d.state /\ import'.expired = d.expired
         /\ import'.items = d.items /\ import'.staging = d.staging
BY DEF Writes, Import

LEMMA WrittenKeeps ==
  ASSUME ScanInv, NEW d \in Import, Writes(d), UNCHANGED run,
         import.scan <= d.scan, \A i \in d.staging : i.scan = d.scan,
         d.scan = import.scan => ~Active(d) \/ (Active(import) /\ import.staging \subseteq d.staging)
  PROVE  ScanInv'
<1>1. /\ import' \in Import /\ file' = import'
      /\ import'.scan = d.scan /\ import'.state = d.state /\ import'.expired = d.expired
      /\ import'.items = d.items /\ import'.staging = d.staging
  BY WritesIs
<1>2. ScanTyped' /\ FileLags' /\ StagedForThis'
  BY <1>1 DEF ScanInv, ScanTyped, FileLags, StagedForThis
<1>3. ASSUME NEW r \in Runs
      PROVE  /\ run[r].scan <= d.scan
             /\ Active(d) /\ run[r].scan = d.scan => run[r].held \subseteq ProductsOf(d.staging)
  <2>1. run[r].scan \in Nat /\ import.scan \in Nat /\ d.scan \in Nat /\ run[r].scan <= import.scan
    BY DEF ScanInv, ScanTyped, Page, Import, HeldIsStaged
  <2>2. ASSUME Active(d), run[r].scan = d.scan PROVE run[r].held \subseteq ProductsOf(d.staging)
    <3>1. d.scan = import.scan /\ Active(import) /\ import.staging \subseteq d.staging
      BY <2>1, <2>2
    <3>2. run[r].held \subseteq ProductsOf(import.staging)
      BY <2>2, <3>1 DEF ScanInv, HeldIsStaged
    <3> QED BY <3>1, <3>2 DEF ProductsOf
  <2> QED BY <2>1, <2>2
<1>4. HeldIsStaged'
  BY <1>1, <1>3 DEF HeldIsStaged, Active
<1> QED BY <1>2, <1>4 DEF ScanInv

LEMMA ImportIs == ASSUME ScanInv PROVE import \in Import /\ import.scan \in Nat /\ file \in Import
BY DEF ScanInv, ScanTyped, Import

LEMMA StartScanKeeps == ASSUME ScanInv, StartScan PROVE ScanInv'
<1> PICK none \in SUBSET Item : none = {}
  OBVIOUS
<1> PICK n \in Nat : n = import.scan + 1
  BY ImportIs
<1>1. PICK d : d = Fresh(import)
  OBVIOUS
<1>2. d = [import EXCEPT !.scan = n, !.state = "waiting", !.expired = FALSE, !.staging = none]
  BY <1>1, ImportIs DEF Fresh, Import
<1>4. d \in Import /\ d.scan = import.scan + 1 /\ d.staging = {}
  BY <1>2, ImportIs DEF Import, States
<1>3. Writes(d) /\ UNCHANGED run
  BY <1>1 DEF StartScan
<1> QED BY <1>4, <1>3, ImportIs, WrittenKeeps

LEMMA CancelledIs ==
  ASSUME ScanInv
  PROVE  /\ Cancelled(import) \in Import /\ Cancelled(import).scan = import.scan
         /\ Cancelled(import).items = import.items
         /\ Cancelled(import).staging \subseteq import.staging /\ ~Active(Cancelled(import))
BY ImportIs DEF Cancelled, Import, States, Active

LEMMA CancelKeeps == ASSUME ScanInv, CancelScan \/ StartTimesOut PROVE ScanInv'
<1>1. PICK d : d = Cancelled(import)
  OBVIOUS
<1>2. Writes(d) /\ UNCHANGED run
  BY <1>1 DEF CancelScan, StartTimesOut
<1>3. d \in Import /\ d.scan = import.scan /\ d.staging \subseteq import.staging /\ ~Active(d)
  BY <1>1, CancelledIs
<1> QED BY <1>2, <1>3, ImportIs, WrittenKeeps DEF ScanInv, StagedForThis

LEMMA ClearKeeps == ASSUME ScanInv, ClearScan PROVE ScanInv'
<1>1. PICK d : d = [Empty EXCEPT !.scan = import.scan]
  OBVIOUS
<1>2. d \in Import /\ d.scan = import.scan /\ d.staging = {} /\ ~Active(d)
  BY <1>1, ImportIs DEF Empty, Import, States, Active
<1>3. Writes(d) /\ UNCHANGED run
  BY <1>1 DEF ClearScan
<1> QED BY <1>2, <1>3, ImportIs, WrittenKeeps

LEMMA ExpiresKeeps == ASSUME ScanInv, Expires PROVE ScanInv'
<1>1. /\ import' = [import EXCEPT !.expired = TRUE] /\ file' = [file EXCEPT !.expired = TRUE]
      /\ UNCHANGED run
  BY DEF Expires
<1>2. /\ import' \in Import /\ file' \in Import /\ import'.expired = file'.expired
      /\ import'.scan = import.scan /\ import'.state = import.state /\ import'.items = import.items
      /\ import'.staging = import.staging
      /\ file'.scan = file.scan /\ file'.state = file.state /\ file'.items = file.items
      /\ file'.staging = file.staging
  BY <1>1, ImportIs DEF Import
<1> QED BY <1>1, <1>2 DEF ScanInv, ScanTyped, FileLags, StagedForThis, HeldIsStaged, Active

\* Pages know what the file they come back to does not have.
LEMMA RestartScanKeeps == ASSUME ScanInv, Restart PROVE ScanInv' /\ import'.items = import.items
<1> PICK loaded : loaded = IF Active(file) /\ file.expired THEN [file EXCEPT !.state = "error"] ELSE file
  OBVIOUS
<1> PICK kept : kept = ProductsOf(file.staging)
  OBVIOUS
<1>1. Writes(loaded) /\ run' = [r \in Runs |-> [run[r] EXCEPT !.held = @ \cap kept]]
  BY DEF Restart, ProductsOf
<1>2. /\ loaded \in Import /\ loaded.scan = import.scan /\ loaded.items = import.items
      /\ loaded.staging = file.staging /\ (loaded = file \/ ~Active(loaded))
  BY ImportIs DEF ScanInv, FileLags, Import, States, Active
<1>3. /\ import' \in Import /\ file' = import'
      /\ import'.scan = import.scan /\ import'.state = loaded.state
      /\ import'.items = import.items /\ import'.staging = file.staging
  BY <1>1, <1>2, WritesIs
<1>4. ASSUME NEW r \in Runs
      PROVE  run'[r] \in Page /\ run'[r].scan = run[r].scan /\ run'[r].held \subseteq kept
  <2>1. run[r] \in Page /\ run'[r] = [run[r] EXCEPT !.held = @ \cap kept]
    BY <1>1 DEF ScanInv, ScanTyped
  <2> QED BY <2>1 DEF Page
<1>5. run' \in [Runs -> Page]
  BY <1>1, <1>4
<1>6. ScanTyped' /\ FileLags' /\ StagedForThis'
  BY <1>3, <1>5 DEF ScanInv, ScanTyped, FileLags, StagedForThis
<1>7. HeldIsStaged'
  BY <1>3, <1>4 DEF ScanInv, HeldIsStaged
<1> QED BY <1>3, <1>6, <1>7 DEF ScanInv

-----------------------------------------------------------------------------
(* Captures.                                                               *)

Kinds == {"started", "inventory", "progress", "product", "complete", "error"}

LEMMA StagedIs ==
  ASSUME ScanInv, NEW r \in Runs, Accepts(r)
  PROVE  /\ Staged(r) \in SUBSET Item /\ \A i \in Staged(r) : i.scan = import.scan
         /\ ProductsOf(import.staging) \subseteq ProductsOf(Staged(r))
         /\ run[r].at \subseteq ProductsOf(Staged(r))
<1>1. run[r].scan = import.scan /\ import.scan \in Nat /\ run[r].at \subseteq Followed
      /\ import.staging \subseteq Item
  BY ImportIs DEF Accepts, ScanInv, ScanTyped, Page, Import
<1> PICK at \in SUBSET Followed, n \in Nat : at = run[r].at /\ n = run[r].scan
  BY <1>1
<1> DEFINE new == [product : at, scan : {n}]
<1>2. Staged(r) = {i \in import.staging : i.product \notin at} \cup new
  BY DEF Staged
<1>3. new \subseteq Item /\ \A i \in new : i.scan = import.scan /\ i.product \in at
  BY <1>1 DEF Item
<1>4. \A p \in at : \E i \in new : i.product = p
  <2>1. ASSUME NEW p \in at PROVE \E i \in new : i.product = p
    <3>1. [product |-> p, scan |-> n] \in new
      OBVIOUS
    <3> QED BY <3>1
  <2> QED BY <2>1
<1> HIDE DEF new
<1>5. at \subseteq ProductsOf(Staged(r))
  BY <1>2, <1>4 DEF ProductsOf
<1>6. ASSUME NEW i \in import.staging PROVE i.product \in ProductsOf(Staged(r))
  BY <1>2, <1>5 DEF ProductsOf
<1>7. ProductsOf(import.staging) \subseteq ProductsOf(Staged(r))
  BY <1>6 DEF ProductsOf
<1>8. Staged(r) \in SUBSET Item /\ \A i \in Staged(r) : i.scan = import.scan
  BY <1>1, <1>2, <1>3 DEF ScanInv, StagedForThis
<1> QED BY <1>5, <1>7, <1>8

\* What an accepted capture makes of the scan.
LEMMA AcceptedIs ==
  ASSUME ScanInv, NEW r \in Runs, NEW kind \in Kinds, Accepts(r), Accepted(r, kind)
  PROVE  /\ import' \in Import /\ file' \in Import
         /\ import'.scan = import.scan /\ import'.expired = import.expired
         /\ Active(import)' => kind \notin {"complete", "error"}
         /\ kind \notin {"product", "complete", "error"} => import'.staging = import.staging
         /\ kind = "product" => import'.staging = Staged(r)
         /\ kind \in {"complete", "error"} => import'.staging = {}
         /\ kind = "complete" => import'.items = import.staging /\ import'.state = "complete"
         /\ kind # "complete" => import'.items = import.items
         /\ \/ file' = import'
            \/ file' = file /\ kind \in {"product", "progress"} /\ import'.state = import.state
<1> PICK staged \in SUBSET Item : staged = Staged(r)
  BY StagedIs
<1> PICK n \in Nat : n = Processed(r)
  BY ProcessedIs DEF ScanInv
<1>1. import \in Import /\ file \in Import
  BY ImportIs
<1> PICK d : d = CASE kind = "started" -> [import EXCEPT !.state = "scanning"]
             [] kind = "product" -> [import EXCEPT !.staging = staged, !.since = @ + 1]
             [] kind = "complete" -> [import EXCEPT !.state = "complete", !.items = import.staging,
                                                  !.staging = {}]
             [] kind = "error" -> [import EXCEPT !.state = "error", !.staging = {}]
             [] kind \in {"inventory", "progress"} -> import
  OBVIOUS
<1>2. /\ d \in Import /\ d.scan = import.scan /\ d.expired = import.expired
      /\ kind = "complete" => d.state = "complete" /\ d.items = import.staging
      /\ kind = "error" => d.state = "error"
      /\ kind \in {"complete", "error"} => d.staging = {}
      /\ kind = "product" => d.staging = staged
      /\ kind \notin {"product", "complete", "error"} => d.staging = import.staging
      /\ kind # "complete" => d.items = import.items
      /\ kind \in {"product", "progress"} => d.state = import.state
  <2>1. CASE kind = "started"
    BY <1>1, <2>1 DEF Import, States
  <2>2. CASE kind = "product"
    <3> PICK k \in Nat : k = import.since + 1
      BY <1>1 DEF Import
    <3>1. d = [import EXCEPT !.staging = staged, !.since = k]
      BY <1>1, <2>2 DEF Import
    <3> QED BY <1>1, <2>2, <3>1 DEF Import, States
  <2>3. CASE kind = "complete"
    BY <1>1, <2>3 DEF Import, States
  <2>4. CASE kind = "error"
    BY <1>1, <2>4 DEF Import, States
  <2>5. CASE kind \in {"inventory", "progress"}
    BY <1>1, <2>5 DEF Import, States
  <2> QED BY <2>1, <2>2, <2>3, <2>4, <2>5 DEF Kinds
<1>3. PICK mark \in Nat :
        \/ import' = [d EXCEPT !.since = 0, !.mark = mark] /\ file' = import'
        \/ import' = d /\ file' = file /\ kind \in {"product", "progress"}
  <2>1. \/ import' = [d EXCEPT !.since = 0, !.mark = IF kind \in {"product", "progress"} THEN n ELSE 0]
           /\ file' = import'
        \/ import' = d /\ file' = file
           /\ kind \notin {"started", "inventory", "complete", "error"}
    BY DEF Accepted
  <2> QED BY <2>1 DEF Kinds
<1>4. /\ import' \in Import
      /\ import'.scan = d.scan /\ import'.state = d.state /\ import'.expired = d.expired
      /\ import'.items = d.items /\ import'.staging = d.staging
  <2>1. CASE import' = d
    BY <1>2, <2>1 DEF Import
  <2>2. CASE import' = [d EXCEPT !.since = 0, !.mark = mark]
    BY <1>2, <2>2 DEF Import
  <2> QED BY <1>3, <2>1, <2>2
<1> QED BY <1>1, <1>2, <1>3, <1>4 DEF Active, Kinds

LEMMA PostsKeeps ==
  ASSUME ScanInv, NEW r \in Runs, NEW kind \in Kinds, NEW heard \in Page, NEW unheard \in Page,
         Posts(r, kind, heard, unheard),
         \A page \in {heard, unheard} : page.scan = run[r].scan \/ (page.scan = 0 /\ page.held = {}),
         unheard.held \subseteq run[r].held,
         heard.held \subseteq run[r].held \cup (IF kind = "product" THEN run[r].at ELSE {})
  PROVE  ScanInv'
<1>1. PICK page \in {heard, unheard} : run' = [run EXCEPT ![r] = page]
        /\ \/ Accepts(r) /\ Accepted(r, kind)
           \/ ~Accepts(r) /\ UNCHANGED <<import, file>> /\ page = unheard
  BY DEF Posts
<1>2. run \in [Runs -> Page]
  BY DEF ScanInv, ScanTyped
<1>3. page \in Page /\ run' \in [Runs -> Page] /\ run'[r] = page
      /\ \A s \in Runs \ {r} : run'[s] = run[s]
  BY <1>1, <1>2
<1>4. import.scan \in Nat
  BY ImportIs
<1>5. CASE ~Accepts(r) /\ UNCHANGED <<import, file>> /\ page = unheard
  <2>1. ScanTyped' /\ FileLags' /\ StagedForThis'
    BY <1>3, <1>5 DEF ScanInv, ScanTyped, FileLags, StagedForThis
  <2>2. ASSUME NEW s \in Runs
        PROVE  /\ run'[s].scan <= import.scan
               /\ Active(import) /\ run'[s].scan = import.scan =>
                    run'[s].held \subseteq ProductsOf(import.staging)
    BY <1>3, <1>4, <1>5 DEF ScanInv, HeldIsStaged
  <2>3. HeldIsStaged'
    BY <1>5, <2>2 DEF HeldIsStaged, Active
  <2> QED BY <2>1, <2>3 DEF ScanInv
<1>6. CASE Accepts(r) /\ Accepted(r, kind)
  <2>1. /\ import' \in Import /\ file' \in Import
        /\ import'.scan = import.scan /\ import'.expired = import.expired
        /\ Active(import)' => kind \notin {"complete", "error"}
        /\ kind \notin {"product", "complete", "error"} => import'.staging = import.staging
        /\ kind = "product" => import'.staging = Staged(r)
        /\ kind \in {"complete", "error"} => import'.staging = {}
        /\ kind # "complete" => import'.items = import.items
        /\ \/ file' = import'
           \/ file' = file /\ kind \in {"product", "progress"} /\ import'.state = import.state
    BY <1>6, AcceptedIs
  <2>2. /\ \A i \in Staged(r) : i.scan = import.scan
        /\ ProductsOf(import.staging) \subseteq ProductsOf(Staged(r))
        /\ run[r].at \subseteq ProductsOf(Staged(r))
    BY <1>6, StagedIs
  <2>3. ScanTyped'
    BY <1>3, <2>1 DEF ScanTyped
  <2>4. FileLags'
    BY <2>1 DEF ScanInv, FileLags
  <2>5. StagedForThis'
    <3>1. \A i \in import'.staging : i.scan = import.scan
      BY <2>1, <2>2 DEF ScanInv, StagedForThis
    <3> QED BY <2>1, <3>1 DEF ScanInv, StagedForThis
  <2>6. Active(import) /\ run[r].scan = import.scan
    BY <1>6 DEF Accepts
  <2>7. ASSUME NEW s \in Runs
        PROVE  /\ run'[s].scan <= import.scan
               /\ Active(import)' /\ run'[s].scan = import.scan =>
                    run'[s].held \subseteq ProductsOf(import'.staging)
    <3>1. run'[s].scan <= import.scan
      BY <1>3, <1>4 DEF ScanInv, HeldIsStaged
    <3>2. ASSUME Active(import)', run'[s].scan = import.scan
          PROVE  run'[s].held \subseteq ProductsOf(import'.staging)
      <4>1. ProductsOf(import.staging) \subseteq ProductsOf(import'.staging)
            /\ (kind = "product" => run[r].at \subseteq ProductsOf(import'.staging))
        BY <2>1, <2>2, <3>2
      <4>2. CASE s # r
        BY <1>3, <2>6, <3>2, <4>1, <4>2 DEF ScanInv, HeldIsStaged
      <4>3. CASE s = r
        <5>1. run[r].held \subseteq ProductsOf(import.staging)
          BY <2>6 DEF ScanInv, HeldIsStaged
        <5>2. page.held \subseteq run[r].held \cup (IF kind = "product" THEN run[r].at ELSE {})
          BY <1>1
        <5> QED BY <1>3, <4>1, <4>3, <5>1, <5>2
      <4> QED BY <4>2, <4>3
    <3> QED BY <3>1, <3>2
  <2>8. HeldIsStaged'
    BY <2>1, <2>7 DEF HeldIsStaged
  <2> QED BY <2>3, <2>4, <2>5, <2>8 DEF ScanInv
<1> QED BY <1>1, <1>5, <1>6

-----------------------------------------------------------------------------
(* Pages.                                                                  *)

\* A page that goes on without posting.
LEMMA PageKeeps ==
  ASSUME ScanInv, NEW r \in Runs, NEW page \in Page, run' = [run EXCEPT ![r] = page],
         UNCHANGED <<import, file>>, page.scan <= import.scan,
         page.held = {} \/ (page.scan = run[r].scan /\ page.held \subseteq run[r].held)
  PROVE  ScanInv'
<1>1. run' \in [Runs -> Page] /\ run'[r] = page /\ \A s \in Runs \ {r} : run'[s] = run[s]
  BY DEF ScanInv, ScanTyped
<1>2. ScanTyped' /\ FileLags' /\ StagedForThis'
  BY <1>1 DEF ScanInv, ScanTyped, FileLags, StagedForThis
<1>3. ASSUME NEW s \in Runs
      PROVE  /\ run'[s].scan <= import.scan
             /\ Active(import) /\ run'[s].scan = import.scan =>
                  run'[s].held \subseteq ProductsOf(import.staging)
  BY <1>1 DEF ScanInv, HeldIsStaged
<1>4. HeldIsStaged'
  BY <1>3 DEF HeldIsStaged, Active
<1> QED BY <1>2, <1>4 DEF ScanInv

LEMMA GivesIs ==
  ASSUME ScanInv, NEW r \in Runs, NEW phase \in Phases
  PROVE  /\ Gives(r, phase) \in Page /\ Gives(r, phase).scan = run[r].scan
         /\ Gives(r, phase).held = run[r].held /\ Gives(r, phase).todo = run[r].todo
         /\ run[r] \in Page /\ run[r].scan <= import.scan /\ run[r].scan \in Nat
BY DEF Gives, Page, ScanInv, ScanTyped, HeldIsStaged

LEMMA DoneIs ==
  ASSUME ScanInv, NEW r \in Runs, NEW phase \in Phases
  PROVE  /\ Done(r, phase) \in Page /\ Done(r, phase).scan = run[r].scan
         /\ Done(r, phase).held = run[r].held
<1> PICK g \in Page : g = Gives(r, phase)
  BY GivesIs
<1> PICK rest \in SUBSET Followed : rest = g.todo \ run[r].at
  BY DEF Page
<1>1. Done(r, phase) = [g EXCEPT !.todo = rest]
  BY DEF Done, Page
<1>2. g.scan = run[r].scan /\ g.held = run[r].held
  BY GivesIs
<1> QED BY <1>1, <1>2 DEF Page

LEMMA NotRunningIs == NotRunning \in Page /\ NotRunning.scan = 0 /\ NotRunning.held = {}
BY DEF NotRunning, Page, Phases

LEMMA LooksKeep == ASSUME ScanInv, NEW r \in Runs, Look(r) \/ Claim(r) PROVE ScanInv'
<1>1. CASE Look(r)
  <2> PICK page : page = [NotRunning EXCEPT !.phase = "looking", !.scan = import.scan]
    OBVIOUS
  <2>0. import.scan \in Nat
    BY ImportIs
  <2>4. page \in Page /\ page.scan = import.scan /\ page.held = {}
    BY <2>0, NotRunningIs DEF Page, Phases
  <2>1. page \in Page /\ page.scan <= import.scan /\ page.held = {}
    BY <2>0, <2>4
  <2>2. run' = [run EXCEPT ![r] = page] /\ UNCHANGED <<import, file>>
    BY <1>1 DEF Look
  <2> QED BY <2>1, <2>2, PageKeeps
<1>2. CASE Claim(r)
  <2>1. PICK page \in {Gives(r, "begin"), NotRunning} :
          run' = [run EXCEPT ![r] = page] /\ UNCHANGED <<import, file>>
    BY <1>2 DEF Claim
  <2>2. "begin" \in Phases
    BY DEF Phases
  <2>3. page \in Page /\ page.scan <= import.scan
        /\ (page.held = {} \/ (page.scan = run[r].scan /\ page.held = run[r].held))
    BY <2>2, GivesIs, NotRunningIs, ImportIs
  <2> QED BY <2>1, <2>3, PageKeeps
<1> QED BY <1>1, <1>2

LEMMA FailuresKeep == ASSUME ScanInv, NEW r \in Runs, Fails(r) \/ Unreadable(r) PROVE ScanInv'
<1>1. PICK page \in {Gives(r, "failing"), Done(r, "skip")} :
        run' = [run EXCEPT ![r] = page] /\ UNCHANGED <<import, file>>
  BY DEF Fails, Unreadable
<1>2. "failing" \in Phases /\ "skip" \in Phases
  BY DEF Phases
<1>3. page \in Page /\ page.scan = run[r].scan /\ page.held = run[r].held
  BY <1>2, GivesIs, DoneIs
<1>4. page.scan <= import.scan
  BY <1>3, <1>2, GivesIs
<1> QED BY <1>1, <1>3, <1>4, PageKeeps

LEMMA PhasesAre == {"inventory", "next", "read", "skip", "failing"} \subseteq Phases
BY DEF Phases

LEMMA ReportKeeps ==
  ASSUME ScanInv, NEW r \in Runs, NEW kind \in Kinds, NEW heard \in Page, NEW unheard \in Page,
         Posts(r, kind, heard, unheard),
         heard.scan = run[r].scan, unheard.scan = run[r].scan,
         heard.held = run[r].held, unheard.held = run[r].held
  PROVE  ScanInv'
<1>1. \A page \in {heard, unheard} : page.scan = run[r].scan \/ (page.scan = 0 /\ page.held = {})
  OBVIOUS
<1>2. heard.held \subseteq run[r].held \cup (IF kind = "product" THEN run[r].at ELSE {})
  OBVIOUS
<1> QED BY <1>1, <1>2, PostsKeeps

LEMMA ProductReportKeeps ==
  ASSUME ScanInv, NEW r \in Runs, NEW kind \in Kinds, kind = "product",
         NEW heard \in Page, NEW unheard \in Page, Posts(r, kind, heard, unheard),
         heard.scan = run[r].scan, unheard.scan = run[r].scan,
         heard.held = run[r].held \cup run[r].at, unheard.held = run[r].held
  PROVE  ScanInv'
<1>1. \A page \in {heard, unheard} : page.scan = run[r].scan \/ (page.scan = 0 /\ page.held = {})
  OBVIOUS
<1>2. heard.held \subseteq run[r].held \cup (IF kind = "product" THEN run[r].at ELSE {})
  OBVIOUS
<1>3. unheard.held \subseteq run[r].held
  OBVIOUS
<1> QED BY <1>1, <1>2, <1>3, PostsKeeps

\* The page that goes on, whether it hears that its capture was accepted or not.
LEMMA ReportsKeep ==
  ASSUME ScanInv, NEW r \in Runs,
         Started(r) \/ Inventory(r) \/ (\E p \in Followed : ReadNext(r, p)) \/ Product(r) \/ Skip(r)
  PROVE  ScanInv'
<1>1. ASSUME NEW phase \in Phases
      PROVE  Gives(r, phase) \in Page /\ Gives(r, phase).scan = run[r].scan
             /\ Gives(r, phase).held = run[r].held
  BY GivesIs
<1> PICK failing \in Page : failing = Gives(r, "failing")
  BY <1>1, PhasesAre
<1>2. failing.scan = run[r].scan /\ failing.held = run[r].held
  BY <1>1, PhasesAre
<1> PICK next \in Page : next = Gives(r, "next")
  BY <1>1, PhasesAre
<1>3. next.scan = run[r].scan /\ next.held = run[r].held
  BY <1>1, PhasesAre
<1>4. CASE Started(r)
  <2> PICK page \in Page : page = Gives(r, "inventory")
    BY <1>1, PhasesAre
  <2>1. page.scan = run[r].scan /\ page.held = run[r].held
    BY <1>1, PhasesAre
  <2>2. Posts(r, "started", page, failing) /\ "started" \in Kinds
    BY <1>4 DEF Started, Kinds
  <2> QED BY <1>2, <2>1, <2>2, ReportKeeps
<1>5. CASE Inventory(r)
  <2> PICK page \in Page : page = [next EXCEPT !.todo = Followed]
    BY DEF Page
  <2>1. page.scan = run[r].scan /\ page.held = run[r].held
    BY <1>3 DEF Page
  <2>2. Posts(r, "inventory", page, failing) /\ "inventory" \in Kinds
    BY <1>5 DEF Inventory, Kinds
  <2> QED BY <1>2, <2>1, <2>2, ReportKeeps
<1>6. CASE \E p \in Followed : ReadNext(r, p)
  <2> PICK p \in Followed : ReadNext(r, p)
    BY <1>6
  <2> PICK reading \in Page : reading = Gives(r, "read")
    BY <1>1, PhasesAre
  <2> PICK page \in Page : page = [reading EXCEPT !.at = {p}]
    BY DEF Page
  <2>1. page.scan = run[r].scan /\ page.held = run[r].held
    BY <1>1, PhasesAre DEF Page
  <2>2. Posts(r, "progress", page, failing) /\ "progress" \in Kinds
    BY DEF ReadNext, Kinds
  <2> QED BY <1>2, <2>1, <2>2, ReportKeeps
<1>7. CASE Product(r)
  <2> PICK done \in Page, skip \in Page : done = Done(r, "next") /\ skip = Done(r, "skip")
    BY DoneIs, PhasesAre
  <2>1. done.scan = run[r].scan /\ done.held = run[r].held
        /\ skip.scan = run[r].scan /\ skip.held = run[r].held
    BY DoneIs, PhasesAre
  <2> PICK more \in SUBSET Followed : more = done.held \cup run[r].at
    BY GivesIs, PhasesAre DEF Page
  <2> PICK none \in SUBSET Followed : none = {}
    OBVIOUS
  <2> PICK page \in Page : page = [done EXCEPT !.held = more, !.at = none]
    BY DEF Page
  <2>2. page.scan = run[r].scan /\ page.held = more
    BY <2>1 DEF Page
  <2>3. page = [done EXCEPT !.held = @ \cup run[r].at, !.at = {}]
    BY DEF Page
  <2>4. Posts(r, "product", page, skip) /\ "product" \in Kinds
    BY <1>7, <2>3 DEF Product, Kinds
  <2>5. page.held = run[r].held \cup run[r].at
    BY <2>1, <2>2
  <2> QED BY <2>1, <2>2, <2>4, <2>5, ProductReportKeeps
<1>8. CASE Skip(r)
  <2> PICK none \in SUBSET Followed : none = {}
    OBVIOUS
  <2> PICK page \in Page : page = [next EXCEPT !.at = none]
    BY DEF Page
  <2>1. page.scan = run[r].scan /\ page.held = run[r].held
    BY <1>3 DEF Page
  <2>2. Posts(r, "progress", page, failing) /\ "progress" \in Kinds
    BY <1>8 DEF Skip, Kinds
  <2> QED BY <1>2, <2>1, <2>2, ReportKeeps
<1> QED BY <1>4, <1>5, <1>6, <1>7, <1>8

LEMMA EndsKeep == ASSUME ScanInv, NEW r \in Runs, Complete(r) \/ Failing(r) PROVE ScanInv'
<1>1. /\ NotRunning \in Page /\ NotRunning.scan = 0 /\ NotRunning.held = {}
      /\ Gives(r, "failing") \in Page /\ Gives(r, "failing").scan = run[r].scan
      /\ Gives(r, "failing").held = run[r].held
      /\ "complete" \in Kinds /\ "error" \in Kinds
  BY NotRunningIs, GivesIs, PhasesAre DEF Kinds
<1>2. CASE Complete(r)
  <2>1. Posts(r, "complete", NotRunning, Gives(r, "failing"))
    BY <1>2 DEF Complete
  <2> QED BY <1>1, <2>1, PostsKeeps
<1>3. CASE Failing(r) /\ Posts(r, "error", NotRunning, NotRunning)
  BY <1>1, <1>3, PostsKeeps
<1>4. CASE run' = [run EXCEPT ![r] = NotRunning] /\ UNCHANGED <<import, file>>
  <2>1. NotRunning.scan <= import.scan
    BY <1>1, ImportIs
  <2> QED BY <1>1, <1>4, <2>1, PageKeeps
<1> QED BY <1>2, <1>3, <1>4 DEF Failing

LEMMA ScanAside == ASSUME ScanInv, UNCHANGED <<import, file, run>> PROVE ScanInv'
BY DEF ScanInv, ScanTyped, FileLags, StagedForThis, HeldIsStaged, Active

LEMMA ScanStepKeeps == ASSUME ScanInv, [ScanNext]_scanVars PROVE ScanInv'
<1>1. CASE StartScan \/ CancelScan \/ StartTimesOut \/ ClearScan \/ Expires \/ Restart
  BY <1>1, StartScanKeeps, CancelKeeps, ClearKeeps, ExpiresKeeps, RestartScanKeeps
<1>2. CASE StartSeen \/ OwnerForgotten \/ UNCHANGED scanVars
  BY <1>2, ScanAside DEF StartSeen, OwnerForgotten, scanVars
<1>3. CASE \E r \in Runs : Look(r) \/ Claim(r) \/ Fails(r) \/ Unreadable(r)
  BY <1>3, LooksKeep, FailuresKeep
<1>4. CASE \E r \in Runs : \/ Started(r) \/ Inventory(r) \/ (\E p \in Followed : ReadNext(r, p))
                           \/ Product(r) \/ Skip(r)
  BY <1>4, ReportsKeep
<1>5. CASE \E r \in Runs : Complete(r) \/ Failing(r)
  BY <1>5, EndsKeep
<1> QED BY <1>1, <1>2, <1>3, <1>4, <1>5 DEF ScanNext

\* Memory, file and pages agree on what is staged for the scan under way.
THEOREM ScanAlways == ScanSpec => []ScanInv
BY ScanStarts, ScanStepKeeps, PTL DEF ScanSpec

-----------------------------------------------------------------------------
(* The collection.                                                         *)

Whole ==
  import'.items # import.items /\ import'.state # "none" =>
    /\ import'.state = "complete"
    /\ \A i \in import'.items : i.scan = import'.scan
    /\ \E r \in Runs : /\ run[r].todo = {} /\ run[r].scan = import'.scan
                       /\ run[r].held \subseteq {i.product : i \in import'.items}

LEMMA PostsWhole ==
  ASSUME ScanInv, NEW r \in Runs, NEW kind \in Kinds, NEW heard, NEW unheard,
         Posts(r, kind, heard, unheard), kind = "complete" => run[r].todo = {}
  PROVE  Whole
<1>1. CASE UNCHANGED import
  BY <1>1 DEF Whole
<1>2. CASE Accepts(r) /\ Accepted(r, kind)
  <2>1. /\ import'.scan = import.scan
        /\ kind = "complete" => import'.items = import.staging /\ import'.state = "complete"
        /\ kind # "complete" => import'.items = import.items
    BY <1>2, AcceptedIs
  <2>2. CASE kind = "complete"
    <3>1. run[r].scan = import.scan /\ Active(import)
      BY <1>2 DEF Accepts
    <3>2. run[r].held \subseteq {i.product : i \in import.staging}
      BY <3>1 DEF ScanInv, HeldIsStaged, ProductsOf
    <3>3. \A i \in import.staging : i.scan = import.scan
      BY DEF ScanInv, StagedForThis
    <3> QED BY <2>1, <2>2, <3>1, <3>2, <3>3 DEF Whole
  <2>3. CASE kind # "complete"
    BY <2>1, <2>3 DEF Whole
  <2> QED BY <2>2, <2>3
<1> QED BY <1>1, <1>2 DEF Posts

LEMMA WholeStep == ASSUME ScanInv, [ScanNext]_scanVars PROVE Whole
<1>1. CASE UNCHANGED import
  BY <1>1 DEF Whole
<1>2. CASE StartScan
  <2>1. import'.items = import.items
    BY <1>2, ImportIs DEF StartScan, Writes, Fresh, Import
  <2> QED BY <2>1 DEF Whole
<1>3. CASE CancelScan \/ StartTimesOut
  <2> PICK d : d = Cancelled(import)
    OBVIOUS
  <2>1. Writes(d) /\ d \in Import /\ d.items = import.items
    BY <1>3, CancelledIs DEF CancelScan, StartTimesOut
  <2> QED BY <2>1, WritesIs DEF Whole
<1>4. CASE ClearScan
  <2> PICK d : d = [Empty EXCEPT !.scan = import.scan]
    OBVIOUS
  <2>1. d \in Import /\ d.state = "none"
    BY ImportIs DEF Empty, Import, States
  <2>2. Writes(d)
    BY <1>4 DEF ClearScan
  <2> QED BY <2>1, <2>2, WritesIs DEF Whole
<1>5. CASE Expires
  <2>1. import'.items = import.items
    BY <1>5, ImportIs DEF Expires, Import
  <2> QED BY <2>1 DEF Whole
<1>6. CASE Restart
  BY <1>6, RestartScanKeeps DEF Whole
<1>7. ASSUME NEW r \in Runs, Started(r) \/ Inventory(r) \/ (\E p \in Followed : ReadNext(r, p))
                             \/ Product(r) \/ Skip(r) \/ Complete(r) \/ Failing(r)
      PROVE  Whole
  <2>1. Kinds = {"started", "inventory", "progress", "product", "complete", "error"}
    BY DEF Kinds
  <2>2. CASE Started(r)
    BY <2>1, <2>2, PostsWhole DEF Started
  <2>3. CASE Inventory(r)
    BY <2>1, <2>3, PostsWhole DEF Inventory
  <2>4. CASE \E p \in Followed : ReadNext(r, p)
    BY <2>1, <2>4, PostsWhole DEF ReadNext
  <2>5. CASE Product(r)
    BY <2>1, <2>5, PostsWhole DEF Product
  <2>6. CASE Skip(r)
    BY <2>1, <2>6, PostsWhole DEF Skip
  <2>7. CASE Complete(r)
    BY <2>1, <2>7, PostsWhole DEF Complete
  <2>8. CASE Failing(r)
    BY <1>1, <2>1, <2>8, PostsWhole DEF Failing
  <2> QED BY <1>7, <2>2, <2>3, <2>4, <2>5, <2>6, <2>7, <2>8
<1>8. CASE \E r \in Runs : Look(r) \/ Claim(r) \/ Fails(r) \/ Unreadable(r)
  BY <1>1, <1>8 DEF Look, Claim, Fails, Unreadable
<1>9. CASE StartSeen \/ OwnerForgotten \/ UNCHANGED scanVars
  BY <1>1, <1>9 DEF StartSeen, OwnerForgotten, scanVars
<1> QED BY <1>2, <1>3, <1>4, <1>5, <1>6, <1>7, <1>8, <1>9 DEF ScanNext

\* The collection changes to what a whole scan captured, or is cleared
\* (trackalacker-import.js:444-455).
THEOREM WholeScansOnlyHolds == ScanSpec => WholeScansOnly
<1>1. ScanInv /\ [ScanNext]_scanVars => [Whole]_scanVars
  BY WholeStep
<1> QED BY <1>1, ScanAlways, PTL DEF ScanSpec, WholeScansOnly, Whole

-----------------------------------------------------------------------------
(* The ledgers.  A ledger is the end of the history of what was granted,   *)
(* and all that is missing at its front is too old to count: so the recent *)
(* part of a ledger is the recent part of the history, and never longer    *)
(* than the allowance, which is why a restart that keeps the newest uses   *)
(* forgets none that count.  The filter is a recursive function of the     *)
(* ledger's length; what it returns is shown by descent to a least length. *)

\* Every set of naturals has a least element: what the inductions over a
\* ledger rest on.
LEMMA LeastOf ==
  ASSUME NEW T, T \subseteq Nat, T # {}
  PROVE \E x \in T : \A y \in T : x <= y
<1>1. PICK m \in T : \A k \in T : <<k, m>> \notin OpToRel(<, Nat)
  BY WFMin, NatLessThanWellFounded, Zenon
<1>2. \A k \in T : ~(k < m)
  BY <1>1, Zenon DEF OpToRel
<1>. QED BY <1>2

\* One step of the filter.
Grown(uses, after, i, sofar) ==
  IF after < uses[i] /\ uses[i] <= instant THEN Append(sofar, uses[i]) ELSE sofar

\* f tabulates the filter over the first n uses.
Tabulates(f, uses, after, n) ==
  f = [i \in 0 .. n |-> IF i = 0 THEN <<>> ELSE Grown(uses, after, i, f[i - 1])]

\* The filter's recursive function exists, for any number of uses.
LEMMA FilterTable ==
  ASSUME NEW uses, NEW after
  PROVE  \A n \in Nat : \E f : Tabulates(f, uses, after, n)
<1> DEFINE T == {n \in Nat : ~ \E f : Tabulates(f, uses, after, n)}
<1> SUFFICES ASSUME T # {} PROVE FALSE
  OBVIOUS
<1>1. PICK n \in T : \A m \in T : n <= m
  BY LeastOf
<1>2. CASE n = 0
  <2> DEFINE f == [i \in 0 .. 0 |-> <<>>]
  <2>1. Tabulates(f, uses, after, 0)
    BY DEF Tabulates
  <2>. QED BY <2>1, <1>1, <1>2
<1>3. CASE n # 0
  <2>1. n - 1 \in Nat /\ n - 1 \notin T /\ n \in Nat
    BY <1>1, <1>3
  <2>2. PICK g : Tabulates(g, uses, after, n - 1)
    BY <2>1
  <2> DEFINE f == [i \in 0 .. n |-> IF i = n THEN Grown(uses, after, n, g[n - 1]) ELSE g[i]]
  <2>3. \A i \in 0 .. n - 1 : f[i] = g[i]
    BY <2>1
  <2>4. \A i \in 0 .. n - 1 : g[i] = IF i = 0 THEN <<>> ELSE Grown(uses, after, i, g[i - 1])
    BY <2>1, <2>2 DEF Tabulates
  <2>5. \A i \in 0 .. n : f[i] = IF i = 0 THEN <<>> ELSE Grown(uses, after, i, f[i - 1])
    <3> SUFFICES ASSUME NEW i \in 0 .. n
                 PROVE  f[i] = IF i = 0 THEN <<>> ELSE Grown(uses, after, i, f[i - 1])
      OBVIOUS
    <3>1. CASE i = n
      <4>1. f[i] = Grown(uses, after, n, g[n - 1]) /\ f[n - 1] = g[n - 1]
        BY <2>1, <2>3, <3>1
      <4>. QED BY <4>1, <3>1, <1>3
    <3>2. CASE i # n /\ i # 0
      <4>1. i \in 0 .. n - 1 /\ i - 1 \in 0 .. n - 1
        BY <2>1, <3>2
      <4>. QED BY <4>1, <2>3, <2>4, <3>2
    <3>3. CASE i = 0
      BY <2>1, <2>3, <2>4, <3>3, <1>3
    <3>. QED BY <3>1, <3>2, <3>3
  <2>6. Tabulates(f, uses, after, n)
    <3> HIDE DEF f
    <3>1. DOMAIN f = 0 .. n /\ f = [i \in 0 .. n |-> f[i]]
      BY DEF f
    <3>. QED BY <3>1, <2>5 DEF Tabulates
  <2>. QED BY <2>6, <1>1
<1>. QED BY <1>2, <1>3

\* So the filter is the last entry of such a table.
LEMMA FilterLast ==
  ASSUME NEW uses, NEW after, Len(uses) \in Nat
  PROVE  \E f : Tabulates(f, uses, after, Len(uses)) /\ Filtered(uses, after) = f[Len(uses)]
<1> DEFINE f == CHOOSE f : Tabulates(f, uses, after, Len(uses))
<1>1. Tabulates(f, uses, after, Len(uses))
  BY FilterTable, Zenon
<1>2. Filtered(uses, after) = f[Len(uses)]
  BY Zenon DEF Filtered, Tabulates, Grown
<1>. QED BY <1>1, <1>2

\* What follows the first k elements of a sequence.
LEMMA TailProperties ==
  ASSUME NEW uses \in Seq(Nat), NEW k \in Nat, NEW n \in Nat, k <= n, n <= Len(uses)
  PROVE  /\ SubSeq(uses, k + 1, n) \in Seq(Nat)
         /\ Len(SubSeq(uses, k + 1, n)) = n - k
         /\ \A i \in 1 .. n - k : SubSeq(uses, k + 1, n)[i] = uses[k + i]
<1>1. k + 1 \in Int /\ n \in Int /\ \A i \in k + 1 .. n : uses[i] \in Nat
  OBVIOUS
<1>2. /\ SubSeq(uses, k + 1, n) \in Seq(Nat)
      /\ Len(SubSeq(uses, k + 1, n)) = IF k + 1 <= n THEN n - (k + 1) + 1 ELSE 0
      /\ \A i \in 1 .. n - (k + 1) + 1 : SubSeq(uses, k + 1, n)[i] = uses[(k + 1) + i - 1]
  BY <1>1, SubSeqProperties
<1>3. ASSUME NEW i \in 1 .. n - k PROVE SubSeq(uses, k + 1, n)[i] = uses[k + i]
  <2>1. i \in 1 .. n - (k + 1) + 1 /\ (k + 1) + i - 1 = k + i
    OBVIOUS
  <2>. QED BY <2>1, <1>2
<1>. QED BY <1>2, <1>3

\* A part of a sequence grows at its end.
LEMMA PartGrows ==
  ASSUME NEW uses \in Seq(Nat), NEW j \in Nat, NEW i \in Nat, j < i, i <= Len(uses)
  PROVE  SubSeq(uses, j + 1, i) = Append(SubSeq(uses, j + 1, i - 1), uses[i])
<1> DEFINE a == SubSeq(uses, j + 1, i)
           part == SubSeq(uses, j + 1, i - 1)
           b == Append(part, uses[i])
<1>1. a \in Seq(Nat) /\ Len(a) = i - j /\ \A k \in 1 .. i - j : a[k] = uses[j + k]
  BY TailProperties
<1>2. /\ part \in Seq(Nat) /\ Len(part) = i - 1 - j
      /\ \A k \in 1 .. i - 1 - j : part[k] = uses[j + k]
  <2>1. i - 1 \in Nat /\ j <= i - 1 /\ i - 1 <= Len(uses)
    OBVIOUS
  <2>. QED BY <2>1, TailProperties
<1>3. uses[i] \in Nat
  OBVIOUS
<1> HIDE DEF a, part
<1>4. /\ b \in Seq(Nat) /\ Len(b) = i - j /\ b[i - j] = uses[i]
      /\ \A k \in 1 .. i - 1 - j : b[k] = part[k]
  BY <1>2, <1>3
<1>5. ASSUME NEW k \in 1 .. i - j PROVE a[k] = b[k]
  <2>1. CASE k = i - j
    <3>1. j + k = i
      BY <2>1
    <3>. QED BY <2>1, <3>1, <1>1, <1>4
  <2>2. CASE k # i - j
    <3>1. k \in 1 .. i - 1 - j
      BY <2>2
    <3>. QED BY <3>1, <1>1, <1>2, <1>4
  <2>. QED BY <2>1, <2>2
<1> HIDE DEF b
<1>6. a = b
  BY <1>1, <1>4, <1>5, SeqEqual
<1>. QED BY <1>6 DEF a, b, part

\* Of uses in the order of time the filter leaves the tail that is young enough.
LEMMA FilteredTail ==
  ASSUME NEW uses \in Seq(Nat), NEW after \in Int, NEW j \in 0 .. Len(uses), instant \in Nat,
         \A i \in 1 .. Len(uses) : uses[i] <= instant /\ (after < uses[i] <=> j < i)
  PROVE  Filtered(uses, after) = SubSeq(uses, j + 1, Len(uses))
<1> DEFINE n == Len(uses)
           Good(i, s) == s = SubSeq(uses, j + 1, i)
<1>0. n \in Nat
  OBVIOUS
<1>1. PICK f : Tabulates(f, uses, after, n) /\ Filtered(uses, after) = f[n]
  BY FilterLast, <1>0
<1>2. /\ f[0] = <<>>
      /\ \A i \in 1 .. n : f[i] = Grown(uses, after, i, f[i - 1])
  BY <1>0, <1>1 DEF Tabulates
<1> DEFINE T == {i \in 0 .. n : ~Good(i, f[i])}
<1>3. ASSUME T # {} PROVE FALSE
  <2>0. T \subseteq Nat
    BY <1>0
  <2>1. PICK i \in T : \A k \in T : i <= k
    <3> HIDE DEF T
    <3>. QED BY <2>0, <1>3, LeastOf
  <2>2. i # 0
    <3>1. SubSeq(uses, j + 1, 0) = <<>>
      BY <1>0
    <3>. QED BY <2>1, <1>2, <3>1
  <2>3. i \in 1 .. n /\ i - 1 \in 0 .. n /\ i - 1 \notin T
    BY <2>1, <2>2, <1>0
  <2>4. f[i - 1] = SubSeq(uses, j + 1, i - 1) /\ f[i] = Grown(uses, after, i, f[i - 1])
    BY <2>3, <1>2
  <2>5. CASE i <= j
    <3>1. ~(after < uses[i])
      BY <2>3, <2>5, <1>0
    <3>2. SubSeq(uses, j + 1, i - 1) = <<>> /\ SubSeq(uses, j + 1, i) = <<>>
      BY <2>3, <2>5, <1>0
    <3>. QED BY <3>1, <3>2, <2>1, <2>4 DEF Grown
  <2>6. CASE j < i
    <3>1. after < uses[i] /\ uses[i] <= instant
      BY <2>3, <2>6, <1>0
    <3>2. SubSeq(uses, j + 1, i) = Append(SubSeq(uses, j + 1, i - 1), uses[i])
      <4>1. j \in Nat /\ i \in Nat /\ i <= Len(uses)
        BY <2>3, <1>0
      <4>. QED BY <4>1, <2>6, PartGrows
    <3>. QED BY <3>1, <3>2, <2>1, <2>4 DEF Grown
  <2>. QED BY <2>5, <2>6, <2>3, <1>0
<1>. QED BY <1>0, <1>1, <1>3

-----------------------------------------------------------------------------
\* The end of an end of a sequence.
LEMMA TailOfTail ==
  ASSUME NEW uses \in Seq(Nat), NEW k \in Nat, NEW j \in Nat, k <= j, j <= Len(uses)
  PROVE  SubSeq(SubSeq(uses, k + 1, Len(uses)), j - k + 1, Len(uses) - k)
           = SubSeq(uses, j + 1, Len(uses))
<1> DEFINE rest == SubSeq(uses, k + 1, Len(uses))
           a == SubSeq(rest, j - k + 1, Len(uses) - k)
           b == SubSeq(uses, j + 1, Len(uses))
<1>1. /\ rest \in Seq(Nat) /\ Len(rest) = Len(uses) - k
      /\ \A i \in 1 .. Len(uses) - k : rest[i] = uses[k + i]
  BY TailProperties
<1> HIDE DEF rest
<1>2. /\ a \in Seq(Nat) /\ Len(a) = Len(uses) - j
      /\ \A i \in 1 .. Len(uses) - j : a[i] = rest[j - k + i]
  <2>1. /\ j - k \in Nat /\ Len(uses) - k \in Nat /\ j - k <= Len(uses) - k
        /\ (Len(uses) - k) - (j - k) = Len(uses) - j
    OBVIOUS
  <2>2. PICK d, m : d = j - k /\ m = Len(uses) - k
    OBVIOUS
  <2>3. /\ SubSeq(rest, d + 1, m) \in Seq(Nat) /\ Len(SubSeq(rest, d + 1, m)) = m - d
        /\ \A i \in 1 .. m - d : SubSeq(rest, d + 1, m)[i] = rest[d + i]
    <3>1. d \in Nat /\ m \in Nat /\ d <= m /\ m <= Len(rest) /\ rest \in Seq(Nat)
      BY <2>1, <2>2, <1>1
    <3>. QED BY <3>1, TailProperties
  <2>. QED BY <2>1, <2>2, <2>3
<1>3. /\ b \in Seq(Nat) /\ Len(b) = Len(uses) - j
      /\ \A i \in 1 .. Len(uses) - j : b[i] = uses[j + i]
  BY TailProperties
<1>4. ASSUME NEW i \in 1 .. Len(uses) - j PROVE a[i] = b[i]
  <2>1. j - k + i \in 1 .. Len(uses) - k /\ k + (j - k + i) = j + i
    OBVIOUS
  <2>. QED BY <2>1, <1>1, <1>2, <1>3
<1> HIDE DEF a, b
<1>5. a = b
  BY <1>2, <1>3, <1>4, SeqEqual
<1>. QED BY <1>5 DEF a, b, rest

\* The end of a sequence grows with the sequence.
LEMMA TailGrows ==
  ASSUME NEW uses \in Seq(Nat), NEW x \in Nat, NEW j \in Nat, j <= Len(uses)
  PROVE  SubSeq(Append(uses, x), j + 1, Len(uses) + 1)
           = Append(SubSeq(uses, j + 1, Len(uses)), x)
<1> DEFINE n == Len(uses)
           more == Append(uses, x)
<1>1. /\ more \in Seq(Nat) /\ Len(more) = n + 1 /\ more[n + 1] = x /\ n \in Nat
      /\ \A i \in 1 .. n : more[i] = uses[i]
  OBVIOUS
<1> HIDE DEF more, n
<1>2. SubSeq(more, j + 1, n + 1) = Append(SubSeq(more, j + 1, n), x)
  <2>1. PICK i : i = n + 1
    OBVIOUS
  <2>2. i \in Nat /\ j < i /\ i <= Len(more) /\ i - 1 = n /\ more[i] = x
    BY <2>1, <1>1 DEF n
  <2>3. SubSeq(more, j + 1, i) = Append(SubSeq(more, j + 1, i - 1), more[i])
    BY <2>2, <1>1, PartGrows
  <2>. QED BY <2>1, <2>2, <2>3
<1>3. SubSeq(more, j + 1, n) = SubSeq(uses, j + 1, n)
  <2> DEFINE a == SubSeq(more, j + 1, n)
             b == SubSeq(uses, j + 1, n)
  <2>0. j <= n /\ n <= Len(more) /\ n <= Len(uses)
    BY <1>1 DEF n
  <2>1. a \in Seq(Nat) /\ Len(a) = n - j /\ \A i \in 1 .. n - j : a[i] = more[j + i]
    BY <2>0, <1>1, TailProperties
  <2>2. b \in Seq(Nat) /\ Len(b) = n - j /\ \A i \in 1 .. n - j : b[i] = uses[j + i]
    BY <2>0, <1>1, TailProperties
  <2> HIDE DEF a, b
  <2>3. \A i \in 1 .. n - j : a[i] = b[i]
    <3>1. \A i \in 1 .. n - j : j + i \in 1 .. n
      BY <1>1, <2>0
    <3>. QED BY <3>1, <2>1, <2>2, <1>1
  <2>4. a = b
    BY <2>1, <2>2, <2>3, SeqEqual
  <2>. QED BY <2>4 DEF a, b
<1>. QED BY <1>2, <1>3 DEF more, n

\* A history is in the order of time, and of the past.
InOrder(uses) ==
  /\ uses \in Seq(Nat)
  /\ \A i \in 1 .. Len(uses) : uses[i] <= instant
  /\ \A i, k \in 1 .. Len(uses) : i <= k => uses[i] <= uses[k]

\* A ledger is the end of the history of grants, and what it no longer has is too
\* old to count; it holds no more uses than allowed, so that a restart keeps them all.
Remembers(l) ==
  /\ Len(ledger[l]) <= Allowance(l)
  /\ \E k \in 0 .. Len(granted[l]) :
       /\ ledger[l] = SubSeq(granted[l], k + 1, Len(granted[l]))
       /\ \A i \in 1 .. k : granted[l][i] <= instant - BudgetWindow

BudgetInv ==
  /\ instant \in Nat /\ overload \in Nat /\ quietRest \in Nat
  /\ DOMAIN granted = Ledgers /\ DOMAIN ledger = Ledgers
  /\ \A l \in Ledgers : InOrder(granted[l]) /\ Remembers(l)

\* Where a window that ends now or later begins in a history.
LEMMA WindowStart ==
  ASSUME NEW uses, instant \in Nat, InOrder(uses), NEW after \in Int
  PROVE  \E j \in 0 .. Len(uses) : \A i \in 1 .. Len(uses) : after < uses[i] <=> j < i
<1> DEFINE n == Len(uses)
           T == {i \in 1 .. n + 1 : i = n + 1 \/ after < uses[i]}
<1>1. n \in Nat /\ n + 1 \in T /\ T \subseteq Nat /\ \A i \in 1 .. n : uses[i] \in Nat
  BY DEF InOrder
<1>2. PICK m \in T : \A k \in T : m <= k
  <2> HIDE DEF T
  <2>. QED BY <1>1, LeastOf
<1>3. m - 1 \in 0 .. n
  BY <1>1, <1>2
<1>4. ASSUME NEW i \in 1 .. n PROVE after < uses[i] <=> m - 1 < i
  <2>1. after < uses[i] => m <= i
    BY <1>1, <1>2
  <2>2. m <= i => after < uses[m] /\ uses[m] <= uses[i] /\ m \in 1 .. n
    BY <1>1, <1>2 DEF InOrder
  <2>. QED BY <1>1, <1>3, <2>1, <2>2
<1>. QED BY <1>3, <1>4

\* What still counts of a ledger is the part of the history in the window.
LEMMA RecentIsWindow ==
  ASSUME BudgetInv, NEW l \in Ledgers
  PROVE  \E j \in 0 .. Len(granted[l]) :
           /\ Recent(ledger[l]) = SubSeq(granted[l], j + 1, Len(granted[l]))
           /\ \A i \in 1 .. Len(granted[l]) : instant - BudgetWindow < granted[l][i] <=> j < i
           /\ Len(granted[l]) - j <= Allowance(l)
<1> DEFINE uses == granted[l]
           n == Len(uses)
           after == instant - BudgetWindow
<1>1. /\ instant \in Nat /\ BudgetWindow \in Nat /\ after \in Int
      /\ InOrder(uses) /\ Remembers(l) /\ uses \in Seq(Nat) /\ n \in Nat
      /\ Allowance(l) \in Nat
  BY BudgetAssumption DEF BudgetInv, InOrder, Allowance
<1>2. PICK j \in 0 .. n : \A i \in 1 .. n : after < uses[i] <=> j < i
  BY <1>1, WindowStart
<1>3. PICK k \in 0 .. n :
        /\ ledger[l] = SubSeq(uses, k + 1, n)
        /\ \A i \in 1 .. k : uses[i] <= after
  BY <1>1 DEF Remembers
<1>4. k <= j
  <2>1. CASE k = 0
    BY <1>2, <2>1
  <2>2. CASE k # 0
    <3>1. k \in 1 .. n /\ uses[k] <= after /\ uses[k] \in Nat
      BY <1>1, <1>3, <2>2
    <3>. QED BY <3>1, <1>1, <1>2
  <2>. QED BY <2>1, <2>2
<1> DEFINE rest == ledger[l]
<1>5. /\ rest \in Seq(Nat) /\ Len(rest) = n - k
      /\ \A i \in 1 .. Len(rest) : rest[i] = uses[k + i]
  <2>1. k \in Nat /\ k <= n /\ n <= Len(uses)
    BY <1>1
  <2> HIDE DEF uses, n
  <2>2. /\ SubSeq(uses, k + 1, n) \in Seq(Nat) /\ Len(SubSeq(uses, k + 1, n)) = n - k
        /\ \A i \in 1 .. n - k : SubSeq(uses, k + 1, n)[i] = uses[k + i]
    BY <2>1, <1>1, TailProperties
  <2>3. rest = SubSeq(uses, k + 1, n)
    BY <1>3
  <2> HIDE DEF rest
  <2>. QED BY <2>2, <2>3
<1>6. /\ j - k \in 0 .. Len(rest)
      /\ \A i \in 1 .. Len(rest) : rest[i] <= instant /\ (after < rest[i] <=> j - k < i)
  <2>1. j - k \in 0 .. Len(rest)
    BY <1>1, <1>3, <1>4, <1>5
  <2>2. ASSUME NEW i \in 1 .. Len(rest)
        PROVE  rest[i] <= instant /\ (after < rest[i] <=> j - k < i)
    <3>1. k + i \in 1 .. n /\ rest[i] = uses[k + i]
      BY <1>1, <1>3, <1>5
    <3>2. uses[k + i] <= instant /\ (after < uses[k + i] <=> j < k + i)
      BY <1>1, <1>2, <3>1 DEF InOrder
    <3>. QED BY <1>1, <1>3, <1>5, <3>1, <3>2
  <2>. QED BY <2>1, <2>2
<1>7. Recent(rest) = SubSeq(rest, j - k + 1, Len(rest))
  <2> HIDE DEF rest, after
  <2>1. Filtered(rest, after) = SubSeq(rest, j - k + 1, Len(rest))
    BY <1>1, <1>5, <1>6, FilteredTail
  <2>. QED BY <2>1 DEF Recent, after
<1>8. SubSeq(rest, j - k + 1, Len(rest)) = SubSeq(uses, j + 1, n)
  <2>1. Len(rest) = n - k /\ rest = SubSeq(uses, k + 1, n)
    BY <1>3, <1>5
  <2>2. k \in Nat /\ j \in Nat
    BY <1>1
  <2> HIDE DEF rest
  <2>. QED BY <2>1, <2>2, <1>1, <1>4, TailOfTail
<1>9. n - j <= Allowance(l)
  BY <1>1, <1>4, <1>5 DEF Remembers
<1>. QED BY <1>2, <1>7, <1>8, <1>9

\* A use keeps the history in order, the ledger its end, and the ledger bounded.
LEMMA UseKeeps ==
  ASSUME BudgetInv, NEW m \in Ledgers, NEW persistence \in BOOLEAN, Use(m, persistence)
  PROVE  BudgetInv'
<1> DEFINE n == Len(granted[m])
           answer == Consume(m, Deadline(m, persistence))
           recent == Recent(ledger[m])
<1>1. PICK j \in 0 .. n :
        /\ recent = SubSeq(granted[m], j + 1, n)
        /\ \A i \in 1 .. n : instant - BudgetWindow < granted[m][i] <=> j < i
        /\ n - j <= Allowance(m)
  BY RecentIsWindow
<1>2. /\ instant' = instant /\ overload' = overload /\ quietRest' = quietRest
      /\ ledger' = [ledger EXCEPT ![m] = answer.history]
      /\ granted' = IF answer.allowed THEN [granted EXCEPT ![m] = Append(@, instant)] ELSE granted
  BY DEF Use
<1>3. /\ instant \in Nat /\ BudgetWindow \in Nat /\ Allowance(m) \in Nat
      /\ granted[m] \in Seq(Nat) /\ n \in Nat /\ InOrder(granted[m])
      /\ DOMAIN granted = Ledgers /\ DOMAIN ledger = Ledgers
  BY BudgetAssumption DEF BudgetInv, InOrder, Allowance
<1>4. /\ recent \in Seq(Nat) /\ Len(recent) = n - j
      /\ \A i \in 1 .. j : granted[m][i] <= instant - BudgetWindow
  <2>1. \A i \in 1 .. j : i \in 1 .. n /\ granted[m][i] \in Nat
    BY <1>3
  <2>. QED BY <1>1, <1>3, <2>1
<1>5. \/ answer.allowed = FALSE /\ answer.history = recent
      \/ /\ answer.allowed = TRUE /\ answer.history = Append(recent, instant)
         /\ Len(recent) < Allowance(m)
  <2>1. Deadline(m, persistence) \in Nat
    BY DEF BudgetInv, Deadline, Later
  <2>. QED BY <1>3, <1>4, <2>1 DEF Consume
<1>6. InOrder(granted[m])' /\ Remembers(m)'
  <2>1. CASE answer.allowed = FALSE /\ answer.history = recent
    <3>1. granted' = granted /\ ledger'[m] = recent
      BY <1>2, <1>3, <2>1
    <3>. QED BY <3>1, <1>1, <1>2, <1>3, <1>4 DEF InOrder, Remembers, Allowance
  <2>2. CASE /\ answer.allowed = TRUE /\ answer.history = Append(recent, instant)
             /\ Len(recent) < Allowance(m)
    <3> DEFINE more == Append(granted[m], instant)
    <3>1. granted'[m] = more /\ ledger'[m] = Append(recent, instant)
      BY <1>2, <1>3, <2>2
    <3>2. /\ more \in Seq(Nat) /\ Len(more) = n + 1 /\ more[n + 1] = instant
          /\ \A i \in 1 .. n : more[i] = granted[m][i]
      BY <1>3
    <3>3. InOrder(more)
      <4>1. \A i \in 1 .. n + 1 : more[i] <= instant
        BY <1>3, <3>2 DEF InOrder
      <4>2. ASSUME NEW i \in 1 .. n + 1, NEW k \in 1 .. n + 1, i <= k PROVE more[i] <= more[k]
        <5>1. CASE k = n + 1
          BY <4>1, <3>2, <5>1
        <5>2. CASE k # n + 1
          <6>1. i \in 1 .. n /\ k \in 1 .. n
            BY <5>2, <4>2, <1>3
          <6>. QED BY <6>1, <4>2, <3>2, <1>3 DEF InOrder
        <5>. QED BY <5>1, <5>2
      <4>. QED BY <3>2, <4>1, <4>2 DEF InOrder
    <3>4. Append(recent, instant) = SubSeq(more, j + 1, n + 1)
      <4>1. j \in Nat /\ j <= Len(granted[m])
        BY <1>3
      <4>. QED BY <4>1, <1>1, <1>3, TailGrows
    <3>5. Len(Append(recent, instant)) <= Allowance(m)
      BY <1>3, <1>4, <2>2
    <3>6. \A i \in 1 .. j : more[i] <= instant - BudgetWindow
      BY <1>3, <1>4, <3>2
    <3>7. InOrder(granted[m])'
      BY <3>1, <3>3, <1>2 DEF InOrder
    <3>8. Remembers(m)'
      <4> HIDE DEF more
      <4>1. j \in 0 .. Len(more) /\ Len(more) = n + 1
        BY <3>2, <1>3
      <4>. QED BY <3>1, <3>4, <3>5, <3>6, <4>1, <1>2 DEF Remembers, Allowance
    <3>. QED BY <3>7, <3>8
  <2>. QED BY <1>5, <2>1, <2>2
<1>7. ASSUME NEW l \in Ledgers, l # m PROVE InOrder(granted[l])' /\ Remembers(l)'
  <2>1. granted'[l] = granted[l] /\ ledger'[l] = ledger[l]
    BY <1>2, <1>3, <1>7
  <2>. QED BY <2>1, <1>2, <1>7 DEF BudgetInv, InOrder, Remembers, Allowance
<1>8. DOMAIN granted' = Ledgers /\ DOMAIN ledger' = Ledgers
  BY <1>2, <1>3
<1>. QED BY <1>2, <1>3, <1>6, <1>7, <1>8 DEF BudgetInv

\* A restart reads back all of a ledger that is within its allowance.
LEMMA RestartKeeps ==
  ASSUME BudgetInv, BudgetRestart
  PROVE  BudgetInv'
<1>1. ASSUME NEW l \in Ledgers PROVE Restored(ledger[l]) = ledger[l]
  <2>1. /\ granted[l] \in Seq(Nat) /\ Len(ledger[l]) <= Allowance(l)
        /\ \E k \in 0 .. Len(granted[l]) : ledger[l] = SubSeq(granted[l], k + 1, Len(granted[l]))
    BY DEF BudgetInv, InOrder, Remembers
  <2>2. ledger[l] \in Seq(Nat) /\ Len(ledger[l]) \in Nat
    BY <2>1
  <2>3. Len(ledger[l]) - KeptUses + 1 <= 1 /\ Len(ledger[l]) - KeptUses + 1 \in Int
    BY <2>1, <2>2, BudgetAssumption DEF Allowance
  <2>4. Later(1, Len(ledger[l]) - KeptUses + 1) = 1
    BY <2>3 DEF Later
  <2>. QED BY <2>2, <2>4 DEF Restored
<1>2. ledger' = [l \in Ledgers |-> Restored(ledger[l])] /\ granted' = granted /\ instant' = instant
  BY DEF BudgetRestart
<1>3. \A l \in Ledgers : ledger'[l] = ledger[l]
  BY <1>1, <1>2
<1>4. overload' \in Nat /\ quietRest' \in Nat /\ DOMAIN ledger' = Ledgers
  BY <1>2 DEF BudgetRestart, BudgetInv
<1>. QED BY <1>2, <1>3, <1>4 DEF BudgetInv, InOrder, Remembers, Allowance

\* Every step of the ledgers keeps the invariant.
LEMMA BudgetStep ==
  ASSUME BudgetInv, [BudgetNext]_budgetVars
  PROVE  BudgetInv'
<1>1. CASE UNCHANGED budgetVars
  BY <1>1 DEF budgetVars, BudgetInv, InOrder, Remembers, Allowance
<1>2. CASE \E l \in Ledgers, persistence \in BOOLEAN : Use(l, persistence)
  BY <1>2, UseKeeps
<1>3. ASSUME NEW until \in instant + 1 .. MaxInstant, NEW isShared \in BOOLEAN, Rest(until, isShared)
      PROVE  BudgetInv'
  <2>1. until \in Nat
    BY <1>3, BudgetAssumption DEF BudgetInv
  <2>2. overload' \in Nat /\ quietRest' \in Nat
    BY <1>3, <2>1 DEF BudgetInv, Rest, Later
  <2>. QED BY <1>3, <2>2 DEF Rest, BudgetInv, InOrder, Remembers, Allowance
<1>4. CASE BudgetRestart
  BY <1>4, RestartKeeps
<1>5. CASE InstantPasses
  <2>1. /\ instant' = instant + 1 /\ instant \in Nat /\ BudgetWindow \in Nat
        /\ ledger' = ledger /\ granted' = granted /\ overload' = overload /\ quietRest' = quietRest
    BY <1>5, BudgetAssumption DEF InstantPasses, BudgetInv
  <2>2. ASSUME NEW l \in Ledgers PROVE InOrder(granted[l])' /\ Remembers(l)'
    <3>1. InOrder(granted[l]) /\ Remembers(l)
      BY DEF BudgetInv
    <3>2. \A i \in 1 .. Len(granted[l]) : granted[l][i] \in Nat
      BY <3>1 DEF InOrder
    <3>3. InOrder(granted[l])'
      BY <2>1, <3>1, <3>2 DEF InOrder
    <3>4. Remembers(l)'
      <4>1. PICK k \in 0 .. Len(granted[l]) :
              /\ ledger[l] = SubSeq(granted[l], k + 1, Len(granted[l]))
              /\ \A i \in 1 .. k : granted[l][i] <= instant - BudgetWindow
        BY <3>1 DEF Remembers
      <4>2. \A i \in 1 .. k : granted[l][i] <= instant + 1 - BudgetWindow
        <5>1. \A i \in 1 .. k : i \in 1 .. Len(granted[l])
          BY <3>1, <4>1 DEF InOrder
        <5>. QED BY <2>1, <3>2, <4>1, <5>1
      <4>3. Len(ledger[l]) <= Allowance(l)
        BY <3>1 DEF Remembers
      <4>4. /\ Len(ledger'[l]) <= Allowance(l)
            /\ k \in 0 .. Len(granted'[l])
            /\ ledger'[l] = SubSeq(granted'[l], k + 1, Len(granted'[l]))
            /\ \A i \in 1 .. k : granted'[l][i] <= instant' - BudgetWindow
        BY <2>1, <4>1, <4>2, <4>3
      <4>5. Allowance(l)' = Allowance(l)
        BY DEF Allowance
      <4>. QED BY <4>4, <4>5, Zenon DEF Remembers
    <3>. QED BY <3>3, <3>4
  <2>. QED BY <2>1, <2>2 DEF BudgetInv
<1>. QED BY <1>1, <1>2, <1>3, <1>4, <1>5 DEF BudgetNext, Ledgers

\* How many indices lie beyond the first a of b.
LEMMA Beyond ==
  ASSUME NEW a \in Nat, NEW b \in Nat
  PROVE  /\ IsFiniteSet(a + 1 .. b)
         /\ Cardinality(a + 1 .. b) = IF a < b THEN b - a ELSE 0
<1>1. a + 1 \in Int /\ b \in Int
  OBVIOUS
<1>2. /\ IsFiniteSet(a + 1 .. b)
      /\ Cardinality(a + 1 .. b) = IF a + 1 > b THEN 0 ELSE b - (a + 1) + 1
  BY <1>1, FS_Interval
<1>. QED BY <1>2

\* The uses of a history that lie in the window that ends at t.
Inside(uses, t) == {i \in 1 .. Len(uses) : uses[i] > t - BudgetWindow /\ uses[i] <= t}

\* A window over an ordered history: if it begins behind the use j, it holds what
\* follows, until it ends where the use j + 1 leaves it.
LEMMA WindowMoves ==
  ASSUME NEW uses, instant \in Nat, InOrder(uses), NEW j \in 0 .. Len(uses),
         \A i \in 1 .. Len(uses) : instant - BudgetWindow < uses[i] <=> j < i
  PROVE  /\ Inside(uses, instant) = j + 1 .. Len(uses)
         /\ j < Len(uses) =>
              \A t \in instant .. uses[j + 1] + BudgetWindow :
                IF t = uses[j + 1] + BudgetWindow
                THEN Inside(uses, t) \subseteq j + 1 + 1 .. Len(uses)
                ELSE Inside(uses, t) = j + 1 .. Len(uses)
<1>1. /\ Len(uses) \in Nat /\ BudgetWindow \in Nat /\ j \in Nat
      /\ \A i \in 1 .. Len(uses) : uses[i] \in Nat /\ uses[i] <= instant
      /\ \A i, k \in 1 .. Len(uses) : i <= k => uses[i] <= uses[k]
  BY BudgetAssumption DEF InOrder
<1>2. Inside(uses, instant) = j + 1 .. Len(uses)
  BY <1>1 DEF Inside
<1>3. ASSUME j < Len(uses), NEW t \in instant .. uses[j + 1] + BudgetWindow
      PROVE  IF t = uses[j + 1] + BudgetWindow
             THEN Inside(uses, t) \subseteq j + 1 + 1 .. Len(uses)
             ELSE Inside(uses, t) = j + 1 .. Len(uses)
  <2>1. j + 1 \in 1 .. Len(uses) /\ uses[j + 1] \in Nat
    BY <1>1, <1>3
  <2>2. t \in Nat /\ instant <= t /\ t <= uses[j + 1] + BudgetWindow
    BY <1>1, <1>3, <2>1
  <2>3. ASSUME NEW i \in 1 .. Len(uses), t = uses[j + 1] + BudgetWindow, i \in Inside(uses, t)
        PROVE  j + 1 < i
    <3>1. uses[i] \in Nat /\ uses[j + 1] < uses[i]
      BY <1>1, <2>1, <2>2, <2>3 DEF Inside
    <3>2. i <= j + 1 => uses[i] <= uses[j + 1]
      BY <1>1, <2>1
    <3>. QED BY <1>1, <2>1, <3>1, <3>2
  <2>4. ASSUME NEW i \in 1 .. Len(uses), t # uses[j + 1] + BudgetWindow
        PROVE  i \in Inside(uses, t) <=> j < i
    <3>1. uses[i] \in Nat /\ uses[i] <= t /\ t - BudgetWindow < uses[j + 1]
      BY <1>1, <2>1, <2>2, <2>4
    <3>2. j < i => uses[j + 1] <= uses[i]
      BY <1>1, <2>1
    <3>3. ~(j < i) => uses[i] <= instant - BudgetWindow
      BY <1>1
    <3>. QED BY <1>1, <2>1, <2>2, <3>1, <3>2, <3>3 DEF Inside
  <2>5. Inside(uses, t) \subseteq 1 .. Len(uses)
    BY DEF Inside
  <2>6. CASE t = uses[j + 1] + BudgetWindow
    <3>1. Inside(uses, t) \subseteq j + 1 + 1 .. Len(uses)
      BY <1>1, <2>3, <2>5, <2>6
    <3>. QED BY <3>1, <2>6
  <2>7. CASE t # uses[j + 1] + BudgetWindow
    <3>1. Inside(uses, t) = j + 1 .. Len(uses)
      <4> DEFINE In == Inside(uses, t)
                 Span == j + 1 .. Len(uses)
      <4>1. \A i \in 1 .. Len(uses) : i \in In <=> i \in Span
        BY <1>1, <2>4, <2>7
      <4>2. In \subseteq 1 .. Len(uses) /\ Span \subseteq 1 .. Len(uses)
        BY <1>1, <2>5
      <4> HIDE DEF In, Span
      <4>3. In = Span
        BY <4>1, <4>2
      <4>. QED BY <4>3 DEF In, Span
    <3>. QED BY <3>1, <2>7
  <2>. QED BY <2>6, <2>7
<1>. QED BY <1>2, <1>3

\* What the worker answers on an attempt that no deadline holds back.
LEMMA AnswerTells ==
  ASSUME NEW l \in Ledgers, instant \in Nat
  PROVE  /\ Consume(l, 0).allowed <=> ~(Len(Recent(ledger[l])) >= Allowance(l))
         /\ ~Consume(l, 0).allowed =>
              Consume(l, 0).retryAt = Recent(ledger[l])[1] + BudgetWindow
<1>1. ~(0 > instant)
  OBVIOUS
<1>. QED BY <1>1, Zenon DEF Consume

\* What the ledger counts is what was granted in the window, and the instant it
\* names for a refused use is the first with room.
LEMMA InvExact ==
  ASSUME BudgetInv
  PROVE  CeilingExact
<1>1. ASSUME NEW l \in Ledgers, NEW answer, answer = Consume(l, 0)
      PROVE  /\ Cardinality(InWindow(l, instant)) <= Allowance(l)
             /\ answer.allowed <=> Cardinality(InWindow(l, instant)) < Allowance(l)
             /\ ~answer.allowed =>
                  \A t \in instant .. answer.retryAt :
                    Cardinality(InWindow(l, t)) < Allowance(l) <=> t = answer.retryAt
  <2>1. PICK j \in 0 .. Len(granted[l]) :
          /\ Recent(ledger[l]) = SubSeq(granted[l], j + 1, Len(granted[l]))
          /\ \A i \in 1 .. Len(granted[l]) : instant - BudgetWindow < granted[l][i] <=> j < i
          /\ Len(granted[l]) - j <= Allowance(l)
    BY RecentIsWindow
  <2>2. PICK uses : uses = granted[l]
    OBVIOUS
  <2>3. /\ instant \in Nat /\ InOrder(uses) /\ Allowance(l) \in Nat \ {0}
        /\ uses \in Seq(Nat) /\ Len(uses) \in Nat /\ j \in Nat /\ j <= Len(uses)
    BY <2>1, <2>2, BudgetAssumption DEF BudgetInv, InOrder, Allowance
  <2>4. \A t : InWindow(l, t) = Inside(uses, t)
    BY <2>2, <2>3 DEF InWindow, Inside
  <2>5. /\ Inside(uses, instant) = j + 1 .. Len(uses)
        /\ j < Len(uses) =>
             \A t \in instant .. uses[j + 1] + BudgetWindow :
               IF t = uses[j + 1] + BudgetWindow
               THEN Inside(uses, t) \subseteq j + 1 + 1 .. Len(uses)
               ELSE Inside(uses, t) = j + 1 .. Len(uses)
    BY <2>1, <2>2, <2>3, WindowMoves
  <2>6. Cardinality(j + 1 .. Len(uses)) = Len(uses) - j
    BY <2>3, Beyond
  <2>7. Len(Recent(ledger[l])) = Len(uses) - j
    BY <2>1, <2>2, <2>3
  <2>8. answer.allowed <=> Len(uses) - j < Allowance(l)
    <3>1. answer.allowed <=> ~(Len(uses) - j >= Allowance(l))
      BY <1>1, <2>3, <2>7, AnswerTells
    <3>. QED BY <3>1, <2>3
  <2>9. ASSUME ~answer.allowed, NEW t \in instant .. answer.retryAt
        PROVE  Cardinality(Inside(uses, t)) < Allowance(l) <=> t = answer.retryAt
    <3>1. Len(uses) - j = Allowance(l) /\ j < Len(uses)
      <4>1. Len(uses) - j <= Allowance(l)
        BY <2>1, <2>2
      <4>2. ~(Len(uses) - j < Allowance(l))
        BY <2>8, <2>9
      <4>3. Len(uses) \in Nat /\ j \in Nat /\ Allowance(l) \in Nat \ {0}
        BY <2>3
      <4>4. \A n, a \in Nat : n - j <= a /\ ~(n - j < a) /\ a # 0 => n - j = a /\ j < n
        BY <4>3
      <4>. QED BY <4>1, <4>2, <4>3, <4>4
    <3>2. Recent(ledger[l])[1] = uses[j + 1]
      BY <2>1, <2>2, <2>3, <3>1
    <3>3. answer.retryAt = uses[j + 1] + BudgetWindow
      BY <1>1, <2>3, <2>9, <3>2, AnswerTells
    <3>4. CASE t # uses[j + 1] + BudgetWindow
      <4>1. Inside(uses, t) = j + 1 .. Len(uses)
        BY <2>5, <2>9, <3>1, <3>3, <3>4
      <4>2. Cardinality(Inside(uses, t)) = Allowance(l)
        BY <2>6, <3>1, <4>1
      <4>. QED BY <4>2, <2>3, <3>3, <3>4
    <3>5. CASE t = uses[j + 1] + BudgetWindow
      <4>1. Inside(uses, t) \subseteq j + 1 + 1 .. Len(uses)
        BY <2>5, <2>9, <3>1, <3>3, <3>5
      <4>2. /\ IsFiniteSet(j + 1 + 1 .. Len(uses))
            /\ Cardinality(j + 1 + 1 .. Len(uses)) =
                 IF j + 1 < Len(uses) THEN Len(uses) - (j + 1) ELSE 0
        <5>1. j + 1 \in Nat
          BY <2>3
        <5>. QED BY <2>3, <5>1, Beyond
      <4>3. /\ Cardinality(Inside(uses, t)) <= Cardinality(j + 1 + 1 .. Len(uses))
            /\ IsFiniteSet(Inside(uses, t))
        BY <4>1, <4>2, FS_Subset
      <4>4. Cardinality(Inside(uses, t)) \in Nat
        BY <4>3, FS_CardinalityType
      <4>5. Cardinality(Inside(uses, t)) < Allowance(l)
        BY <4>2, <4>3, <4>4, <2>3, <3>1
      <4>. QED BY <4>5, <3>3, <3>5
    <3>. QED BY <3>4, <3>5
  <2>10. Len(uses) - j <= Allowance(l)
    BY <2>1, <2>2
  <2>. QED BY <2>4, <2>5, <2>6, <2>8, <2>9, <2>10
<1>. QED BY <1>1 DEF CeilingExact

\* The ledgers keep their invariant, for any ceilings, window and length of clock.
THEOREM LedgersRemember == BudgetSpec => []BudgetInv
<1>1. BudgetInit => BudgetInv
  <2> SUFFICES ASSUME BudgetInit PROVE BudgetInv
    OBVIOUS
  <2>1. ASSUME NEW l \in Ledgers PROVE InOrder(granted[l]) /\ Remembers(l)
    <3>1. granted[l] = <<>> /\ ledger[l] = <<>> /\ Allowance(l) \in Nat
      BY BudgetAssumption DEF BudgetInit, Allowance
    <3>2. SubSeq(<<>>, 1, 0) = <<>> /\ Len(<<>>) = 0 /\ <<>> \in Seq(Nat)
      OBVIOUS
    <3>. QED BY <3>1, <3>2 DEF InOrder, Remembers
  <2>. QED BY <2>1 DEF BudgetInit, BudgetInv
<1>. QED BY <1>1, BudgetStep, PTL DEF BudgetSpec

\* "fixed ceilings per rolling hour" (README.md:33): no window of any length and
\* any ceiling holds more uses than allowed, across restarts and rests, and a
\* refusal names the first instant with room (action-budget.js:16-54).
THEOREM CeilingIsExact == BudgetSpec => []CeilingExact
BY InvExact, LedgersRemember, PTL
=============================================================================
