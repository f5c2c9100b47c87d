-------------------------------- MODULE Discord --------------------------------
(***************************************************************************)
(* The desktop's Discord connection: one poll at a time fetches the new    *)
(* messages of the configured channel, and every answer is used only when  *)
(* no Connect, Disconnect, Forget, Stop or change of channel came in       *)
(* between.  The first fetch of a channel is history.  A message is        *)
(* recorded, with the file written, before the cursor that passes it; a    *)
(* crash may fall between any two of these writes.                         *)
(* (main.js:420-447, 490-515, 2088-2184, 2422-2502, 3290-3297, 3540-3566,  *)
(* 3601-3685, lib/discord-ingestion.js, lib/discord-client.js:95-103,      *)
(* lib/signal-inbox.js:73-91, lib/discord-credentials.js)                  *)
(*                                                                         *)
(* A message is one recognised restock signal; message n of a channel is   *)
(* the n-th posted there.                                                  *)
(***************************************************************************)
EXTENDS Naturals, FiniteSets

CONSTANTS
  Channels,      \* channels the token may read
  MaxPosted,     \* messages posted in a channel
  Limit,         \* messages one page holds (50 for history, 100 afterwards)
  MaxClicks,     \* Connect, Disconnect, Forget, Stop, resume and channel changes
  MaxCrashes

ASSUME DiscordAssumption ==
  /\ Channels # {}
  /\ MaxPosted \in Nat /\ Limit \in Nat \ {0} /\ MaxClicks \in Nat /\ MaxCrashes \in Nat

VARIABLES
  posted,    \* messages posted in each channel
  old,       \* messages past the two minutes in which a signal is fresh
  live,      \* memory: token, settings and the channel's runtime state
  disk,      \* what a restart finds
  epoch,     \* discordConnectionEpoch
  poll,      \* the poll in flight
  connect,   \* Connect requests whose validation is on its way
  acted,     \* times a message has led to an activation or an opening
  before,    \* messages in a channel when it was last chosen
  behind,    \* history: messages of a channel older than its first page
  forgotten, \* history: messages that were recorded and left the inbox
  clicks, crashes

discordVars ==
  <<posted, old, live, disk, epoch, poll, connect, acted, before, behind, forgotten, clicks, crashes>>

Messages == [channel : Channels, id : 1 .. MaxPosted]
NoPoll == [phase |-> "none"]
emptyDiscordRuntime(c) == [channel |-> c, cursor |-> 0, baselined |-> FALSE]

\* A token is named by the epoch of the click that pasted it, 0 for none.
DiscordInit ==
  LET c == CHOOSE c \in Channels : TRUE
  IN /\ live = [token |-> 0, enabled |-> FALSE, channel |-> c, paused |-> TRUE,
                ready |-> FALSE, runtime |-> emptyDiscordRuntime(c), signals |-> {}]
     /\ disk = live
     /\ posted = [d \in Channels |-> 0] /\ old = {}
     /\ epoch = 0 /\ poll = NoPoll /\ connect = {}
     /\ acted = [m \in Messages |-> 0] /\ before = [d \in Channels |-> 0]
     /\ behind = [d \in Channels |-> 0] /\ forgotten = {}
     /\ clicks = 0 /\ crashes = 0

RestartedAsIs(d) == [d EXCEPT !.paused = TRUE, !.ready = FALSE]

\* What loads at the next start: monitoring is paused, and a runtime state of another
\* channel than the configured one is dropped (main.js:497-499).
Restarted(d) ==
  [d EXCEPT !.paused = TRUE, !.ready = FALSE,
            !.runtime = IF @.channel = d.channel THEN @ ELSE emptyDiscordRuntime(d.channel)]

\* The process ends; whatever was in flight is gone.
Dies(d) ==
  /\ crashes < MaxCrashes /\ crashes' = crashes + 1
  /\ disk' = Restarted(d) /\ live' = disk'
  /\ poll' = NoPoll /\ connect' = {}

-----------------------------------------------------------------------------
(* The operator.                                                           *)

Click == clicks < MaxClicks /\ clicks' = clicks + 1

Superseding == epoch' = epoch + 1

ChannelChosen(c) == before' = [before EXCEPT ![c] = IF c = live.channel THEN @ ELSE posted[c]]

\* main.js:3601-3618: with the pasted token or the one already held.
Connect(c, pasted) ==
  /\ Click /\ Superseding
  /\ pasted \/ live.token # 0
  /\ connect' = connect \cup {[epoch |-> epoch + 1, channel |-> c,
                               token |-> IF pasted THEN epoch + 1 ELSE live.token]}
  /\ UNCHANGED <<posted, old, live, disk, poll, acted, before, behind, forgotten, crashes>>

CurrentAlways(r) == r.epoch <= epoch

Current(r) == r.epoch = epoch

\* main.js:3619-3641: the token, the settings and the runtime state are written in
\* this order; the process may end after the first or the second of them.
Validated(r, written) ==
  LET runtime == IF r.channel = live.channel THEN live.runtime ELSE emptyDiscordRuntime(r.channel)
      saved == [disk EXCEPT !.token = r.token]
      next == [live EXCEPT !.token = r.token, !.enabled = TRUE, !.channel = r.channel,
                           !.ready = TRUE, !.runtime = runtime]
  IN /\ r \in connect /\ Current(r)
     /\ CASE written = 1 -> Dies(saved) /\ UNCHANGED before
          [] written = 2 -> /\ Dies([saved EXCEPT !.enabled = TRUE, !.channel = r.channel])
                            /\ ChannelChosen(r.channel)
          [] written = 3 -> /\ live' = next /\ disk' = next
                            /\ connect' = connect \ {r}
                            /\ ChannelChosen(r.channel)
                            /\ UNCHANGED <<poll, crashes>>
     /\ UNCHANGED <<posted, old, epoch, acted, behind, forgotten, clicks>>

\* Refused by Discord, or superseded meanwhile.
NotConnected(r) ==
  /\ r \in connect
  /\ connect' = connect \ {r}
  /\ UNCHANGED <<posted, old, live, disk, epoch, poll, acted, before, behind, forgotten, clicks, crashes>>

Operator(next) ==
  /\ Click
  /\ live' = next /\ disk' = next
  /\ UNCHANGED <<posted, old, poll, connect, acted, behind, forgotten, crashes>>

Disconnect ==
  /\ Superseding /\ UNCHANGED before
  /\ Operator([live EXCEPT !.enabled = FALSE, !.ready = FALSE])

Forget ==
  /\ Superseding /\ UNCHANGED before
  /\ Operator([live EXCEPT !.token = 0, !.enabled = FALSE, !.ready = FALSE])

Stop ==
  /\ Superseding /\ UNCHANGED before
  /\ Operator([live EXCEPT !.paused = TRUE])

Resume ==
  /\ live.paused /\ UNCHANGED <<epoch, before>>
  /\ Operator([live EXCEPT !.paused = FALSE])

\* A save with another channel (main.js:3294-3297).
resetDiscordChannel(c) ==
  /\ c # live.channel
  /\ Superseding /\ ChannelChosen(c)
  /\ Operator([live EXCEPT !.channel = c, !.ready = FALSE, !.runtime = emptyDiscordRuntime(c)])

-----------------------------------------------------------------------------
(* The poll.                                                               *)

PollStarts ==
  /\ poll = NoPoll /\ live.enabled /\ ~live.paused /\ live.token # 0
  /\ poll' = [phase |-> "setup", epoch |-> epoch, token |-> live.token, channel |-> live.channel]
  /\ UNCHANGED <<posted, old, live, disk, epoch, connect, acted, before, behind, forgotten, clicks, crashes>>

StillWanted ==
  /\ poll.epoch = epoch /\ poll.token = live.token /\ poll.channel = live.channel

\* The channel's roles are there; the fetch is sent with the cursor of this moment.
PollFetches ==
  /\ poll.phase = "setup" /\ StillWanted
  /\ live' = [live EXCEPT !.ready = TRUE]
  /\ poll' = [phase |-> "fetch", epoch |-> poll.epoch, token |-> poll.token,
              channel |-> poll.channel, cursor |-> live.runtime.cursor,
              sent |-> posted[poll.channel]]
  /\ UNCHANGED <<posted, old, disk, epoch, connect, acted, before, behind, forgotten, clicks, crashes>>

\* The answer ends with message last and starts after First(last): without a cursor
\* nothing is asked for but a page, and Discord answers with the newest one; with a
\* cursor it answers with the page that follows (external).
PageBefore(n) == IF n > Limit THEN n - Limit ELSE 0

First(last) == IF poll.cursor = 0 THEN PageBefore(last) ELSE poll.cursor

LastFetched ==
  LET upTo(n) == IF poll.cursor = 0 \/ n <= poll.cursor + Limit THEN n ELSE poll.cursor + Limit
  IN upTo(poll.sent) .. upTo(posted[poll.channel])

\* lib/discord-ingestion.js:6-24: only the first batch of a channel is history.
Historical == live.runtime.cursor = 0 /\ ~live.runtime.baselined

UnrecordedAll(ms) == ms

\* main.js:2088-2099: a message recorded before is passed over.
Unrecorded(ms) == {m \in ms : m \notin live.signals}

\* Each message is recorded and the file written before the next; the cursor is
\* written last.  The process may end after any of them.
PollAnswers(last, done) ==
  LET c == poll.channel
      batch(n) == {[channel |-> c, id |-> i] : i \in First(last) + 1 .. n}
      handled == Unrecorded(batch(done))
      acts == IF Historical \/ live.paused THEN {} ELSE handled \ old
      recorded == [live EXCEPT !.signals = @ \cup batch(done)]
      next == [recorded EXCEPT !.runtime = [channel |-> c, baselined |-> TRUE, cursor |-> last]]
  IN /\ poll.phase = "fetch" /\ StillWanted
     /\ acted' = [m \in Messages |-> acted[m] + (IF m \in acts THEN 1 ELSE 0)]
     /\ \/ done = last /\ live' = next /\ disk' = next /\ poll' = NoPoll
           /\ behind' = [behind EXCEPT ![c] = IF poll.cursor = 0 THEN First(last) ELSE @]
           /\ UNCHANGED <<connect, crashes>>
        \/ Dies(recorded) /\ UNCHANGED behind
     /\ UNCHANGED <<posted, old, epoch, before, forgotten, clicks>>

\* A refusal or an error of either call, and the answers nobody wants any more.
PollEnds ==
  /\ poll # NoPoll
  /\ poll' = NoPoll
  /\ UNCHANGED <<posted, old, live, disk, epoch, connect, acted, before, behind, forgotten, clicks, crashes>>

\* Recorded signals leave the inbox: the operator clears it (main.js:3674-3679), or
\* the signals of all sources outnumber what it keeps.  It is the only memory of
\* what was recorded.
SignalsGone(gone) ==
  /\ gone # {}
  /\ live' = [live EXCEPT !.signals = @ \ gone]
  /\ disk' = [disk EXCEPT !.signals = live'.signals]
  /\ forgotten' = forgotten \cup gone
  /\ UNCHANGED <<posted, old, epoch, poll, connect, acted, before, behind, clicks, crashes>>

-----------------------------------------------------------------------------
Crash == Dies(disk) /\ UNCHANGED <<posted, old, epoch, acted, before, behind, forgotten, clicks>>

\* Restock messages arrive and age (external).
Post(c) ==
  /\ posted[c] < MaxPosted
  /\ posted' = [posted EXCEPT ![c] = @ + 1]
  /\ UNCHANGED <<old, live, disk, epoch, poll, connect, acted, before, behind, forgotten, clicks, crashes>>

Age(m) ==
  /\ m \notin old /\ m.id <= posted[m.channel]
  /\ old' = old \cup {n \in Messages : n.channel = m.channel /\ n.id <= m.id}
  /\ UNCHANGED <<posted, live, disk, epoch, poll, connect, acted, before, behind, forgotten, clicks, crashes>>

DiscordNext ==
  \/ \E c \in Channels, pasted \in BOOLEAN : Connect(c, pasted)
  \/ \E r \in connect, written \in 1 .. 3 : Validated(r, written)
  \/ \E r \in connect : NotConnected(r)
  \/ Disconnect \/ Forget \/ Stop \/ Resume
  \/ \E c \in Channels : resetDiscordChannel(c) \/ Post(c)
  \/ PollStarts \/ PollFetches \/ PollEnds
  \/ poll.phase = "fetch" /\ \E last \in LastFetched : \E done \in First(last) .. last :
       PollAnswers(last, done)
  \/ \E gone \in SUBSET live.signals : SignalsGone(gone)
  \/ Crash
  \/ \E m \in Messages : Age(m)

DiscordSpec == DiscordInit /\ [][DiscordNext]_discordVars

-----------------------------------------------------------------------------
\* What was in a channel when it was chosen is history and opens nothing, and no
\* message opens anything twice while the inbox keeps it, whichever answer was on
\* its way and wherever the process ended (main.js:2089-2097,
\* discord-ingestion.js:6-24, signal-routing.js:50).
HistoryIsQuiet ==
  [][\A m \in Messages :
       acted'[m] # acted[m] =>
         (acted[m] = 0 \/ m \in forgotten) /\ m.id > before[m.channel]]_discordVars

\* From the first page on the cursor passes no message that was not recorded, so a
\* restart or a reconnection cannot lose an alert between two polls.
NothingSkipped ==
  \A i \in behind[live.channel] + 1 .. live.runtime.cursor :
    [channel |-> live.channel, id |-> i] \in live.signals \cup forgotten

\* A credential is stored only by the last click: "a slow validation cannot restore
\* a credential the user removed while it was in flight" (main.js:3612-3614).
RemovedStaysRemoved ==
  [][disk'.token \in {disk.token, 0, epoch}]_discordVars
=============================================================================
