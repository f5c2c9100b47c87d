------------------------------ MODULE Traffic_proofs ------------------------------
(***************************************************************************)
(* The governor's promises for any number of tabs, intervals and delays.   *)
(*                                                                         *)
(* The inductive invariant adds to them that reservation ids are used once *)
(* and that a cancellation on its way is for a slot its page gave up: a    *)
(* late one would otherwise take a newer slot.                             *)
(***************************************************************************)
EXTENDS Traffic, TLAPS

States == [run : Nat, until : Nat, last : Nat, drops : Nat, slots : [Tabs -> Slots]]

IdsOK ==
  /\ \A c \in retries : 1 <= c.id /\ c.id <= serial /\ c.drops <= traffic.drops
  /\ \A c, d \in retries : c.id = d.id => c = d
  /\ \A t \in Tabs : slot[t] <= serial /\ traffic.slots[t].id <= serial
  /\ \A m \in cancels : m.id <= serial
  /\ \A c \in retries : c.step = "reserve" => c.id # slot[c.tab]
  /\ \A m \in cancels, c \in retries :
       m.tab = c.tab /\ m.id = c.id => ~c.holds /\ c.step # "reserve"

Inv ==
  TrafficTypeOK /\ IdsOK /\ SlotsSpaced /\ CooldownRespected /\ WaitersKeepTheirSlot

--------------------------------------------------------------------------------
(* The stored state *)

\* A state with its reservations replaced.
LEMMA Replacing ==
  ASSUME NEW s \in States, NEW f \in [Tabs -> Slots], NEW q, q = [s EXCEPT !.slots = f]
  PROVE  /\ q \in States /\ q.slots = f
         /\ q.until = s.until /\ q.last = s.last /\ q.drops = s.drops
BY DEF States

\* Reading and pruning only lose reservations: all of them to another run, the
\* expired ones otherwise.
LEMMA Reading ==
  ASSUME TrafficTypeOK, NEW r \in Nat, NEW s, s = ReadTraffic(r) \/ s = Pruned(ReadTraffic(r))
  PROVE  /\ s \in States
         /\ s.until = traffic.until /\ s.last = traffic.last /\ traffic.drops <= s.drops
         /\ \A t \in Tabs : s.slots[t] = traffic.slots[t] \/ s.slots[t] = NoSlot
         /\ s.drops = traffic.drops =>
              \A t \in Tabs : now <= traffic.slots[t].at + Grace => s.slots[t] = traffic.slots[t]
<1>. DEFINE q == ReadTraffic(r)
<1>1. NoSlot \in Slots
  BY DEF NoSlot, Slots
<1>2. traffic \in States /\ now \in Nat /\ Grace \in Nat
  BY TrafficAssumption DEF TrafficTypeOK, States
<1>3. /\ q \in States
      /\ q.until = traffic.until /\ q.last = traffic.last /\ traffic.drops <= q.drops
      /\ \A t \in Tabs : q.slots[t] = traffic.slots[t] \/ q.slots[t] = NoSlot
      /\ q.drops = traffic.drops => q.slots = traffic.slots
  <2>1. CASE r = traffic.run
    <3>1. q = traffic
      BY <2>1 DEF ReadTraffic
    <3>. QED BY <3>1, <1>2 DEF States
  <2>2. CASE r # traffic.run
    <3>1. [t \in Tabs |-> NoSlot] \in [Tabs -> Slots]
      BY <1>1
    <3>. QED BY <2>2, <3>1, <1>2 DEF ReadTraffic, States
  <2>. QED BY <2>1, <2>2
<1>4. CASE s = q
  BY <1>3, <1>4
<1>5. CASE s = Pruned(q)
  <2>. DEFINE kept == [t \in Tabs |-> IF q.slots[t].at + Grace < now THEN NoSlot ELSE q.slots[t]]
  <2>1. kept \in [Tabs -> Slots]
    BY <1>1, <1>3 DEF States
  <2>2. s = [q EXCEPT !.slots = kept]
    BY <1>5 DEF Pruned
  <2>3. s \in States /\ s.slots = kept
        /\ s.until = q.until /\ s.last = q.last /\ s.drops = q.drops
    <3>. HIDE DEF kept, q
    <3>. QED BY <2>1, <2>2, <1>3, Replacing
  <2>4. \A t \in Tabs : traffic.slots[t].at \in Nat
    BY <1>2 DEF States, Slots
  <2>. QED BY <1>2, <1>3, <2>3, <2>4
<1>. QED BY <1>4, <1>5

\* Placing a slot changes no other, and nothing else.
LEMMA Placing ==
  ASSUME NEW s \in States, NEW t \in Tabs, NEW new \in Slots
  PROVE  /\ Placed(s, t, new) \in States
         /\ Placed(s, t, new).slots[t] = new
         /\ \A u \in Tabs \ {t} : Placed(s, t, new).slots[u] = s.slots[u]
         /\ Placed(s, t, new).until = s.until /\ Placed(s, t, new).last = s.last
         /\ Placed(s, t, new).drops = s.drops
BY DEF Placed, States

\* The instant found for a slot is behind every bound.
LEMMA Bounds ==
  ASSUME TrafficTypeOK, NEW s \in States, NEW t \in Tabs, NEW every \in Nat,
         NEW notBefore \in Nat, NEW at, Latest(at, SlotBounds(s, t, every, notBefore))
  PROVE  /\ at \in Nat /\ s.until <= at
         /\ \A u \in Tabs \ {t} : s.slots[u] # NoSlot => s.slots[u].at + every <= at
<1>1. s.until \in Nat /\ s.last \in Nat /\ now \in Nat
      /\ \A u \in Tabs : s.slots[u].at \in Nat
  BY DEF States, Slots, TrafficTypeOK
<1>. QED BY <1>1 DEF Latest, SlotBounds

--------------------------------------------------------------------------------
(* Pages *)

LEMMA InitInv == TrafficInit => Inv
<1>. SUFFICES ASSUME TrafficInit PROVE Inv
  OBVIOUS
<1>1. NoSlot \in Slots
  BY DEF NoSlot, Slots
<1>2. TrafficTypeOK
  BY <1>1 DEF TrafficInit, TrafficTypeOK, NoAsk
<1>. QED BY <1>2 DEF TrafficInit, Inv, IdsOK, SlotsSpaced, CooldownRespected, WaitersKeepTheirSlot, NoSlot

\* Steps of a page that leave the worker's state and take no slot: retries only
\* move on, are given up or begin under a fresh id.
LEMMA PageSteps ==
  ASSUME Inv, TrafficTypeOK', UNCHANGED <<now, traffic>>, asking' \in {asking, NoAsk},
         serial <= serial',
         \A t \in Tabs : slot'[t] <= serial',
         \A c \in retries' :
           \/ c.id = serial + 1 /\ c.id <= serial' /\ ~c.holds /\ c.drops = 0 /\ c.step = "reserve"
           \/ \E d \in retries : /\ c.tab = d.tab /\ c.id = d.id /\ c.at = d.at /\ c.drops = d.drops
                               /\ (c.holds => d.holds) /\ (c.step = "reserve" <=> d.step = "reserve"),
         \A c \in retries' : c.step = "reserve" => c.id # slot'[c.tab],
         \A c, d \in retries' : c.id = d.id => c = d,
         \A m \in cancels' \ cancels :
           /\ m.id <= serial
           /\ \A c \in retries' : m.tab = c.tab /\ m.id = c.id => ~c.holds /\ c.step # "reserve"
  PROVE  Inv'
<1>1. SlotsSpaced' /\ CooldownRespected'
  BY DEF Inv, SlotsSpaced, CooldownRespected
<1>2. WaitersKeepTheirSlot'
  BY DEF Inv, WaitersKeepTheirSlot
<1>3. IdsOK'
  <2>1. serial \in Nat /\ serial' \in Nat /\ traffic.drops \in Nat
        /\ (\A t \in Tabs : traffic.slots[t].id \in Nat) /\ (\A c \in retries : c.id \in Nat)
        /\ (\A m \in cancels : m.id \in Nat) /\ (\A c \in retries' : c.id \in Nat)
        /\ (\A m \in cancels' : m.id \in Nat)
    BY DEF Inv, TrafficTypeOK, Slots, Retries
  <2>2. IdsOK
    BY DEF Inv
  <2>3. \A c \in retries' : 1 <= c.id /\ c.id <= serial' /\ c.drops <= traffic'.drops
    BY <2>1, <2>2 DEF IdsOK
  <2>4. \A m \in cancels' : m.id <= serial'
    BY <2>1, <2>2 DEF IdsOK
  <2>5. \A t \in Tabs : traffic'.slots[t].id <= serial'
    BY <2>1, <2>2 DEF IdsOK
  <2>6. ASSUME NEW m \in cancels', NEW c \in retries', m.tab = c.tab, m.id = c.id
        PROVE  ~c.holds /\ c.step # "reserve"
    BY <2>1, <2>2, <2>6 DEF IdsOK
  <2>. QED BY <2>3, <2>4, <2>5, <2>6 DEF IdsOK
<1>. QED BY <1>1, <1>2, <1>3 DEF Inv

LEMMA FreshRetry ==
  ASSUME serial \in Nat, NEW t \in Tabs, NEW scan \in BOOLEAN, NEW n, n = NewRetry(t, scan)
  PROVE  /\ n \in Retries /\ n.tab = t /\ n.id = serial + 1 /\ n.drops = 0
         /\ ~n.holds /\ n.step = "reserve"
BY DEF NewRetry, Retries, Steps

LEMMA ScheduleInv == ASSUME Inv, NEW t \in Tabs, Schedule(t) PROVE Inv'
<1>. DEFINE n == NewRetry(t, TRUE)
<1>1. /\ retries' = retries \cup {n} /\ serial' = serial + 1
      /\ UNCHANGED <<now, run, traffic, asking, page, handle, slot, cancels>>
  BY DEF Schedule
<1>2. serial \in Nat
  BY DEF Inv, TrafficTypeOK
<1>3. /\ n \in Retries /\ n.tab = t /\ n.id = serial + 1 /\ n.drops = 0
      /\ ~n.holds /\ n.step = "reserve"
  BY <1>2, FreshRetry
<1>. HIDE DEF n
<1>4. TrafficTypeOK'
  BY <1>1, <1>3 DEF Inv, TrafficTypeOK
<1>5. IdsOK /\ \A c \in retries : c.id \in Nat
  BY DEF Inv, TrafficTypeOK, Retries
<1>6. \A c, d \in retries' : c.id = d.id => c = d
  BY <1>1, <1>2, <1>3, <1>5 DEF IdsOK
<1>7. slot \in [Tabs -> Nat]
  BY DEF Inv, TrafficTypeOK
<1>8. \A u \in Tabs : slot'[u] <= serial'
  BY <1>1, <1>2, <1>5, <1>7 DEF IdsOK
<1>9. \A c \in retries' :
        \/ c.id = serial + 1 /\ c.id <= serial' /\ ~c.holds /\ c.drops = 0 /\ c.step = "reserve"
        \/ \E d \in retries : c = d
  BY <1>1, <1>2, <1>3
<1>10. \A c \in retries' : c.step = "reserve" => c.id # slot'[c.tab]
  BY <1>1, <1>2, <1>3, <1>5, <1>7 DEF IdsOK
<1>. QED BY <1>1, <1>2, <1>4, <1>6, <1>8, <1>9, <1>10, PageSteps

\* One retry goes on, under its own id and without gaining a slot, or ends.
LEMMA OneMoves ==
  ASSUME Inv, TrafficTypeOK', UNCHANGED <<now, traffic, asking, serial, cancels>>,
         \A t \in Tabs : slot'[t] \in {slot[t], 0},
         NEW c \in retries, NEW d, d.tab = c.tab, d.id = c.id, d.at = c.at, d.drops = c.drops,
         d.holds => c.holds, c.step = "reserve" <=> d.step = "reserve",
         retries' = retries \ {c} \/ retries' = (retries \ {c}) \cup {d}
  PROVE  Inv'
<1>1. IdsOK /\ serial \in Nat /\ \A t \in Tabs : slot[t] \in Nat
  BY DEF Inv, TrafficTypeOK
<1>2. \A e \in retries' : \E f \in retries :
        /\ e.tab = f.tab /\ e.id = f.id /\ e.at = f.at /\ e.drops = f.drops
        /\ (e.holds => f.holds) /\ (e.step = "reserve" <=> f.step = "reserve")
  OBVIOUS
<1>3. \A e, f \in retries' : e.id = f.id => e = f
  BY <1>1 DEF IdsOK
<1>4. \A t \in Tabs : slot'[t] <= serial'
  BY <1>1 DEF IdsOK
<1>5. \A e \in retries' : e.step = "reserve" => e.id # slot'[e.tab]
  <2>1. \A e \in retries : e.tab \in Tabs /\ e.id # 0 /\ (e.step = "reserve" => e.id # slot[e.tab])
    BY <1>1 DEF IdsOK, Inv, TrafficTypeOK, Retries
  <2>. QED BY <2>1
<1>. QED BY <1>1, <1>2, <1>3, <1>4, <1>5, PageSteps

LEMMA MoveInv ==
  ASSUME Inv, NEW c \in retries, Refuse(c) \/ ArmRetry(c) \/ Fire(c) PROVE Inv'
<1>1. /\ retries \subseteq Retries /\ c \in Retries /\ c.id \in Nat /\ c.tab \in Tabs
      /\ handle \in [Tabs -> Nat] /\ slot \in [Tabs -> Nat]
  BY DEF Inv, TrafficTypeOK, Retries
<1>2. CASE Refuse(c)
  <2>1. TrafficTypeOK'
    BY <1>2 DEF Refuse, Inv, TrafficTypeOK, tabs
  <2>. QED BY <1>1, <1>2, <2>1, OneMoves DEF Refuse, tabs
<1>3. CASE ArmRetry(c)
  <2>1. [c EXCEPT !.step = "timer"] \in Retries
    BY <1>1 DEF Retries, Steps
  <2>2. TrafficTypeOK'
    BY <1>1, <1>3, <2>1 DEF ArmRetry, Goes, Inv, TrafficTypeOK
  <2>3. slot' = slot
    BY <1>3 DEF ArmRetry
  <2>. QED BY <1>1, <1>3, <2>2, <2>3, OneMoves DEF ArmRetry, Goes, Retries
<1>4. CASE Fire(c)
  <2>1. [c EXCEPT !.step = "check"] \in Retries
    BY <1>1 DEF Retries, Steps
  <2>2. slot' \in [Tabs -> Nat] /\ handle' \in [Tabs -> Nat]
        /\ \A t \in Tabs : slot'[t] \in {slot[t], 0}
    BY <1>1, <1>4 DEF Fire
  <2>3. TrafficTypeOK'
    BY <1>1, <1>4, <2>1, <2>2 DEF Fire, Goes, Inv, TrafficTypeOK
  <2>. QED BY <1>1, <1>4, <2>2, <2>3, OneMoves DEF Fire, Goes, Retries
<1>. QED BY <1>2, <1>3, <1>4

\* clearNavigationRetry: the retry whose slot is canceled loses it.
LEMMA ClearInv ==
  ASSUME Inv, NEW t \in Tabs, Clear(t), UNCHANGED <<now, run, traffic, asking, serial>>,
         page' \in [Tabs -> {"watch", "add", "cut"}]
  PROVE  Inv'
<1>. DEFINE lost(c) == IF c.tab = t /\ c.id = slot[t] THEN [c EXCEPT !.holds = FALSE] ELSE c
<1>1. /\ slot \in [Tabs -> Nat] /\ retries \subseteq Retries /\ IdsOK /\ serial \in Nat
      /\ cancels \subseteq [tab : Tabs, id : Nat]
  BY DEF Inv, TrafficTypeOK
<1>2. \A c \in retries : lost(c) \in Retries /\ lost(c).tab = c.tab /\ lost(c).id = c.id
        /\ lost(c).at = c.at /\ lost(c).drops = c.drops /\ lost(c).step = c.step
        /\ (lost(c).holds => c.holds)
        /\ (c.tab = t /\ c.id = slot[t] => ~lost(c).holds)
  BY <1>1 DEF Retries
<1>3. \A c \in retries' : \E d \in retries : c = lost(d)
  BY DEF Clear
<1>. HIDE DEF lost
<1>4. /\ slot' = [slot EXCEPT ![t] = 0] /\ handle' = [handle EXCEPT ![t] = 0]
      /\ cancels' = cancels \/ cancels' = cancels \cup {[tab |-> t, id |-> slot[t]]}
  BY DEF Clear
<1>5. TrafficTypeOK'
  BY <1>1, <1>2, <1>3, <1>4 DEF Inv, TrafficTypeOK
<1>6. \A u \in Tabs : slot'[u] <= serial'
  BY <1>1, <1>4 DEF IdsOK
<1>7. \A c, d \in retries' : c.id = d.id => c = d
  BY <1>1, <1>2, <1>3 DEF IdsOK
<1>8. \A m \in cancels' \ cancels :
        /\ m.id <= serial
        /\ \A c \in retries' : m.tab = c.tab /\ m.id = c.id => ~c.holds /\ c.step # "reserve"
  BY <1>1, <1>2, <1>3, <1>4 DEF IdsOK
<1>9. \A c \in retries' : \E d \in retries :
        /\ c.tab = d.tab /\ c.id = d.id /\ c.at = d.at /\ c.drops = d.drops
        /\ (c.holds => d.holds) /\ (c.step = "reserve" <=> d.step = "reserve")
  BY <1>2, <1>3
<1>10. \A c \in retries' : c.step = "reserve" => c.id # slot'[c.tab]
  <2>1. \A c \in retries : c.tab \in Tabs /\ c.id # 0 /\ (c.step = "reserve" => c.id # slot[c.tab])
    BY <1>1 DEF IdsOK, Retries
  <2>. QED BY <1>1, <1>2, <1>3, <1>4, <2>1
<1>. QED BY <1>1, <1>5, <1>6, <1>7, <1>8, <1>9, <1>10, PageSteps

\* Retries only end.
LEMMA RetriesEnd ==
  ASSUME Inv, TrafficTypeOK', UNCHANGED <<now, traffic, serial, cancels>>,
         asking' \in {asking, NoAsk}, retries' \subseteq retries,
         \A t \in Tabs : slot'[t] \in {slot[t], 0}
  PROVE  Inv'
<1>1. IdsOK /\ serial \in Nat /\ \A t \in Tabs : slot[t] \in Nat
  BY DEF Inv, TrafficTypeOK
<1>2. \A t \in Tabs : slot'[t] <= serial'
  BY <1>1 DEF IdsOK
<1>3. \A c, d \in retries' : c.id = d.id => c = d
  BY <1>1 DEF IdsOK
<1>4. \A c \in retries' : \E d \in retries : c = d
  OBVIOUS
<1>5. \A c \in retries' : c.step = "reserve" => c.id # slot'[c.tab]
  <2>1. \A c \in retries : c.tab \in Tabs /\ c.id # 0 /\ (c.step = "reserve" => c.id # slot[c.tab])
    BY <1>1 DEF IdsOK, Inv, TrafficTypeOK, Retries
  <2>. QED BY <2>1
<1>. QED BY <1>1, <1>2, <1>3, <1>4, <1>5, PageSteps

LEMMA NewPageInv ==
  ASSUME Inv, NEW t \in Tabs, NEW as \in {"watch", "cut"}, NewPage(t, as), asking' \in {asking, NoAsk}
  PROVE  Inv'
<1>1. TrafficTypeOK /\ NoAsk \in [tab : Tabs \cup {"none"}, id : Nat]
  BY DEF Inv, NoAsk
<1>2. /\ page' \in [Tabs -> {"watch", "add", "cut"}] /\ handle' \in [Tabs -> Nat]
      /\ slot' \in [Tabs -> Nat] /\ \A u \in Tabs : slot'[u] \in {slot[u], 0}
  BY <1>1 DEF NewPage, TrafficTypeOK
<1>3. retries' \subseteq retries /\ UNCHANGED <<now, run, traffic, serial, cancels>>
  BY DEF NewPage
<1>4. TrafficTypeOK'
  BY <1>1, <1>2, <1>3 DEF TrafficTypeOK
<1>. QED BY <1>2, <1>3, <1>4, RetriesEnd

LEMMA AnswerInv == ASSUME Inv, Answer PROVE Inv'
<1>1. CASE NoReload
  <2>1. retries' \subseteq retries /\ UNCHANGED <<now, run, traffic, tabs, cancels>> /\ asking' = NoAsk
    BY <1>1 DEF NoReload, Answer
  <2>2. NoAsk \in [tab : Tabs \cup {"none"}, id : Nat]
    BY DEF NoAsk
  <2>3. TrafficTypeOK'
    BY <2>1, <2>2 DEF tabs, Inv, TrafficTypeOK
  <2>. QED BY <2>1, <2>3, RetriesEnd DEF tabs
<1>2. CASE Reloads
  <2>1. PICK c \in retries : c.tab = asking.tab
    BY <1>2 DEF Reloads
  <2>2. asking.tab \in Tabs
    BY <2>1 DEF Inv, TrafficTypeOK, Retries
  <2>3. PICK as \in {"watch", "cut"} : NewPage(asking.tab, as)
    BY <1>2 DEF Reloads
  <2>. QED BY <2>2, <2>3, NewPageInv DEF Answer
<1>. QED BY <1>1, <1>2 DEF Answer

LEMMA PageInv ==
  ASSUME Inv, NEW t \in Tabs, Withdraw(t) \/ Qualify(t) \/ Added(t) \/ Leave(t) PROVE Inv'
<1>1. page \in [Tabs -> {"watch", "add", "cut"}]
  BY DEF Inv, TrafficTypeOK
<1>2. CASE Withdraw(t)
  BY <1>1, <1>2, ClearInv DEF Withdraw
<1>3. CASE Qualify(t)
  BY <1>1, <1>3, ClearInv DEF Qualify
<1>4. CASE Leave(t)
  BY <1>4, NewPageInv DEF Leave
<1>5. CASE Added(t)
  <2>1. TrafficTypeOK'
    BY <1>1, <1>5 DEF Added, Inv, TrafficTypeOK
  <2>. QED BY <1>5, <2>1, RetriesEnd DEF Added
<1>. QED BY <1>2, <1>3, <1>4, <1>5

LEMMA ClockInv == ASSUME Inv, NewRun \/ Tick PROVE Inv'
<1>1. CASE NewRun
  <2>1. TrafficTypeOK'
    BY <1>1 DEF NewRun, tabs, Inv, TrafficTypeOK
  <2>. QED BY <1>1, <2>1, RetriesEnd DEF NewRun, tabs
<1>2. CASE Tick
  <2>1. now \in Nat /\ now' = now + 1 /\ UNCHANGED <<run, traffic, asking, retries, tabs, cancels>>
    BY <1>2 DEF Tick, Inv, TrafficTypeOK
  <2>2. TrafficTypeOK' /\ IdsOK' /\ SlotsSpaced'
    BY <2>1 DEF tabs, Inv, TrafficTypeOK, IdsOK, SlotsSpaced
  <2>3. CooldownRespected'
    BY <2>1 DEF Inv, TrafficTypeOK, CooldownRespected
  <2>4. WaitersKeepTheirSlot'
    <3>1. \A c \in retries : c.at + Grace \in Nat
      BY TrafficAssumption DEF Inv, TrafficTypeOK, Retries
    <3>. QED BY <2>1, <3>1 DEF Inv, WaitersKeepTheirSlot
  <2>. QED BY <2>2, <2>3, <2>4 DEF Inv
<1>. QED BY <1>1, <1>2

--------------------------------------------------------------------------------
(* The worker *)

\* A slot that a retry holds is still there after reading and pruning.
LEMMA HeldSlots ==
  ASSUME Inv, NEW r \in Nat, NEW s, s = ReadTraffic(r) \/ s = Pruned(ReadTraffic(r)),
         NEW c \in retries, c.holds, c.step # "reserve", c.drops = s.drops, now <= c.at + Grace
  PROVE  s.slots[c.tab].id = c.id /\ s.slots[c.tab].at = c.at
<1>1. TrafficTypeOK /\ c.tab \in Tabs /\ c.drops \in Nat /\ traffic.drops \in Nat
  BY DEF Inv, TrafficTypeOK, Retries
<1>2. s \in States /\ traffic.drops <= s.drops
      /\ (s.drops = traffic.drops =>
           \A t \in Tabs : now <= traffic.slots[t].at + Grace => s.slots[t] = traffic.slots[t])
  BY <1>1, Reading
<1>3. c.drops <= traffic.drops
  BY DEF Inv, IdsOK
<1>4. c.drops = traffic.drops
  BY <1>1, <1>2, <1>3
<1>5. traffic.slots[c.tab].id = c.id /\ traffic.slots[c.tab].at = c.at
  BY <1>4 DEF Inv, WaitersKeepTheirSlot
<1>. QED BY <1>1, <1>2, <1>4, <1>5

\* Losing slots brings none nearer to another.
LEMMA SlotsLost ==
  ASSUME Inv, \A t \in Tabs : traffic'.slots[t] = traffic.slots[t] \/ traffic'.slots[t] = NoSlot
  PROVE  SlotsSpaced' /\ \A t \in Tabs : traffic'.slots[t].id <= serial
<1>1. SlotsSpaced'
  BY DEF Inv, SlotsSpaced
<1>2. NoSlot.id = 0 /\ serial \in Nat /\ \A t \in Tabs : traffic.slots[t].id <= serial
  BY DEF Inv, IdsOK, NoSlot, TrafficTypeOK
<1>. QED BY <1>1, <1>2

\* A slot placed behind all others is apart from them.
LEMMA SlotPlaced ==
  ASSUME Inv, NEW s \in States, NEW t \in Tabs, NEW new \in Slots, traffic' = Placed(s, t, new),
         new.id <= serial,
         \A u \in Tabs : s.slots[u] = traffic.slots[u] \/ s.slots[u] = NoSlot,
         \A u \in Tabs \ {t} : s.slots[u] # NoSlot => s.slots[u].at + new.every <= new.at
  PROVE  SlotsSpaced' /\ \A u \in Tabs : traffic'.slots[u].id <= serial
<1>1. traffic'.slots[t] = new /\ \A u \in Tabs \ {t} : traffic'.slots[u] = s.slots[u]
  BY Placing
<1>2. ASSUME NEW u \in Tabs, NEW v \in Tabs, u # v,
             traffic'.slots[u] # NoSlot, traffic'.slots[v] # NoSlot
      PROVE  \/ traffic'.slots[u].at >= traffic'.slots[v].at + traffic'.slots[u].every
             \/ traffic'.slots[v].at >= traffic'.slots[u].at + traffic'.slots[v].every
  <2>1. \A w \in Tabs : s.slots[w].at \in Nat /\ s.slots[w].every \in Nat
    BY DEF States, Slots
  <2>2. new.at \in Nat /\ new.every \in Nat
    BY DEF Slots
  <2>3. CASE u = t
    BY <1>1, <1>2, <2>1, <2>2, <2>3
  <2>4. CASE v = t
    BY <1>1, <1>2, <2>1, <2>2, <2>4
  <2>5. CASE u # t /\ v # t
    <3>1. /\ traffic'.slots[u] = traffic.slots[u] /\ traffic'.slots[v] = traffic.slots[v]
          /\ traffic.slots[u] # NoSlot /\ traffic.slots[v] # NoSlot
      BY <1>1, <1>2, <2>5
    <3>. QED BY <1>2, <3>1 DEF Inv, SlotsSpaced
  <2>. QED BY <2>3, <2>4, <2>5
<1>3. NoSlot.id = 0 /\ serial \in Nat /\ \A u \in Tabs : traffic.slots[u].id <= serial
  BY DEF Inv, IdsOK, NoSlot, TrafficTypeOK
<1>4. \A u \in Tabs : traffic'.slots[u].id <= serial
  BY <1>1, <1>3
<1>. QED BY <1>2, <1>4 DEF SlotsSpaced

\* The ids stay in order when the worker changes nothing but the stored state.
LEMMA IdsKept ==
  ASSUME Inv, traffic.drops <= traffic'.drops, traffic'.drops \in Nat,
         \A t \in Tabs : traffic'.slots[t].id <= serial,
         UNCHANGED <<retries, tabs>>, cancels' \subseteq cancels
  PROVE  IdsOK'
<1>1. traffic.drops \in Nat /\ IdsOK /\ \A c \in retries : c.drops \in Nat
  BY DEF Inv, TrafficTypeOK, Retries
<1>. QED BY <1>1 DEF IdsOK, tabs

LEMMA CancelInv == ASSUME Inv, NEW m \in cancels, NEW r \in Nat, Cancel(m, r) PROVE Inv'
<1>. DEFINE s == Pruned(ReadTraffic(r))
<1>1. /\ traffic' = Canceled(s, m) /\ cancels' = cancels \ {m} /\ asking = NoAsk
      /\ UNCHANGED <<now, run, asking, retries, tabs>>
  BY DEF Cancel
<1>2. TrafficTypeOK /\ m.tab \in Tabs /\ NoSlot \in Slots /\ NoSlot.id = 0
  BY DEF Inv, TrafficTypeOK, NoSlot, Slots
<1>3. /\ s \in States /\ traffic.drops <= s.drops
      /\ \A t \in Tabs : s.slots[t] = traffic.slots[t] \/ s.slots[t] = NoSlot
  BY <1>2, Reading
<1>4. \A c \in retries : c.holds /\ c.step # "reserve" /\ c.drops = s.drops /\ now <= c.at + Grace
        => s.slots[c.tab].id = c.id /\ s.slots[c.tab].at = c.at
  BY HeldSlots
<1>. HIDE DEF s
<1>5. /\ traffic' \in States /\ traffic'.drops = s.drops
      /\ \A t \in Tabs : \/ traffic'.slots[t] = s.slots[t]
                         \/ traffic'.slots[t] = NoSlot /\ t = m.tab /\ s.slots[t].id = m.id
  <2>1. CASE s.slots[m.tab].id = m.id
    BY <1>1, <1>2, <1>3, <2>1, Placing DEF Canceled
  <2>2. CASE s.slots[m.tab].id # m.id
    BY <1>1, <1>3, <2>2 DEF Canceled
  <2>. QED BY <2>1, <2>2
<1>6. TrafficTypeOK'
  BY <1>1, <1>2, <1>5 DEF TrafficTypeOK, States, tabs
<1>7. SlotsSpaced' /\ \A t \in Tabs : traffic'.slots[t].id <= serial
  BY <1>3, <1>5, SlotsLost
<1>8. IdsOK'
  BY <1>1, <1>3, <1>5, <1>7, IdsKept DEF States
<1>9. CooldownRespected'
  BY <1>1 DEF CooldownRespected
<1>10. WaitersKeepTheirSlot'
  <2>1. \A c \in retries : c.tab \in Tabs
    BY <1>2 DEF TrafficTypeOK, Retries
  <2>2. \A c \in retries : m.tab = c.tab /\ m.id = c.id => ~c.holds
    BY DEF Inv, IdsOK
  <2>. QED BY <1>1, <1>4, <1>5, <2>1, <2>2 DEF WaitersKeepTheirSlot
<1>. QED BY <1>6, <1>7, <1>8, <1>9, <1>10 DEF Inv

\* A page opened otherwise, and an overload.
LEMMA ObservedInv ==
  ASSUME Inv, NEW r \in Nat, OpenPage(r) \/ \E d \in Cooldowns : Overload(d, r) PROVE Inv'
<1>1. TrafficTypeOK /\ now \in Nat
  BY DEF Inv, TrafficTypeOK
<1>2. PICK s : /\ s = ReadTraffic(r) \/ s = Pruned(ReadTraffic(r))
               /\ \/ traffic' = [s EXCEPT !.last = now]
                  \/ \E d \in Nat : traffic' = [s EXCEPT !.until = d]
               /\ asking = NoAsk /\ UNCHANGED <<now, run, asking, retries, tabs, cancels>>
  <2>1. CASE OpenPage(r)
    BY <2>1 DEF OpenPage
  <2>2. ASSUME NEW d \in Cooldowns, Overload(d, r)
        PROVE  \E s : /\ s = ReadTraffic(r) \/ s = Pruned(ReadTraffic(r))
                      /\ \E e \in Nat : traffic' = [s EXCEPT !.until = e]
                      /\ asking = NoAsk /\ UNCHANGED <<now, run, asking, retries, tabs, cancels>>
    <3>. DEFINE s == Pruned(ReadTraffic(r))
                e == IF s.until > now + d THEN s.until ELSE now + d
    <3>1. s \in States
      BY <1>1, Reading
    <3>2. e \in Nat
      BY <1>1, <3>1, TrafficAssumption DEF States
    <3>3. traffic' = [s EXCEPT !.until = e]
      BY <2>2 DEF Overload
    <3>. QED BY <2>2, <3>2, <3>3 DEF Overload
  <2>. QED BY <2>1, <2>2
<1>3. /\ s \in States /\ traffic.drops <= s.drops
      /\ \A t \in Tabs : s.slots[t] = traffic.slots[t] \/ s.slots[t] = NoSlot
  BY <1>1, <1>2, Reading
<1>4. \A c \in retries : c.holds /\ c.step # "reserve" /\ c.drops = s.drops /\ now <= c.at + Grace
        => s.slots[c.tab].id = c.id /\ s.slots[c.tab].at = c.at
  BY <1>2, HeldSlots
<1>5. traffic' \in States /\ traffic'.drops = s.drops /\ traffic'.slots = s.slots
  BY <1>1, <1>2, <1>3 DEF States
<1>6. TrafficTypeOK'
  BY <1>1, <1>2, <1>5 DEF TrafficTypeOK, States, tabs
<1>7. SlotsSpaced' /\ \A t \in Tabs : traffic'.slots[t].id <= serial
  BY <1>3, <1>5, SlotsLost
<1>8. IdsOK'
  BY <1>2, <1>3, <1>5, <1>7, IdsKept DEF States
<1>9. CooldownRespected' /\ WaitersKeepTheirSlot'
  BY <1>2, <1>4, <1>5 DEF CooldownRespected, WaitersKeepTheirSlot
<1>. QED BY <1>6, <1>7, <1>8, <1>9 DEF Inv

\* A retry is served: its slot is placed behind the others, and it alone of its
\* tab holds one.
LEMMA ReserveInv ==
  ASSUME Inv, NEW c \in retries, NEW every \in Intervals, NEW delay \in Delays, NEW r \in Nat,
         Reserve(c, every, delay, r)
  PROVE  Inv'
<1>. DEFINE s == Pruned(ReadTraffic(r))
            bare(d) == IF d.tab = c.tab THEN [d EXCEPT !.holds = FALSE] ELSE d
<1>1. PICK at : /\ Latest(at, SlotBounds(s, c.tab, every, now + delay))
                /\ traffic' = Placed(s, c.tab, [id |-> c.id, at |-> at, every |-> every])
                /\ retries' = {bare(d) : d \in retries \ {c}}
                     \cup {[c EXCEPT !.step = "notice", !.at = at, !.drops = s.drops, !.holds = TRUE]}
  BY DEF Reserve
<1>2. /\ asking = NoAsk /\ c.step = "reserve" /\ slot' = [slot EXCEPT ![c.tab] = c.id]
      /\ UNCHANGED <<now, run, asking, page, handle, serial, cancels>>
  BY DEF Reserve
<1>3. /\ TrafficTypeOK /\ IdsOK /\ every \in Nat /\ now + delay \in Nat /\ retries \subseteq Retries
      /\ c \in Retries /\ c.tab \in Tabs /\ c.id \in Nat /\ serial \in Nat /\ slot \in [Tabs -> Nat]
  BY TrafficAssumption DEF Inv, TrafficTypeOK, Retries
<1>4. /\ s \in States /\ s.drops \in Nat /\ traffic.drops \in Nat /\ traffic.drops <= s.drops
      /\ \A t \in Tabs : s.slots[t] = traffic.slots[t] \/ s.slots[t] = NoSlot
  BY <1>3, Reading DEF States, TrafficTypeOK
<1>5. \A d \in retries : d.holds /\ d.step # "reserve" /\ d.drops = s.drops /\ now <= d.at + Grace
        => s.slots[d.tab].id = d.id /\ s.slots[d.tab].at = d.at
  BY HeldSlots
<1>. HIDE DEF s
<1>6. /\ at \in Nat
      /\ \A u \in Tabs \ {c.tab} : s.slots[u] # NoSlot => s.slots[u].at + every <= at
  BY <1>1, <1>3, <1>4, Bounds
<1>. DEFINE new == [id |-> c.id, at |-> at, every |-> every]
            e == [c EXCEPT !.step = "notice", !.at = at, !.drops = s.drops, !.holds = TRUE]
<1>7. new \in Slots /\ new.id = c.id /\ new.at = at /\ new.every = every
  BY <1>3, <1>6 DEF Slots
<1>8. /\ e \in Retries /\ e.tab = c.tab /\ e.id = c.id /\ e.at = at /\ e.drops = s.drops
      /\ e.step = "notice"
  BY <1>3, <1>4, <1>6 DEF Retries, Steps
<1>9. \A d \in retries : /\ bare(d) \in Retries /\ bare(d).tab = d.tab /\ bare(d).id = d.id
        /\ bare(d).at = d.at /\ bare(d).drops = d.drops /\ bare(d).step = d.step
        /\ (bare(d).holds => d.holds /\ d.tab # c.tab)
  BY <1>3 DEF Retries
<1>10. \A d \in retries' : d = e \/ \E f \in retries : f # c /\ d = bare(f)
  BY <1>1
<1>11. traffic' = Placed(s, c.tab, new)
  BY <1>1
<1>. HIDE DEF new, e, bare
<1>12. /\ traffic' \in States /\ traffic'.drops = s.drops /\ traffic'.until = s.until
       /\ traffic'.slots[c.tab] = new
       /\ \A u \in Tabs \ {c.tab} : traffic'.slots[u] = s.slots[u]
  BY <1>3, <1>4, <1>7, <1>11, Placing
<1>13. TrafficTypeOK'
  <2>1. retries' \subseteq Retries
    BY <1>8, <1>9, <1>10
  <2>. QED BY <1>2, <1>3, <1>12, <2>1 DEF TrafficTypeOK, States
<1>14. SlotsSpaced' /\ \A u \in Tabs : traffic'.slots[u].id <= serial
  <2>1. new.id <= serial
    BY <1>3, <1>7 DEF IdsOK
  <2>2. \A u \in Tabs \ {c.tab} : s.slots[u] # NoSlot => s.slots[u].at + new.every <= new.at
    BY <1>6, <1>7
  <2>. QED BY <1>3, <1>4, <1>7, <1>11, <2>1, <2>2, SlotPlaced
<1>15. IdsOK'
  <2>1. \A d \in retries' : 1 <= d.id /\ d.id <= serial' /\ d.drops <= traffic'.drops
    <3>1. \A d \in retries : d.drops \in Nat /\ d.drops <= traffic.drops
      BY <1>3 DEF IdsOK, Retries
    <3>2. \A d \in retries : d.drops <= s.drops
      BY <1>4, <3>1
    <3>3. \A d \in retries : 1 <= d.id /\ d.id <= serial
      BY <1>3 DEF IdsOK
    <3>. QED BY <1>2, <1>4, <1>8, <1>9, <1>10, <1>12, <3>2, <3>3
  <2>2. \A d, f \in retries' : d.id = f.id => d = f
    BY <1>3, <1>8, <1>9, <1>10 DEF IdsOK
  <2>3. \A t \in Tabs : slot'[t] <= serial'
    BY <1>2, <1>3 DEF IdsOK
  <2>4. \A d \in retries' : d.step = "reserve" => d.id # slot'[d.tab]
    <3>1. \A f \in retries : f.tab \in Tabs
      BY <1>3 DEF Retries
    <3>2. \A f \in retries : f # c => f.id # c.id /\ (f.step = "reserve" => f.id # slot[f.tab])
      BY <1>3 DEF IdsOK
    <3>. QED BY <1>2, <1>3, <1>8, <1>9, <1>10, <3>1, <3>2
  <2>5. \A m \in cancels', d \in retries' :
          m.tab = d.tab /\ m.id = d.id => ~d.holds /\ d.step # "reserve"
    BY <1>2, <1>3, <1>8, <1>9, <1>10 DEF IdsOK
  <2>. QED BY <1>2, <1>3, <1>14, <2>1, <2>2, <2>3, <2>4, <2>5 DEF IdsOK
<1>16. CooldownRespected'
  BY <1>2 DEF CooldownRespected
<1>17. WaitersKeepTheirSlot'
  <2>1. \A f \in retries : f.tab \in Tabs
    BY <1>3 DEF Retries
  <2>2. ASSUME NEW d \in retries', d.holds, d.step # "reserve", d.drops = s.drops, now <= d.at + Grace
        PROVE  traffic'.slots[d.tab].id = d.id /\ traffic'.slots[d.tab].at = d.at
    <3>1. CASE d = e
      BY <1>7, <1>8, <1>12, <3>1
    <3>2. ASSUME NEW f \in retries, d = bare(f)
          PROVE  traffic'.slots[d.tab].id = d.id /\ traffic'.slots[d.tab].at = d.at
      BY <1>5, <1>9, <1>12, <2>1, <2>2, <3>2
    <3>. QED BY <1>10, <3>1, <3>2
  <2>. QED BY <1>2, <1>12, <2>2 DEF WaitersKeepTheirSlot
<1>. QED BY <1>13, <1>14, <1>15, <1>16, <1>17 DEF Inv

\* A fired retry is told to ask again, to wait, or to go.
LEMMA RevalidateInv ==
  ASSUME Inv, NEW c \in retries, NEW r \in Nat, Revalidate(c, r) PROVE Inv'
<1>. DEFINE s == Pruned(ReadTraffic(r))
            mine == s.slots[c.tab]
<1>1. /\ \/ SlotMissing(s, c)
         \/ /\ mine.id = c.id
            /\ \E at : RevalidatedAt(s, c.tab, at) /\ (SlotWaits(s, c, at) \/ SlotUsed(s, c, at))
      /\ asking = NoAsk /\ c.step = "check" /\ UNCHANGED <<now, run, page, cancels>>
  BY DEF Revalidate
<1>2. /\ TrafficTypeOK /\ IdsOK /\ now \in Nat /\ retries \subseteq Retries
      /\ c \in Retries /\ c.tab \in Tabs /\ c.id \in Nat /\ serial \in Nat
      /\ slot \in [Tabs -> Nat] /\ handle \in [Tabs -> Nat]
  BY DEF Inv, TrafficTypeOK, Retries
<1>3. /\ s \in States /\ s.drops \in Nat /\ s.until \in Nat /\ mine \in Slots
      /\ traffic.drops \in Nat /\ traffic.drops <= s.drops
      /\ \A t \in Tabs : s.slots[t] = traffic.slots[t] \/ s.slots[t] = NoSlot
  BY <1>2, Reading DEF States, TrafficTypeOK
<1>4. \A d \in retries : d.holds /\ d.step # "reserve" /\ d.drops = s.drops /\ now <= d.at + Grace
        => s.slots[d.tab].id = d.id /\ s.slots[d.tab].at = d.at
  BY HeldSlots
<1>5. \A d \in retries : /\ d.tab \in Tabs /\ d.id \in Nat /\ d.drops \in Nat
                         /\ 1 <= d.id /\ d.id <= serial /\ d.drops <= s.drops
                         /\ (d.id = c.id => d = c)
                         /\ (d.step = "reserve" => d.id # slot[d.tab])
  <2>1. \A d \in retries : d.tab \in Tabs /\ d.id \in Nat /\ d.drops \in Nat /\ d.drops <= traffic.drops
    BY <1>2 DEF IdsOK, Retries
  <2>. QED BY <1>2, <1>3, <2>1 DEF IdsOK
<1>6. NoSlot \in Slots /\ NoSlot.id = 0
  BY DEF NoSlot, Slots
<1>. HIDE DEF s
<1>7. CASE SlotMissing(s, c)
  <2>1. traffic' = s /\ UNCHANGED <<asking, handle, slot>>
    BY <1>7 DEF SlotMissing
  <2>. DEFINE n == NewRetry(c.tab, FALSE)
  <2>2. \/ serial' = serial + 1 /\ retries' = (retries \ {c}) \cup {n}
        \/ serial' = serial /\ retries' = retries \ {c}
    BY <1>7 DEF SlotMissing, Goes
  <2>3. /\ n \in Retries /\ n.tab = c.tab /\ n.id = serial + 1 /\ n.drops = 0
        /\ ~n.holds /\ n.step = "reserve"
    BY <1>2, FreshRetry
  <2>. HIDE DEF n
  <2>4. /\ serial' \in Nat /\ serial <= serial'
        /\ \A d \in retries' : \/ d \in retries \ {c}
             \/ /\ serial' = serial + 1 /\ d \in Retries /\ d.tab = c.tab /\ d.id = serial + 1
                /\ d.drops = 0 /\ ~d.holds /\ d.step = "reserve"
        /\ \A d, f \in retries' : d \notin retries /\ f \notin retries => d = f
    BY <1>2, <2>2, <2>3
  <2>5. TrafficTypeOK'
    BY <1>1, <1>2, <1>3, <2>1, <2>4 DEF TrafficTypeOK, States
  <2>6. SlotsSpaced' /\ \A t \in Tabs : traffic'.slots[t].id <= serial
    BY <1>3, <2>1, SlotsLost
  <2>7. IdsOK'
    <3>1. \A d \in retries' : 1 <= d.id /\ d.id <= serial' /\ d.drops <= traffic'.drops
      BY <1>2, <1>3, <1>5, <2>1, <2>4
    <3>2. \A d, f \in retries' : d.id = f.id => d = f
      BY <1>2, <1>5, <2>4 DEF IdsOK
    <3>3. \A t \in Tabs : slot[t] <= serial /\ traffic'.slots[t].id \in Nat
      BY <1>2, <1>3, <2>1 DEF IdsOK, States, Slots
    <3>4. \A t \in Tabs : slot'[t] <= serial' /\ traffic'.slots[t].id <= serial'
      BY <1>2, <2>1, <2>4, <2>6, <3>3
    <3>5. \A d \in retries' : d.step = "reserve" => d.id # slot'[d.tab]
      BY <1>2, <1>5, <2>1, <2>4, <3>3
    <3>6. \A m \in cancels : m.id \in Nat /\ m.id <= serial
      BY <1>2 DEF IdsOK, TrafficTypeOK
    <3>7. \A m \in cancels' : m.id <= serial'
      BY <1>1, <1>2, <2>4, <3>6
    <3>8. \A m \in cancels', d \in retries' :
            m.tab = d.tab /\ m.id = d.id => ~d.holds /\ d.step # "reserve"
      BY <1>1, <1>2, <2>4, <3>6 DEF IdsOK
    <3>. QED BY <3>1, <3>2, <3>4, <3>5, <3>7, <3>8 DEF IdsOK
  <2>8. CooldownRespected' /\ WaitersKeepTheirSlot'
    BY <1>1, <1>4, <2>1, <2>4 DEF CooldownRespected, WaitersKeepTheirSlot
  <2>. QED BY <2>5, <2>6, <2>7, <2>8 DEF Inv
<1>8. ASSUME NEW at, mine.id = c.id, RevalidatedAt(s, c.tab, at)
      PROVE  /\ at \in Nat /\ s.until <= at
             /\ \/ at = mine.at
                \/ \A u \in Tabs \ {c.tab} : s.slots[u] # NoSlot => s.slots[u].at + mine.every <= at
  <2>1. mine.at \in Nat /\ mine.every \in Nat
    BY <1>3 DEF Slots
  <2>2. CASE s.until > mine.at
    <3>1. Latest(at, SlotBounds(s, c.tab, mine.every, s.until))
      BY <1>8, <2>2 DEF RevalidatedAt
    <3>. QED BY <1>2, <1>3, <2>1, <3>1, Bounds
  <2>3. CASE ~(s.until > mine.at)
    BY <1>3, <1>8, <2>1, <2>3 DEF RevalidatedAt
  <2>. QED BY <2>2, <2>3
<1>9. ASSUME NEW at, mine.id = c.id, RevalidatedAt(s, c.tab, at), SlotWaits(s, c, at) PROVE Inv'
  <2>. DEFINE new == [mine EXCEPT !.at = at]
              e == [c EXCEPT !.step = "timer", !.at = at]
  <2>1. /\ traffic' = Placed(s, c.tab, new) /\ retries' = (retries \ {c}) \cup {e}
        /\ handle' = [handle EXCEPT ![c.tab] = c.id] /\ slot' = [slot EXCEPT ![c.tab] = c.id]
        /\ UNCHANGED <<asking, serial>>
    BY <1>9 DEF SlotWaits, Goes
  <2>2. at \in Nat
    BY <1>8, <1>9
  <2>3. new \in Slots /\ new.id = c.id /\ new.at = at /\ new.every = mine.every
        /\ (at = mine.at => new = mine)
    BY <1>3, <1>9, <2>2 DEF Slots
  <2>4. /\ e \in Retries /\ e.tab = c.tab /\ e.id = c.id /\ e.at = at /\ e.drops = c.drops
        /\ e.step = "timer" /\ e.holds = c.holds
    BY <1>2, <2>2 DEF Retries, Steps
  <2>. HIDE DEF new, e
  <2>5. /\ traffic' \in States /\ traffic'.drops = s.drops /\ traffic'.slots[c.tab] = new
        /\ \A u \in Tabs \ {c.tab} : traffic'.slots[u] = s.slots[u]
    BY <1>2, <1>3, <2>1, <2>3, Placing
  <2>6. TrafficTypeOK'
    BY <1>1, <1>2, <2>1, <2>4, <2>5 DEF TrafficTypeOK, States
  <2>7. SlotsSpaced' /\ \A t \in Tabs : traffic'.slots[t].id <= serial
    <3>1. CASE at = mine.at
      <4>1. \A t \in Tabs : traffic'.slots[t] = traffic.slots[t] \/ traffic'.slots[t] = NoSlot
        BY <1>2, <1>3, <2>3, <2>5, <3>1
      <4>. QED BY <4>1, SlotsLost
    <3>2. CASE at # mine.at
      <4>1. \A u \in Tabs \ {c.tab} : s.slots[u] # NoSlot => s.slots[u].at + new.every <= new.at
        BY <1>8, <1>9, <2>3, <3>2
      <4>. QED BY <1>2, <1>3, <1>5, <2>1, <2>3, <4>1, SlotPlaced
    <3>. QED BY <3>1, <3>2
  <2>8. IdsOK'
    <3>1. \A d \in retries' : 1 <= d.id /\ d.id <= serial' /\ d.drops <= traffic'.drops
      BY <1>5, <2>1, <2>4, <2>5
    <3>2. \A d, f \in retries' : d.id = f.id => d = f
      BY <1>2, <2>1, <2>4 DEF IdsOK
    <3>3. \A t \in Tabs : slot'[t] <= serial'
      BY <1>2, <1>5, <2>1 DEF IdsOK
    <3>4. \A d \in retries' : d.step = "reserve" => d.id # slot'[d.tab]
      BY <1>2, <1>5, <2>1, <2>4
    <3>5. \A m \in cancels', d \in retries' :
            m.tab = d.tab /\ m.id = d.id => ~d.holds /\ d.step # "reserve"
      BY <1>1, <1>2, <2>1, <2>4 DEF IdsOK
    <3>. QED BY <1>1, <1>2, <2>1, <2>7, <3>1, <3>2, <3>3, <3>4, <3>5 DEF IdsOK
  <2>9. CooldownRespected'
    BY <1>1, <2>1 DEF CooldownRespected
  <2>10. WaitersKeepTheirSlot'
    <3>1. ASSUME NEW d \in retries', d.holds, d.step # "reserve", d.drops = s.drops, now <= d.at + Grace
          PROVE  traffic'.slots[d.tab].id = d.id /\ traffic'.slots[d.tab].at = d.at
      <4>1. CASE d = e
        BY <2>3, <2>4, <2>5, <4>1
      <4>2. CASE d \in retries \ {c}
        BY <1>4, <1>5, <1>9, <2>5, <3>1, <4>2
      <4>. QED BY <2>1, <4>1, <4>2
    <3>. QED BY <1>1, <2>5, <3>1 DEF WaitersKeepTheirSlot
  <2>. QED BY <2>6, <2>7, <2>8, <2>9, <2>10 DEF Inv
<1>10. ASSUME NEW at, mine.id = c.id, RevalidatedAt(s, c.tab, at), SlotUsed(s, c, at) PROVE Inv'
  <2>. DEFINE p == Placed(s, c.tab, NoSlot)
              e == [c EXCEPT !.holds = FALSE]
  <2>1. /\ traffic' = [p EXCEPT !.last = now] /\ retries' = (retries \ {c}) \cup {e} /\ at <= now
        /\ asking' = [tab |-> c.tab, id |-> c.id] /\ UNCHANGED <<handle, slot, serial>>
    BY <1>10 DEF SlotUsed, Goes
  <2>2. /\ e \in Retries /\ e.tab = c.tab /\ e.id = c.id /\ e.drops = c.drops
        /\ e.step = "check" /\ ~e.holds
    BY <1>1, <1>2 DEF Retries
  <2>3. /\ p \in States /\ p.drops = s.drops /\ p.until = s.until /\ p.slots[c.tab] = NoSlot
        /\ \A u \in Tabs \ {c.tab} : p.slots[u] = s.slots[u]
    BY <1>2, <1>3, <1>6, Placing
  <2>. HIDE DEF p, e
  <2>4. traffic' \in States /\ traffic'.drops = s.drops /\ traffic'.until = s.until /\ traffic'.slots = p.slots
    BY <1>2, <2>1, <2>3 DEF States
  <2>5. TrafficTypeOK'
    BY <1>1, <1>2, <2>1, <2>2, <2>4 DEF TrafficTypeOK, States
  <2>6. SlotsSpaced' /\ \A t \in Tabs : traffic'.slots[t].id <= serial
    BY <1>3, <2>3, <2>4, SlotsLost
  <2>7. IdsOK'
    <3>1. \A d \in retries' : 1 <= d.id /\ d.id <= serial' /\ d.drops <= traffic'.drops
      BY <1>5, <2>1, <2>2, <2>4
    <3>2. \A d, f \in retries' : d.id = f.id => d = f
      BY <1>2, <2>1, <2>2 DEF IdsOK
    <3>3. \A m \in cancels', d \in retries' :
            m.tab = d.tab /\ m.id = d.id => ~d.holds /\ d.step # "reserve"
      BY <1>1, <1>2, <2>1, <2>2 DEF IdsOK
    <3>4. \A d \in retries' : d.step = "reserve" => d.id # slot'[d.tab]
      BY <1>5, <2>1, <2>2
    <3>. QED BY <1>1, <1>2, <2>1, <2>6, <3>1, <3>2, <3>3, <3>4 DEF IdsOK
  <2>8. CooldownRespected'
    <3>1. s.until <= at /\ at \in Nat
      BY <1>8, <1>10
    <3>. QED BY <1>1, <1>2, <1>3, <2>1, <2>4, <3>1 DEF CooldownRespected
  <2>9. WaitersKeepTheirSlot'
    BY <1>1, <1>4, <1>5, <1>10, <2>1, <2>2, <2>3, <2>4 DEF WaitersKeepTheirSlot
  <2>. QED BY <2>5, <2>6, <2>7, <2>8, <2>9 DEF Inv
<1>. QED BY <1>1, <1>7, <1>9, <1>10

--------------------------------------------------------------------------------
(* The theorems *)

LEMMA NextInv == Inv /\ [TrafficNext]_trafficVars => Inv'
<1>. SUFFICES ASSUME Inv, [TrafficNext]_trafficVars PROVE Inv'
  OBVIOUS
<1>1. Served \subseteq Nat
  BY DEF Served, Inv, TrafficTypeOK
<1>2. CASE UNCHANGED trafficVars
  BY <1>2 DEF trafficVars, Inv, TrafficTypeOK, IdsOK, SlotsSpaced, CooldownRespected, WaitersKeepTheirSlot
<1>3. ASSUME NEW t \in Tabs, Schedule(t) \/ Withdraw(t) \/ Qualify(t) \/ Added(t) \/ Leave(t)
      PROVE  Inv'
  BY <1>3, ScheduleInv, PageInv
<1>4. ASSUME NEW c \in retries, Refuse(c) \/ ArmRetry(c) \/ Fire(c) PROVE Inv'
  BY <1>4, MoveInv
<1>5. ASSUME NEW c \in retries, NEW every \in Intervals, NEW delay \in Delays, NEW r \in Served,
             Reserve(c, every, delay, r)
      PROVE  Inv'
  BY <1>1, <1>5, ReserveInv
<1>6. ASSUME NEW c \in retries, NEW r \in Served, Revalidate(c, r) PROVE Inv'
  BY <1>1, <1>6, RevalidateInv
<1>7. ASSUME NEW m \in cancels, NEW r \in Served, Cancel(m, r) PROVE Inv'
  BY <1>1, <1>7, CancelInv
<1>8. CASE Answer
  BY <1>8, AnswerInv
<1>9. ASSUME NEW r \in Served, OpenPage(r) \/ \E d \in Cooldowns : Overload(d, r) PROVE Inv'
  BY <1>1, <1>9, ObservedInv
<1>10. CASE NewRun \/ Tick
  BY <1>10, ClockInv
<1>. QED BY <1>2, <1>3, <1>4, <1>5, <1>6, <1>7, <1>8, <1>9, <1>10 DEF TrafficNext

\* Inv holds in every reachable state.
THEOREM TrafficInvariant == TrafficSpec => []Inv
BY InitInv, NextInv, PTL DEF TrafficSpec

\* The governor's state keeps its type.
THEOREM TrafficTyped == TrafficSpec => []TrafficTypeOK
<1>1. Inv => TrafficTypeOK
  BY DEF Inv
<1>. QED BY <1>1, TrafficInvariant, PTL

\* Any two slots of the store are apart by the interval of the later one.
THEOREM SlotsAreSpaced == TrafficSpec => []SlotsSpaced
<1>1. Inv => SlotsSpaced
  BY DEF Inv
<1>. QED BY <1>1, TrafficInvariant, PTL

\* No slot is used in a cool-down.
THEOREM CooldownIsRespected == TrafficSpec => []CooldownRespected
<1>1. Inv => CooldownRespected
  BY DEF Inv
<1>. QED BY <1>1, TrafficInvariant, PTL

\* Only its own page, its age or a new run takes the slot of a retry.
THEOREM WaitersKeepSlots == TrafficSpec => []WaitersKeepTheirSlot
<1>1. Inv => WaitersKeepTheirSlot
  BY DEF Inv
<1>. QED BY <1>1, TrafficInvariant, PTL

================================================================================
