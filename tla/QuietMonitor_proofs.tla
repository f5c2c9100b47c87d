------------------------- MODULE QuietMonitor_proofs -------------------------
(***************************************************************************)
(* The reads' limit, their cadence and the rest of a store for any number  *)
(* of products and any lengths.                                            *)
(*                                                                         *)
(* The inductive invariant adds that a product whose last start is more    *)
(* recent than MinInterval is not due before the rest of it has passed,    *)
(* and that the deadline all lanes share is never shorter than the wait    *)
(* the store still asks for.                                               *)
(***************************************************************************)
EXTENDS QuietMonitor, FiniteSetTheorems, TLAPS

DueKept == \A p \in known : since[p] < MinInterval => due[p] >= MinInterval - since[p]

Inv == QuietTypeOK /\ LimitKept /\ DueKept /\ asked <= shared

-----------------------------------------------------------------------------
LEMMA LargerIsMax ==
  ASSUME NEW a \in Int, NEW b \in Int
  PROVE  Larger(a, b) \in {a, b} /\ Larger(a, b) >= a /\ Larger(a, b) >= b
BY DEF Larger

LEMMA DownIsLess ==
  ASSUME NEW n \in Nat
  PROVE  Down(n) \in 0 .. n /\ Down(n) >= n - 1
BY DEF Down

\* What the dispatcher reckons with: every deadline is as the invariant says,
\* whether the entry is there or is about to be made.
LEMMA DueTyped ==
  ASSUME QuietTypeOK, DueKept, NEW p \in Products
  PROVE  /\ Due(p) \in -MaxLate .. Larger(MaxInterval, RetryAfter)
         /\ since[p] < MinInterval => Due(p) >= MinInterval - since[p]
<1>1. since[p] \in 0 .. MinInterval /\ MinInterval \in Nat /\ MaxInterval \in Nat
      /\ MaxLate \in Nat /\ RetryAfter \in Nat /\ MinInterval <= MaxInterval
  BY QuietAssumption DEF QuietTypeOK
<1>2. FirstDue(p) \in 0 .. MaxInterval /\ FirstDue(p) = MinInterval - since[p]
  BY <1>1 DEF FirstDue
<1>3. Larger(MaxInterval, RetryAfter) \in Int /\ Larger(MaxInterval, RetryAfter) >= MaxInterval
  BY <1>1, LargerIsMax
<1>4. FirstDue(p) \in -MaxLate .. Larger(MaxInterval, RetryAfter)
  BY <1>1, <1>2, <1>3
<1>5. p \in known => due[p] \in -MaxLate .. Larger(MaxInterval, RetryAfter)
  BY DEF QuietTypeOK
<1>. QED BY <1>1, <1>2, <1>4, <1>5 DEF Due, DueKept

\* A deferred deadline is never earlier.
LEMMA DeferredLater ==
  ASSUME NEW p \in Products, NEW d \in Int, NEW deadline \in Int,
         NEW top \in Int, d <= top, deadline <= top
  PROVE  Deferred(p, d, deadline) \in Int
         /\ d <= Deferred(p, d, deadline) /\ Deferred(p, d, deadline) <= top
BY LargerIsMax DEF Deferred

LEMMA EntriesCover ==
  ASSUME QuietTypeOK
  PROVE  /\ Entries \subseteq Products /\ watched \subseteq Entries /\ watched \subseteq Products
         /\ reading \subseteq Entries
BY DEF QuietTypeOK, Entries, watched

\* A product that may be started is watched, unread, and due.
LEMMA CandidateDue ==
  ASSUME NEW p \in Candidates
  PROVE  on /\ ~(Cool > 0) /\ ~(counter >= Limit) /\ p \in watched /\ p \notin reading /\ Due(p) <= 0
BY DEF Candidates, Oldest

\* The read of p ends: schedule and wire forget it together.
LEMMA Ending ==
  ASSUME QuietTypeOK, LimitKept, NEW p \in wire, wire' = wire \ {p}, Finish(p, TRUE),
         UNCHANGED eligible
  PROVE  /\ LimitKept'
         /\ wire' \subseteq Products /\ counter' \in 0 .. Limit
         /\ known' \subseteq known /\ reading' \subseteq known' /\ eligible' \subseteq known'
         /\ reading' \subseteq reading
<1>1. IsFiniteSet(wire)
  BY FS_Subset, QuietAssumption DEF QuietTypeOK
<1>2. Cardinality(wire \ {p}) = Cardinality(wire) - 1 /\ Cardinality(wire \ {p}) \in Nat
  BY <1>1, FS_RemoveElement, FS_CardinalityType
<1>3. reading' = reading \ {p} /\ counter' = (IF counter > 0 THEN counter - 1 ELSE 0)
      /\ known' = (IF p \in eligible THEN known ELSE known \ {p})
  BY DEF Finish, Ends, LimitKept
<1>4. counter' = Cardinality(wire') /\ counter' <= Limit
  BY <1>1, <1>2, <1>3, QuietAssumption, FS_CardinalityType DEF LimitKept
<1>5. LimitKept' /\ wire' \subseteq Products
  BY <1>3, <1>4 DEF LimitKept, QuietTypeOK
<1>6. counter' \in 0 .. Limit
  BY <1>2, <1>4, QuietAssumption
<1>7. known' \subseteq known /\ reading' \subseteq known' /\ eligible' \subseteq known'
  BY <1>3 DEF QuietTypeOK
<1>. QED BY <1>3, <1>5, <1>6, <1>7

\* What Stop, arming and a restart leave of the schedule and of the failures.
LEMMA Cleared ==
  ASSUME NoSchedule, NoResidue
  PROVE  /\ failures' \in [Products -> 0 .. FailLimit - 1]
         /\ rest' \in [Products -> 0 .. Quarantine] /\ cluster' \in [Products -> 0 .. ClusterWindow]
         /\ known' \subseteq Products /\ eligible' \subseteq known' /\ reading' \subseteq known'
         /\ due' \in [Products -> -MaxLate .. Larger(MaxInterval, RetryAfter)]
         /\ wire' \subseteq Products /\ age' \in [Products -> 0 .. Timeout]
         /\ counter' \in 0 .. Limit /\ gap' \in 0 .. 1
         /\ LimitKept' /\ DueKept'
<1>1. {Limit, FailLimit, Quarantine, ClusterWindow, Timeout, MaxInterval, RetryAfter, MaxLate} \subseteq Nat
      /\ FailLimit > 0
  BY QuietAssumption
<1>2. Larger(MaxInterval, RetryAfter) \in Nat
  BY <1>1 DEF Larger
<1>3. LimitKept'
  BY <1>1, FS_EmptySet DEF NoSchedule, LimitKept
<1>. QED BY <1>1, <1>2, <1>3 DEF NoSchedule, NoResidue, NoTicks, DueKept

\* A run of the dispatcher that starts nothing: every entry has the deadline it is
\* reckoned with, or a later one.
LEMMA Reconciling ==
  ASSUME Inv, Reconciled, UNCHANGED <<reading, wire, counter, since>>,
         NEW later \in [Products -> Int],
         due' = [q \in Products |-> IF q \in Entries THEN later[q] ELSE 0],
         \A q \in Products : /\ later[q] >= Due(q)
                             /\ later[q] <= Larger(MaxInterval, RetryAfter)
  PROVE  /\ known' \subseteq Products /\ eligible' \subseteq known' /\ reading' \subseteq known'
         /\ due' \in [Products -> -MaxLate .. Larger(MaxInterval, RetryAfter)]
         /\ LimitKept' /\ DueKept'
<1>1. known' = Entries /\ eligible' = watched
  BY DEF Reconciled
<1>2. known' \subseteq Products /\ eligible' \subseteq known' /\ reading' \subseteq known'
  BY <1>1, EntriesCover DEF Inv
<1>3. MaxLate \in Nat /\ Larger(MaxInterval, RetryAfter) \in Nat /\ MinInterval \in Nat
  BY QuietAssumption DEF Larger
<1>4. \A q \in Products : /\ Due(q) \in -MaxLate .. Larger(MaxInterval, RetryAfter)
                          /\ since[q] < MinInterval => Due(q) >= MinInterval - since[q]
  BY DueTyped DEF Inv
<1>5. \A q \in Products : later[q] \in -MaxLate .. Larger(MaxInterval, RetryAfter)
  BY <1>3, <1>4
<1>6. due' \in [Products -> -MaxLate .. Larger(MaxInterval, RetryAfter)]
  BY <1>3, <1>5
<1>7. DueKept'
  <2>1. SUFFICES ASSUME NEW q \in known', since'[q] < MinInterval
                 PROVE  due'[q] >= MinInterval - since'[q]
    BY DEF DueKept
  <2>2. q \in Products /\ due'[q] = later[q] /\ since'[q] = since[q]
    BY <1>1, <1>2, <2>1
  <2>3. since[q] \in Nat
    BY <2>2 DEF Inv, QuietTypeOK
  <2>. QED BY <1>3, <1>4, <2>1, <2>2, <2>3
<1>8. LimitKept'
  BY DEF Inv, LimitKept
<1>. QED BY <1>2, <1>6, <1>7, <1>8

\* The invariant's part about the entries, when only known loses one.
LEMMA DueStays ==
  ASSUME DueKept, known' \subseteq known, UNCHANGED <<due, since>>
  PROVE  DueKept'
BY DEF DueKept

\* A pause of the store: deadlines only grow.
LEMMA Pausing ==
  ASSUME Inv, NEW ticks \in {CoolDown, RetryAfter}, Pause(ticks),
         known' \subseteq known, UNCHANGED since
  PROVE  due' \in [Products -> -MaxLate .. Larger(MaxInterval, RetryAfter)] /\ DueKept'
<1> DEFINE top == Larger(MaxInterval, RetryAfter)
<1>1. {CoolDown, RetryAfter, MaxInterval, MaxLate, MinInterval} \subseteq Nat /\ CoolDown <= RetryAfter
  BY QuietAssumption
<1>2. top \in Nat /\ top >= RetryAfter
  BY <1>1 DEF Larger
<1>3. Cool \in 0 .. RetryAfter
  BY <1>1 DEF Inv, QuietTypeOK, Cool, Larger
<1>4. Larger(ticks, Cool) \in Int /\ Larger(ticks, Cool) <= top
  BY <1>1, <1>2, <1>3 DEF Larger
<1>5. ASSUME NEW q \in Products
      PROVE  /\ due'[q] \in Int /\ due[q] <= due'[q] /\ due'[q] <= top
             /\ due'[q] \in -MaxLate .. top
  <2>1. due[q] \in Int /\ due[q] <= top /\ -MaxLate <= due[q]
    BY <1>1, <1>2 DEF Inv, QuietTypeOK
  <2>2. Deferred(q, due[q], Larger(ticks, Cool)) \in Int
        /\ due[q] <= Deferred(q, due[q], Larger(ticks, Cool))
        /\ Deferred(q, due[q], Larger(ticks, Cool)) <= top
    BY <1>2, <1>4, <2>1, DeferredLater
  <2>3. due'[q] = IF q \in eligible THEN Deferred(q, due[q], Larger(ticks, Cool)) ELSE due[q]
    BY DEF Pause
  <2>. QED BY <1>1, <1>2, <2>1, <2>2, <2>3
<1>6. due' \in [Products -> -MaxLate .. top]
  <2>1. due' = [q \in Products |-> due'[q]]
    BY DEF Pause
  <2>. QED BY <1>5, <2>1
<1>7. DueKept'
  <2>1. SUFFICES ASSUME NEW q \in known', since'[q] < MinInterval
                 PROVE  due'[q] >= MinInterval - since'[q]
    BY DEF DueKept
  <2>2. q \in Products /\ q \in known /\ since'[q] = since[q] /\ since[q] \in Nat /\ due[q] \in Int
    BY DEF Inv, QuietTypeOK
  <2>3. due[q] >= MinInterval - since[q]
    BY <2>1, <2>2 DEF Inv, DueKept
  <2>. QED BY <1>1, <1>5, <2>2, <2>3
<1>. QED BY <1>6, <1>7

\* The ages of the reads when one ends, aborting the others or not.
LEMMA AgesTyped ==
  ASSUME Inv, NEW p \in Products, NEW a \in {age, Aborted}, Answered(p, a)
  PROVE  age' \in [Products -> 0 .. Timeout]
<1>1. Timeout \in Nat
  BY QuietAssumption
<1>2. a \in [Products -> 0 .. Timeout]
  BY <1>1 DEF Aborted, Inv, QuietTypeOK
<1>. QED BY <1>1, <1>2 DEF Answered

\* A failing page counts, or rests its product.
LEMMA FailingTyped ==
  ASSUME Inv, NEW p \in Products, NEW kind, ProductFails(p, kind)
  PROVE  failures' \in [Products -> 0 .. FailLimit - 1] /\ rest' \in [Products -> 0 .. Quarantine]
<1>1. FailLimit \in Nat \ {0} /\ Quarantine \in Nat
  BY QuietAssumption
<1>2. failures \in [Products -> 0 .. FailLimit - 1] /\ rest \in [Products -> 0 .. Quarantine]
  BY DEF Inv, QuietTypeOK
<1> DEFINE rests == kind = "unreadable" \/ failures[p] + 1 >= FailLimit
<1>3. (IF rests THEN 0 ELSE failures[p] + 1) \in 0 .. FailLimit - 1
  BY <1>1, <1>2
<1>4. failures' = [failures EXCEPT ![p] = IF rests THEN 0 ELSE failures[p] + 1]
      /\ rest' = [rest EXCEPT ![p] = IF rests THEN Quarantine ELSE rest[p]]
  BY DEF ProductFails
<1>. QED BY <1>1, <1>2, <1>3, <1>4

-----------------------------------------------------------------------------
LEMMA InvInit == Init => Inv
<1>. SUFFICES ASSUME Init PROVE Inv
  OBVIOUS
<1>1. /\ {MinInterval, MaxInterval, Limit, Timeout, FailLimit, Quarantine, ClusterWindow, RetryAfter} \subseteq Nat
      /\ {MaxLate, MaxStops, MaxFaults} \subseteq Nat /\ FailLimit > 0
  BY QuietAssumption
<1>2. Larger(MaxInterval, RetryAfter) \in Nat
  BY <1>1 DEF Larger
<1>3. QuietTypeOK
  <2>1. /\ failures \in [Products -> 0 .. FailLimit - 1]
        /\ rest \in [Products -> 0 .. Quarantine] /\ cluster \in [Products -> 0 .. ClusterWindow]
        /\ due \in [Products -> -MaxLate .. Larger(MaxInterval, RetryAfter)]
        /\ age \in [Products -> 0 .. Timeout] /\ since \in [Products -> 0 .. MinInterval]
    BY <1>1, <1>2 DEF Init, NoTicks
  <2>2. /\ counter \in 0 .. Limit /\ gap \in 0 .. 1 /\ {shared, own, asked} \subseteq 0 .. RetryAfter
        /\ stops \in 0 .. MaxStops /\ faults \in 0 .. MaxFaults
    BY <1>1 DEF Init
  <2>3. /\ on \in BOOLEAN /\ wanted \subseteq Products /\ known \subseteq Products
        /\ eligible \subseteq known /\ reading \subseteq known
        /\ wire \subseteq Products /\ late \subseteq Products
    BY DEF Init
  <2>. QED BY <2>1, <2>2, <2>3 DEF QuietTypeOK
<1>4. LimitKept
  BY <1>1, FS_EmptySet DEF Init, LimitKept
<1>. QED BY <1>3, <1>4 DEF Init, DueKept, Inv

LEMMA InvDispatch ==
  ASSUME Inv, DispatchIdle \/ \E p \in Products : DispatchRefused(p)
  PROVE  Inv'
<1> DEFINE top == Larger(MaxInterval, RetryAfter)
<1>1. {CoolDown, RetryAfter, MaxInterval, MaxLate, MaxFaults} \subseteq Nat /\ CoolDown <= RetryAfter
  BY QuietAssumption
<1>2. top \in Nat /\ top >= RetryAfter
  BY <1>1 DEF Larger
<1>3. \A q \in Products : Due(q) \in Int /\ Due(q) <= top
  <2>1. \A q \in Products : Due(q) \in -MaxLate .. top
    BY DueTyped DEF Inv
  <2>. QED BY <1>1, <1>2, <2>1
<1>4. CASE DispatchIdle
  <2> DEFINE later == [q \in Products |-> Due(q)]
  <2>1. later \in [Products -> Int] /\ \A q \in Products : later[q] >= Due(q) /\ later[q] <= top
    BY <1>2, <1>3
  <2>2. due' = [q \in Products |-> IF q \in Entries THEN later[q] ELSE 0]
    BY <1>4 DEF DispatchIdle
  <2>3. Reconciled /\ UNCHANGED <<on, wanted, health, reading, counter, wire, age, gap, late, since, cools, bounds>>
    BY <1>4 DEF DispatchIdle
  <2>4. /\ known' \subseteq Products /\ eligible' \subseteq known' /\ reading' \subseteq known'
        /\ due' \in [Products -> -MaxLate .. top] /\ LimitKept' /\ DueKept'
    <3> HIDE DEF later
    <3>. QED BY <2>1, <2>2, <2>3, Reconciling
  <2>. QED BY <2>3, <2>4 DEF Inv, QuietTypeOK, health, cools, bounds
<1>5. ASSUME NEW p \in Products, DispatchRefused(p) PROVE Inv'
  <2> DEFINE later == [q \in Products |-> IF q \in watched THEN Deferred(q, Due(q), CoolDown) ELSE Due(q)]
  <2>1. \A q \in Products : /\ Deferred(q, Due(q), CoolDown) \in Int
                            /\ Due(q) <= Deferred(q, Due(q), CoolDown)
                            /\ Deferred(q, Due(q), CoolDown) <= top
    BY <1>1, <1>2, <1>3, DeferredLater
  <2>2. later \in [Products -> Int] /\ \A q \in Products : later[q] >= Due(q) /\ later[q] <= top
    BY <1>2, <1>3, <2>1
  <2>3. due' = [q \in Products |-> IF q \in Entries THEN later[q] ELSE 0]
    BY <1>5 DEF DispatchRefused
  <2>4. /\ Reconciled /\ Fault
        /\ UNCHANGED <<on, wanted, health, reading, counter, wire, age, gap, late, since, cools, stops>>
    BY <1>5 DEF DispatchRefused
  <2>5. faults' \in 0 .. MaxFaults
    BY <1>1, <2>4 DEF Fault, Inv, QuietTypeOK
  <2>6. /\ known' \subseteq Products /\ eligible' \subseteq known' /\ reading' \subseteq known'
        /\ due' \in [Products -> -MaxLate .. top] /\ LimitKept' /\ DueKept'
    <3> HIDE DEF later
    <3>. QED BY <2>2, <2>3, <2>4, Reconciling
  <2>. QED BY <2>4, <2>5, <2>6 DEF Inv, QuietTypeOK, health, cools
<1>. QED BY <1>4, <1>5

\* A start is made below the limit, and makes the product's next start due no sooner
\* than MinInterval.
LEMMA InvStart ==
  ASSUME Inv, NEW p \in Products, DispatchStart(p)
  PROVE  Inv'
<1> DEFINE top == Larger(MaxInterval, RetryAfter)
<1>1. /\ {RetryAfter, MinInterval, MaxInterval, MaxLate, Limit, Timeout} \subseteq Nat
      /\ MinInterval <= MaxInterval /\ Timeout > 0
  BY QuietAssumption
<1>2. top \in Nat /\ top >= MaxInterval
  BY <1>1 DEF Larger
<1>3. p \in watched /\ p \notin reading /\ ~(counter >= Limit)
  BY CandidateDue DEF DispatchStart
<1>4. PICK i \in MinInterval .. MaxInterval :
        due' = [q \in Products |-> IF q = p THEN i ELSE IF q \in Entries THEN Due(q) ELSE 0]
  BY DEF DispatchStart
<1>5. /\ known' = Entries /\ eligible' = watched /\ reading' = reading \cup {p} /\ wire' = wire \cup {p}
      /\ counter' = counter + 1 /\ gap' = 1
      /\ since' = [since EXCEPT ![p] = 0] /\ age' = [age EXCEPT ![p] = 0]
      /\ UNCHANGED <<on, wanted, health, late, cools, bounds>>
  BY DEF DispatchStart
<1>6. \A q \in Products : /\ Due(q) \in -MaxLate .. top
                          /\ since[q] < MinInterval => Due(q) >= MinInterval - since[q]
  BY DueTyped DEF Inv
<1>7. \A q \in Products : (IF q = p THEN i ELSE IF q \in Entries THEN Due(q) ELSE 0) \in -MaxLate .. top
  BY <1>1, <1>2, <1>4, <1>6
<1>8. due' \in [Products -> -MaxLate .. top]
  BY <1>4, <1>7
<1>9. known' \subseteq Products /\ eligible' \subseteq known' /\ reading' \subseteq known' /\ wire' \subseteq Products
  BY <1>3, <1>5, EntriesCover DEF Inv, QuietTypeOK
<1>10. since' \in [Products -> 0 .. MinInterval] /\ age' \in [Products -> 0 .. Timeout]
  BY <1>1, <1>5 DEF Inv, QuietTypeOK
<1>11. DueKept'
  <2>1. SUFFICES ASSUME NEW q \in known', since'[q] < MinInterval
                 PROVE  due'[q] >= MinInterval - since'[q]
    BY DEF DueKept
  <2>2. q \in Products /\ q \in Entries
    BY <1>5, <1>9
  <2>3. CASE q = p
    <3>1. since'[q] = 0 /\ due'[q] = i
      BY <1>4, <1>5, <2>2, <2>3 DEF Inv, QuietTypeOK
    <3>. QED BY <1>1, <3>1
  <2>4. CASE q # p
    <3>1. since'[q] = since[q] /\ due'[q] = Due(q)
      BY <1>4, <1>5, <2>2, <2>4 DEF Inv, QuietTypeOK
    <3>. QED BY <1>6, <2>1, <2>2, <3>1
  <2>. QED BY <2>3, <2>4
<1>12. LimitKept' /\ counter' \in 0 .. Limit
  <2>1. IsFiniteSet(wire)
    BY FS_Subset, QuietAssumption DEF Inv, QuietTypeOK
  <2>2. p \notin wire
    BY <1>3 DEF Inv, LimitKept
  <2>3. Cardinality(wire \cup {p}) = Cardinality(wire) + 1
    BY <2>1, <2>2, FS_AddElement
  <2>4. counter \in Nat /\ counter = Cardinality(wire) /\ reading = wire
    BY DEF Inv, LimitKept, QuietTypeOK
  <2>. QED BY <1>1, <1>3, <1>5, <2>3, <2>4 DEF LimitKept
<1>. QED BY <1>5, <1>8, <1>9, <1>10, <1>11, <1>12 DEF Inv, QuietTypeOK, health, cools, bounds

LEMMA InvAnswer ==
  ASSUME Inv, NEW p \in Products, Answer(p)
  PROVE  Inv'
<1>1. /\ {RetryAfter, CoolDown, MaxFaults, ClusterWindow} \subseteq Nat /\ CoolDown <= RetryAfter
      /\ FailLimit \in Nat \ {0}
  BY QuietAssumption
<1>2. CASE AnswerRead(p)
  <2>1. /\ Answered(p, age) /\ Finish(p, TRUE)
        /\ UNCHANGED <<on, wanted, eligible, due, gap, late, since, cools, bounds>>
    BY <1>2 DEF AnswerRead
  <2>2. /\ LimitKept' /\ wire' \subseteq Products /\ counter' \in 0 .. Limit
        /\ known' \subseteq known /\ reading' \subseteq known' /\ eligible' \subseteq known'
    BY <2>1, Ending DEF Answered, Inv
  <2>3. age' \in [Products -> 0 .. Timeout]
    BY <2>1, AgesTyped
  <2>4. DueKept'
    BY <2>1, <2>2, DueStays DEF Inv
  <2>5. /\ failures' \in [Products -> 0 .. FailLimit - 1]
        /\ rest' \in [Products -> 0 .. Quarantine] /\ cluster' \in [Products -> 0 .. ClusterWindow]
    BY <1>1, <1>2 DEF AnswerRead, health, Inv, QuietTypeOK
  <2>. QED BY <2>1, <2>2, <2>3, <2>4, <2>5 DEF Inv, QuietTypeOK, cools, bounds
<1>3. ASSUME NEW kind, AnswerFailed(p, kind) PROVE Inv'
  <2>1. Finish(p, TRUE) /\ UNCHANGED <<on, wanted, eligible, gap, late, since, bounds>>
    BY <1>3 DEF AnswerFailed
  <2>2. CASE shared > 0 \/ p \notin watched
    <3>1. Answered(p, age) /\ UNCHANGED <<health, due, cools>>
      BY <1>3, <2>2 DEF AnswerFailed
    <3>2. /\ LimitKept' /\ wire' \subseteq Products /\ counter' \in 0 .. Limit
          /\ known' \subseteq known /\ reading' \subseteq known' /\ eligible' \subseteq known'
      BY <2>1, <3>1, Ending DEF Answered, Inv
    <3>3. age' \in [Products -> 0 .. Timeout]
      BY <3>1, AgesTyped
    <3>4. DueKept'
      BY <2>1, <3>1, <3>2, DueStays DEF Inv
    <3>. QED BY <2>1, <3>1, <3>2, <3>3, <3>4 DEF Inv, QuietTypeOK, cools, bounds, health
  <2>3. CASE ~(shared > 0 \/ p \notin watched)
    <3>1. ProductFails(p, kind)
      BY <1>3, <2>3 DEF AnswerFailed
    <3>2. failures' \in [Products -> 0 .. FailLimit - 1] /\ rest' \in [Products -> 0 .. Quarantine]
      BY <3>1, FailingTyped
    <3>3. CASE kind = "transport" /\ Tripped(p)
      <4>1. StorePauses(p)
        BY <1>3, <2>3, <3>3 DEF AnswerFailed
      <4>2. /\ Answered(p, Aborted) /\ Pause(CoolDown) /\ own' = Larger(own, CoolDown)
            /\ cluster' = NoTicks /\ UNCHANGED <<shared, asked>>
        BY <4>1 DEF StorePauses
      <4>3. /\ LimitKept' /\ wire' \subseteq Products /\ counter' \in 0 .. Limit
            /\ known' \subseteq known /\ reading' \subseteq known' /\ eligible' \subseteq known'
        BY <2>1, <4>2, Ending DEF Answered, Inv
      <4>4. age' \in [Products -> 0 .. Timeout]
        BY <4>2, AgesTyped
      <4>5. due' \in [Products -> -MaxLate .. Larger(MaxInterval, RetryAfter)] /\ DueKept'
        BY <2>1, <4>2, <4>3, Pausing
      <4>6. own' \in 0 .. RetryAfter
        BY <1>1, <4>2 DEF Larger, Inv, QuietTypeOK
      <4>7. cluster' \in [Products -> 0 .. ClusterWindow]
        BY <1>1, <4>2 DEF NoTicks
      <4>. QED BY <2>1, <3>2, <4>2, <4>3, <4>4, <4>5, <4>6, <4>7 DEF Inv, QuietTypeOK, bounds
    <3>4. CASE ~(kind = "transport" /\ Tripped(p))
      <4>1. /\ Answered(p, age)
            /\ cluster' = IF kind = "transport" THEN [cluster EXCEPT ![p] = ClusterWindow] ELSE cluster
            /\ UNCHANGED <<due, cools>>
        BY <1>3, <2>3, <3>4 DEF AnswerFailed
      <4>2. /\ LimitKept' /\ wire' \subseteq Products /\ counter' \in 0 .. Limit
            /\ known' \subseteq known /\ reading' \subseteq known' /\ eligible' \subseteq known'
        BY <2>1, <4>1, Ending DEF Answered, Inv
      <4>3. age' \in [Products -> 0 .. Timeout]
        BY <4>1, AgesTyped
      <4>4. DueKept'
        BY <2>1, <4>1, <4>2, DueStays DEF Inv
      <4>5. cluster' \in [Products -> 0 .. ClusterWindow]
        BY <1>1, <4>1 DEF Inv, QuietTypeOK
      <4>. QED BY <2>1, <3>2, <4>1, <4>2, <4>3, <4>4, <4>5 DEF Inv, QuietTypeOK, cools, bounds
    <3>. QED BY <3>3, <3>4
  <2>. QED BY <2>2, <2>3
<1>4. ASSUME NEW ticks \in {CoolDown, RetryAfter}, AnswerOverload(p, ticks) PROVE Inv'
  <2>1. /\ Answered(p, Aborted) /\ Fault /\ Pause(ticks) /\ Finish(p, TRUE)
        /\ shared' = Larger(shared, ticks) /\ own' = Larger(own, Larger(shared, ticks))
        /\ asked' = Larger(asked, ticks)
        /\ UNCHANGED <<on, wanted, health, eligible, gap, late, since, stops>>
    BY <1>4 DEF AnswerOverload
  <2>2. /\ LimitKept' /\ wire' \subseteq Products /\ counter' \in 0 .. Limit
        /\ known' \subseteq known /\ reading' \subseteq known' /\ eligible' \subseteq known'
    BY <2>1, Ending DEF Answered, Inv
  <2>3. age' \in [Products -> 0 .. Timeout]
    BY <2>1, AgesTyped
  <2>4. due' \in [Products -> -MaxLate .. Larger(MaxInterval, RetryAfter)] /\ DueKept'
    BY <2>1, <2>2, Pausing
  <2>5. {shared', own', asked'} \subseteq 0 .. RetryAfter /\ asked' <= shared'
    <3>1. /\ shared \in 0 .. RetryAfter /\ own \in 0 .. RetryAfter /\ asked \in 0 .. RetryAfter
          /\ asked <= shared /\ ticks \in 0 .. RetryAfter
      BY <1>1 DEF Inv, QuietTypeOK
    <3>. QED BY <1>1, <2>1, <3>1 DEF Larger
  <2>6. faults' \in 0 .. MaxFaults
    BY <1>1, <2>1 DEF Fault, Inv, QuietTypeOK
  <2>. QED BY <2>1, <2>2, <2>3, <2>4, <2>5, <2>6 DEF Inv, QuietTypeOK, health
<1>. QED BY <1>2, <1>3, <1>4 DEF Answer

LEMMA InvOperator ==
  ASSUME Inv, \/ Arm \/ Stop \/ Crash
              \/ \E p \in Products : AnswerLate(p) \/ Watch(p)
  PROVE  Inv'
<1>1. {MaxStops, MaxFaults, RetryAfter} \subseteq Nat
  BY QuietAssumption
<1>2. CASE Arm
  BY <1>2, Cleared DEF Arm, Inv, QuietTypeOK, cools, bounds
<1>3. CASE Stop
  <2>1. stops' \in 0 .. MaxStops
    BY <1>1, <1>3 DEF Stop, Inv, QuietTypeOK
  <2>. QED BY <1>3, <2>1, Cleared DEF Stop, Inv, QuietTypeOK, cools
<1>4. CASE Crash
  <2>1. faults' \in 0 .. MaxFaults
    BY <1>1, <1>4 DEF Crash, Fault, Inv, QuietTypeOK
  <2>2. own' \in 0 .. RetryAfter
    BY <1>1, <1>4 DEF Crash
  <2>. QED BY <1>4, <2>1, <2>2, Cleared DEF Crash, Inv, QuietTypeOK
<1>5. ASSUME NEW p \in Products, AnswerLate(p) PROVE Inv'
  <2>1. UNCHANGED <<reading, counter, known>>
    BY <1>5 DEF AnswerLate, Finish, Ends
  <2>. QED BY <1>5, <2>1 DEF AnswerLate, Inv, QuietTypeOK, LimitKept, DueKept, health, cools, bounds
<1>6. ASSUME NEW p \in Products, Watch(p) PROVE Inv'
  BY <1>6 DEF Watch, Inv, QuietTypeOK, LimitKept, DueKept, health, schedule, cools, bounds
<1>. QED BY <1>2, <1>3, <1>4, <1>5, <1>6

\* A tick takes no more off a deadline than it adds to the time since the last start.
LEMMA InvTick ==
  ASSUME Inv, Tick
  PROVE  Inv'
<1> DEFINE top == Larger(MaxInterval, RetryAfter)
<1>1. /\ {RetryAfter, MinInterval, MaxInterval, MaxLate, Timeout, Quarantine, ClusterWindow} \subseteq Nat
  BY QuietAssumption
<1>2. top \in Nat
  BY <1>1 DEF Larger
<1>3. /\ due' = [p \in Products |-> IF p \in known /\ due[p] > -MaxLate THEN due[p] - 1 ELSE due[p]]
      /\ since' = [p \in Products |-> IF since[p] < MinInterval THEN since[p] + 1 ELSE since[p]]
      /\ UNCHANGED <<on, wanted, failures, known, eligible, reading, counter, wire, late, bounds>>
  BY DEF Tick
<1>4. due' \in [Products -> -MaxLate .. top] /\ since' \in [Products -> 0 .. MinInterval]
  BY <1>1, <1>2, <1>3 DEF Inv, QuietTypeOK
<1>5. age' \in [Products -> 0 .. Timeout]
  <2>1. /\ age' = [p \in Products |-> IF p \in wire THEN age[p] + 1 ELSE 0]
        /\ \A p \in wire : age[p] < Timeout
    BY DEF Tick
  <2>. QED BY <1>1, <2>1 DEF Inv, QuietTypeOK
<1>6. rest' \in [Products -> 0 .. Quarantine] /\ cluster' \in [Products -> 0 .. ClusterWindow]
  <2>1. /\ rest' = [p \in Products |-> Down(rest[p])] /\ cluster' = [p \in Products |-> Down(cluster[p])]
    BY DEF Tick
  <2>2. \A p \in Products : rest[p] \in 0 .. Quarantine /\ cluster[p] \in 0 .. ClusterWindow
    BY DEF Inv, QuietTypeOK
  <2>3. \A p \in Products : Down(rest[p]) \in 0 .. Quarantine /\ Down(cluster[p]) \in 0 .. ClusterWindow
    BY <1>1, <2>2, DownIsLess
  <2>. QED BY <2>1, <2>3
<1>7. gap' \in 0 .. 1 /\ {shared', own', asked'} \subseteq 0 .. RetryAfter /\ asked' <= shared'
  <2>1. gap' = Down(gap) /\ shared' = Down(shared) /\ own' = Down(own) /\ asked' = Down(asked)
    BY DEF Tick
  <2>2. /\ gap \in 0 .. 1 /\ shared \in 0 .. RetryAfter /\ own \in 0 .. RetryAfter
        /\ asked \in 0 .. RetryAfter /\ asked <= shared
    BY DEF Inv, QuietTypeOK
  <2>. QED BY <1>1, <2>1, <2>2 DEF Down
<1>8. DueKept'
  <2>1. SUFFICES ASSUME NEW p \in known', since'[p] < MinInterval
                 PROVE  due'[p] >= MinInterval - since'[p]
    BY DEF DueKept
  <2>2. p \in Products /\ p \in known
    BY <1>3 DEF Inv, QuietTypeOK
  <2>3. since[p] \in 0 .. MinInterval /\ due[p] \in -MaxLate .. top
    BY <2>2 DEF Inv, QuietTypeOK
  <2>4. since[p] < MinInterval /\ since'[p] = since[p] + 1
    BY <1>1, <1>3, <2>1, <2>2, <2>3
  <2>5. due[p] >= MinInterval - since[p]
    BY <2>2, <2>4 DEF Inv, DueKept
  <2>6. due[p] > -MaxLate /\ due'[p] = due[p] - 1
    BY <1>1, <1>2, <1>3, <2>2, <2>3, <2>4, <2>5
  <2>. QED BY <1>1, <1>2, <2>3, <2>4, <2>5, <2>6
<1>. QED BY <1>3, <1>4, <1>5, <1>6, <1>7, <1>8 DEF Inv, QuietTypeOK, LimitKept, bounds

LEMMA InvNext == Inv /\ [Next]_vars => Inv'
<1>. SUFFICES ASSUME Inv, [Next]_vars PROVE Inv'
  OBVIOUS
<1>1. CASE UNCHANGED vars
  BY <1>1 DEF vars, health, schedule, cools, bounds, Inv, QuietTypeOK, LimitKept, DueKept
<1>2. CASE Tick
  BY <1>2, InvTick
<1>3. CASE Arm \/ Stop \/ Crash
  BY <1>3, InvOperator
<1>4. CASE DispatchIdle
  BY <1>4, InvDispatch
<1>5. ASSUME NEW p \in Products,
             \/ DispatchStart(p) \/ DispatchRefused(p) \/ Answer(p) \/ AnswerLate(p) \/ Watch(p)
      PROVE  Inv'
  BY <1>5, InvStart, InvDispatch, InvAnswer, InvOperator
<1>. QED BY <1>1, <1>2, <1>3, <1>4, <1>5 DEF Next

-----------------------------------------------------------------------------
\* Only the dispatcher makes a read in flight of one that was not.
LEMMA OnlyDispatchStarts ==
  ASSUME Inv, [Next]_vars, NEW p \in Products, Starts(p)
  PROVE  DispatchStart(p)
<1>1. p \in reading' /\ p \notin reading
  BY DEF Starts
<1>2. CASE UNCHANGED vars
  BY <1>1, <1>2 DEF vars, schedule
<1>3. CASE Tick \/ DispatchIdle \/ Arm \/ Stop \/ Crash
  BY <1>1, <1>3 DEF Tick, DispatchIdle, Arm, Stop, Crash, NoSchedule
<1>4. ASSUME NEW q \in Products, DispatchRefused(q) \/ Watch(q)
      PROVE  FALSE
  BY <1>1, <1>4 DEF DispatchRefused, Watch, schedule
<1>5. ASSUME NEW q \in Products, Answer(q) \/ AnswerLate(q)
      PROVE  FALSE
  <2>1. Finish(q, TRUE) \/ Finish(q, FALSE)
    BY <1>5 DEF Answer, AnswerRead, AnswerFailed, AnswerOverload, AnswerLate
  <2>2. reading' \subseteq reading
    BY <2>1 DEF Finish
  <2>. QED BY <1>1, <2>2
<1>6. ASSUME NEW q \in Products, DispatchStart(q)
      PROVE  DispatchStart(p)
  <2>1. reading' = reading \cup {q}
    BY <1>6 DEF DispatchStart
  <2>. QED BY <1>1, <1>6, <2>1
<1>. QED BY <1>2, <1>3, <1>4, <1>5, <1>6 DEF Next

LEMMA InvAlways == Spec => []Inv
<1>. QED BY InvInit, InvNext, PTL DEF Spec

\* Every state of the reads is of the types the schedule's code relies on.
THEOREM QuietTypes == Spec => []QuietTypeOK
<1>1. Inv => QuietTypeOK
  BY DEF Inv
<1>. QED BY <1>1, InvAlways, PTL

\* markQuietMonitorStarted and markQuietMonitorFinished keep storeInFlight at the
\* number of reads of this run, and below the limit.
THEOREM LimitIsKept == Spec => []LimitKept
<1>1. Inv => LimitKept
  BY DEF Inv
<1>. QED BY <1>1, InvAlways, PTL

\* Two starts of a product are MinInterval apart, whatever happens between them.
THEOREM CadenceIsKept == Spec => CadenceKept
<1> DEFINE Kept == \A p \in Products : Starts(p) => since[p] = MinInterval
<1>1. Inv /\ [Next]_vars => [Kept]_vars
  <2>1. SUFFICES ASSUME Inv, [Next]_vars, NEW p \in Products, Starts(p)
                 PROVE  since[p] = MinInterval
    OBVIOUS
  <2>2. DispatchStart(p)
    BY <2>1, OnlyDispatchStarts
  <2>3. Due(p) <= 0
    BY <2>2, CandidateDue DEF DispatchStart
  <2>4. /\ Due(p) \in -MaxLate .. Larger(MaxInterval, RetryAfter)
        /\ since[p] < MinInterval => Due(p) >= MinInterval - since[p]
    BY <2>1, DueTyped DEF Inv
  <2>5. since[p] \in 0 .. MinInterval /\ MinInterval \in Nat /\ MaxLate \in Nat
        /\ Larger(MaxInterval, RetryAfter) \in Int
    BY <2>1, QuietAssumption DEF Inv, QuietTypeOK, Larger
  <2>. QED BY <2>3, <2>4, <2>5
<1>. QED BY <1>1, InvAlways, PTL DEF Spec, CadenceKept

\* No read is started while the store still asks to be left alone.
THEOREM StoreIsLeftAlone == Spec => StoreLeftAlone
<1> DEFINE Left == asked > 0 => \A p \in Products : ~Starts(p)
<1>1. Inv /\ [Next]_vars => [Left]_vars
  <2>1. SUFFICES ASSUME Inv, [Next]_vars, asked > 0, NEW p \in Products, Starts(p)
                 PROVE  FALSE
    OBVIOUS
  <2>2. DispatchStart(p)
    BY <2>1, OnlyDispatchStarts
  <2>3. ~(Cool > 0)
    BY <2>2, CandidateDue DEF DispatchStart
  <2>4. shared \in 0 .. RetryAfter /\ own \in 0 .. RetryAfter /\ asked \in 0 .. RetryAfter
        /\ asked <= shared /\ RetryAfter \in Nat
    BY <2>1, QuietAssumption DEF Inv, QuietTypeOK
  <2>. QED BY <2>1, <2>3, <2>4 DEF Cool, Larger
<1>. QED BY <1>1, InvAlways, PTL DEF Spec, StoreLeftAlone
=============================================================================
