------------------------------ MODULE Budgets ------------------------------
(***************************************************************************)
(* The two rolling ledgers the desktop keeps of a store: automatic actions *)
(* and quiet reads.  A ledger is the sequence of the instants at which a   *)
(* use was granted; it is persisted with every use and read back when the  *)
(* desktop starts again.  The clock is never set back.                     *)
(***************************************************************************)
EXTENDS Integers, Sequences, FiniteSets

CONSTANTS
  ActionLimit, ReadLimit,  \* uses a window may hold (120 and 4000)
  BudgetWindow,            \* its length (an hour)
  KeptUses,                \* newest uses of a ledger read back (500 and 5000)
  MaxInstant               \* bound: instants

ASSUME BudgetAssumption ==
  /\ {ActionLimit, ReadLimit, BudgetWindow} \subseteq Nat \ {0}
  /\ KeptUses \in Nat /\ KeptUses >= ActionLimit /\ KeptUses >= ReadLimit
  /\ MaxInstant \in Nat

VARIABLES
  instant,   \* the clock
  ledger,    \* ledger[l]: storeActionHistory or quietReadHistory of the store
  overload,  \* the store's shared overload deadline, persisted
  quietRest, \* the quiet lane's own deadline
  granted    \* history: every use granted, per ledger

budgetVars == <<instant, ledger, overload, quietRest, granted>>

Ledgers == {"action", "read"}
Allowance(l) == IF l = "action" THEN ActionLimit ELSE ReadLimit
Later(a, b) == IF a >= b THEN a ELSE b

-----------------------------------------------------------------------------
\* The uses later than an instant and not of the future, in their order.
Filtered(uses, after) ==
  LET kept[i \in 0 .. Len(uses)] ==
        IF i = 0 THEN <<>>
        ELSE IF after < uses[i] /\ uses[i] <= instant THEN Append(kept[i - 1], uses[i])
        ELSE kept[i - 1]
  IN kept[Len(uses)]

\* Mutant: a use still counts when it is exactly as old as the window.
RecentInclusive(uses) == Filtered(uses, instant - BudgetWindow - 1)

\* Uses that still count: younger than the window and not of the future.
Recent(uses) == Filtered(uses, instant - BudgetWindow)

\* consumeStoreAction and consumeQuietRead.
Consume(l, notBefore) ==
  LET recent == Recent(ledger[l])
  IN IF notBefore > instant
     THEN [allowed |-> FALSE, history |-> recent, retryAt |-> notBefore]
     ELSE IF Len(recent) >= Allowance(l)
     THEN [allowed |-> FALSE, history |-> recent, retryAt |-> recent[1] + BudgetWindow]
     ELSE [allowed |-> TRUE, history |-> Append(recent, instant), retryAt |-> 0]

\* A quiet read waits for both deadlines, an action for the shared one, and the
\* steps of a Target persistence burst for none.
Deadline(l, persistence) ==
  IF l = "read" THEN Later(overload, quietRest)
  ELSE IF persistence THEN 0 ELSE overload

-----------------------------------------------------------------------------
BudgetInit ==
  /\ instant = 0
  /\ ledger = [l \in Ledgers |-> <<>>] /\ granted = ledger
  /\ overload = 0 /\ quietRest = 0

Use(l, persistence) ==
  LET answer == Consume(l, Deadline(l, persistence))
  IN /\ ledger' = [ledger EXCEPT ![l] = answer.history]
     /\ granted' = IF answer.allowed THEN [granted EXCEPT ![l] = Append(@, instant)] ELSE granted
     /\ UNCHANGED <<instant, overload, quietRest>>

\* pauseQuietStore: a deadline only grows; shared says whether all lanes rest.
Rest(until, isShared) ==
  /\ overload' = IF isShared THEN Later(overload, until) ELSE overload
  /\ quietRest' = Later(quietRest, Later(overload, until))
  /\ UNCHANGED <<instant, ledger, granted>>

\* The newest uses of a ledger.
Restored(uses) == SubSeq(uses, Later(1, Len(uses) - KeptUses + 1), Len(uses))

\* The desktop starts again.
BudgetRestart ==
  /\ ledger' = [l \in Ledgers |-> Restored(ledger[l])]
  /\ overload' = IF overload > instant THEN overload ELSE 0
  /\ quietRest' = 0
  /\ UNCHANGED <<instant, granted>>

InstantPasses ==
  /\ instant < MaxInstant
  /\ instant' = instant + 1
  /\ UNCHANGED <<ledger, overload, quietRest, granted>>

BudgetNext ==
  \/ Use("read", FALSE) \/ \E persistence \in BOOLEAN : Use("action", persistence)
  \/ \E until \in instant + 1 .. MaxInstant, isShared \in BOOLEAN : Rest(until, isShared)
  \/ BudgetRestart \/ InstantPasses

BudgetSpec == BudgetInit /\ [][BudgetNext]_budgetVars

-----------------------------------------------------------------------------
\* Uses granted in the window that ends at an instant.
InWindow(l, end) ==
  {i \in DOMAIN granted[l] : granted[l][i] > end - BudgetWindow /\ granted[l][i] <= end}

\* "fixed ceilings per rolling hour" (README.md:33), exactly: across restarts and
\* interleaved deadlines no window holds more uses than allowed; a use is refused
\* only when its window is full; and the refusal names the first instant at which
\* the same use, with nothing granted meanwhile, would find room.
CeilingExact ==
  \A l \in Ledgers :
    LET used == Cardinality(InWindow(l, instant))
        answer == Consume(l, 0)
    IN /\ used <= Allowance(l)
       /\ answer.allowed <=> used < Allowance(l)
       /\ ~answer.allowed =>
            \A t \in instant .. answer.retryAt :
              Cardinality(InWindow(l, t)) < Allowance(l) <=> t = answer.retryAt
=============================================================================
