------------------------------- MODULE MCBridge -------------------------------
(***************************************************************************)
(* Four parts of the desktop that meet the outside: the Discord poll, the  *)
(* scan of followed products, the Catalog Inbox and the ledgers of store   *)
(* traffic.  They share no state, so that one of them moves in each        *)
(* behaviour and the state space is their sum.                             *)
(***************************************************************************)
EXTENDS Discord, Scan, Catalog, Budgets

VARIABLE part

bridgeVars == <<discordVars, scanVars, catalogVars, budgetVars, part>>

BridgeInit ==
  /\ part \in {"discord", "scan", "catalog", "budget"}
  /\ DiscordInit /\ ScanInit /\ CatalogInit /\ BudgetInit
  /\ part = "scan" \/ tabOf = [r \in Runs |-> FirstTab]
  /\ part = "catalog" \/ tab = CHOOSE t \in StartTabs : TRUE

DiscordMoves ==
  part = "discord" /\ DiscordNext /\ UNCHANGED <<scanVars, catalogVars, budgetVars, part>>

ScanMoves ==
  part = "scan" /\ ScanNext /\ UNCHANGED <<discordVars, catalogVars, budgetVars, part>>

CatalogMoves ==
  part = "catalog" /\ CatalogNext /\ UNCHANGED <<discordVars, scanVars, budgetVars, part>>

BudgetMoves ==
  part = "budget" /\ BudgetNext /\ UNCHANGED <<discordVars, scanVars, catalogVars, part>>

BridgeSpec ==
  BridgeInit /\ [][DiscordMoves \/ ScanMoves \/ CatalogMoves \/ BudgetMoves]_bridgeVars
=============================================================================
