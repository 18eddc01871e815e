------------------------------ MODULE MCOrderRules ------------------------------
(* Model checking of the two rules every stored report goes through: how it   *)
(* moves an order (OrderEvents, an order of three units), and how its fill    *)
(* moves an inventory (FifoInventory, up to three lots and two venue times,   *)
(* so that ties are broken by lot ID and late fills sort before earlier       *)
(* ones).  The two share no state, so a behaviour is one of the one rule or   *)
(* of the other.                                                              *)
EXTENDS OrderEvents, FifoInventory

RulesInit == Init /\ InventoryInit

RulesNext == \/ Next /\ InventoryInit /\ UNCHANGED inventoryVars
             \/ InventoryNext /\ Init /\ UNCHANGED vars

RulesSpec == RulesInit /\ [][RulesNext]_<<vars, inventoryVars>>
=================================================================================
