---------------------------- MODULE MCOrderImport ----------------------------
(* Small instances of OrderImport for TLC. *)
EXTENDS OrderImport

\* Every order of the one client has an orderId of its own.
MCOidOf == [b \in BrokerOrders |-> 100 + b]
=============================================================================
