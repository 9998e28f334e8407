----------------------------- MODULE MCJMSSender -----------------------------
(* Instances of JMSSender for TLC: the .cfg files give the constants. *)
EXTENDS JMSSender
=============================================================================
