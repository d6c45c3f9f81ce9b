--------------------------- MODULE MCAdapterService ---------------------------
(* Two connections and two threads: loops may fill the pool, or leave it a  *)
(* thread.                                                                  *)
EXTENDS AdapterService

MCKinds == {"push", "check", "hover"}
===============================================================================
