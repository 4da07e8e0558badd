------------------------- MODULE MCEugsterProtocol -------------------------
(***************************************************************************)
(* EugsterProtocol for TLC: the poll loop and two callers that are         *)
(* interchangeable, as are the keys, the protocol objects and the values.  *)
(***************************************************************************)
EXTENDS EugsterProtocol, TLC

\* Every write once, every read with every value.
MCCommands == [op : Writes, arg : {Nothing}]
              \cup [op : Reads \ {Status}, arg : Args \ {Nothing}]

Symmetry == Permutations(Tasks \ {Poller}) \cup Permutations(Keys)
            \cup Permutations(Protocols) \cup Permutations(Args \ {Nothing})
=============================================================================
