----------------------------- MODULE MCPkgFramer -----------------------------
(* PkgFramer with packages of two data bytes: a header, or the halves of one in the
   wrong order, which the neighbours of the data can complete when bytes are lost. *)
EXTENDS PkgFramer

MCPayloads == {[k \in Data |-> IF k = Count THEN "V" ELSE "A"],
               [k \in Data |-> IF k = Count THEN "A" ELSE "V"]}
===============================================================================
