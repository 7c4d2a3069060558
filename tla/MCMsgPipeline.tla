---------------------------- MODULE MCMsgPipeline ----------------------------
(* Small instances of MsgPipeline for TLC: r1 is a list address, r2 an alias *)
(* of list, which a table routes to a block of its own.                     *)
EXTENDS MsgPipeline, TLC

CONSTANTS r1, r2, list, cg, cs, cb, t1, t2

MCAddr == {r1, r2, list}
MCDomainOf == [a \in MCAddr |-> IF a = r1 THEN "local" ELSE "remote"]
MCCheck == {cg, cs, cb}
MCTarget == {t1, t2}
MCPartial == {t2}
Same == [a \in MCAddr |-> <<a>>]
NoRules == [k \in {} |-> "none"]
MCGlobal ==
  [checks |-> {cg}, sender |-> [a \in MCAddr |-> a], dmarc |-> TRUE,
   rewrite |-> [a \in MCAddr |-> IF a = r2 THEN <<list>> ELSE <<a>>],
   route |-> [in |-> <<[table |-> {r2}, block |-> "guests"]>>, rules |-> NoRules, default |-> "main"]]
MCSource ==
  [main |-> [checks |-> {cs}, rejects |-> FALSE,
             rewrite |-> [a \in MCAddr |-> IF a = r1 THEN <<r1, list>> ELSE <<a>>],
             route |-> [in |-> <<[table |-> {list}, block |-> "lists"]>>,
                        rules |-> [k \in {"local"} |-> "users"], default |-> "nobody"]],
   guests |-> [checks |-> {}, rejects |-> TRUE, rewrite |-> Same,
               route |-> [in |-> <<>>, rules |-> NoRules, default |-> "nobody"]]]
MCBlock ==
  [users |-> [checks |-> {cb}, rejects |-> FALSE, rewrite |-> Same, targets |-> <<t1, t2>>],
   lists |-> [checks |-> {}, rejects |-> FALSE, rewrite |-> Same, targets |-> <<t2>>],
   nobody |-> [checks |-> {}, rejects |-> TRUE, rewrite |-> Same, targets |-> <<>>]]
=============================================================================
