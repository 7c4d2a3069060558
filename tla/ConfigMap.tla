------------------------------ MODULE ConfigMap -----------------------------
(***************************************************************************)
(* config.Map: what the directives of a block, the values of the global    *)
(* block and the defaults make of the variables a module declares.         *)
(*                                                                         *)
(* A value is the sequence of words it was made of; <<>> is nil.  A result *)
(* is [ok, val].  A matcher is [kind, inherit, required, default, allowed] *)
(* with default = NoDefault for a nil factory; the kind says which mapper  *)
(* converts the directive, and "Callback" stands for a custom callback.    *)
(***************************************************************************)
EXTENDS ConfigParser

NoDefault == <<Word("no default")>>
Nil == <<>>
Ok(val) == [ok |-> TRUE, val |-> val]
Bad     == [ok |-> FALSE, val |-> Nil]

Yes == <<Word("yes")>>
No  == <<Word("no")>>
Numbers == {"0", "1", "10"}

Matcher(kind, inherit, required, default) ==
  [kind |-> kind, inherit |-> inherit, required |-> required, default |-> default, allowed |-> {}]
Optional(kind, default) == Matcher(kind, FALSE, FALSE, default)
Callback == Matcher("Callback", FALSE, FALSE, NoDefault)

-----------------------------------------------------------------------------
(* Mappers *)

ParseBool(w) == CASE w.v \in {"1", "true", "on", "yes"} -> Ok(Yes)
                  [] w.v \in {"0", "false", "off", "no"} -> Ok(No)
                  [] OTHER -> Bad

\* Pairs of a number and a unit, added up.  A zero needs no unit.
Unit == ("B" :> 1) @@ ("b" :> 1) @@ ("K" :> 1024) @@ ("M" :> 1048576)
Pair(v) == CASE v = "1M" -> [num |-> 1, unit |-> "M"] [] v = "0" -> [num |-> 0, unit |-> ""] [] OTHER -> [num |-> 1, unit |-> ""]
ParseDataSize(pairs) ==
  [ok  |-> pairs # <<>> /\ \A i \in 1..Len(pairs) : pairs[i].num = 0 \/ pairs[i].unit \in DOMAIN Unit,
   val |-> FoldLeft(LAMBDA sum, p : sum + IF p.unit \in DOMAIN Unit THEN p.num * Unit[p.unit] ELSE 0, 0, pairs)]

\* What each declaration accepts.  An empty block counts as none.
Plain(node)  == node.children = <<>>
Single(node) == Len(node.args) = 1 /\ Plain(node)
If(accepted, val) == IF accepted THEN Ok(val) ELSE Bad

EnumList(m, node) == If(Plain(node) /\ node.args # <<>> /\ \A i \in 1..Len(node.args) : node.args[i].v \in m.allowed, node.args)
Enum(m, node)     == If(Single(node) /\ node.args[1].v \in m.allowed, node.args)
\* The arguments are joined and parsed; the instances use well-formed ones.
Duration(node)    == If(Plain(node) /\ node.args # <<>>, node.args)
DataSize(node)    == If(Plain(node) /\ node.args # <<>> /\ ParseDataSize([i \in 1..Len(node.args) |-> Pair(node.args[i].v)]).ok, node.args)
StringList(node)  == If(Plain(node) /\ node.args # <<>>, node.args)
String(node)      == If(Single(node), node.args)
Bool(node)        == IF ~Plain(node) \/ Len(node.args) > 1 THEN Bad ELSE IF node.args = <<>> THEN Ok(Yes) ELSE ParseBool(node.args[1])
Integer(node)     == If(Single(node) /\ node.args[1].v \in Numbers, node.args)
\* Unlike the others, a float may be followed by a block.
Float(node)       == If(Len(node.args) = 1 /\ node.args[1].v \in Numbers, node.args)
Custom(node)      == If(node.args # <<>>, node.args)
\* tls off, or a configuration; its own block allows four directives, once each.
TLSDirective(node) ==
  IF node.args # <<>> /\ node.args[1].v = "off" THEN Ok(Nil)
  ELSE If(/\ IsInjective([i \in 1..Len(node.children) |-> node.children[i].name])
          /\ \A i \in 1..Len(node.children) : node.children[i].name.v \in {"loader", "protocols", "ciphers", "curves"},
          <<Word("tls")>> \o node.args)

Mapper(m, node) ==
  CASE m.kind = "Enum" -> Enum(m, node)        [] m.kind = "EnumList" -> EnumList(m, node)
    [] m.kind = "String" -> String(node)       [] m.kind = "StringList" -> StringList(node)
    [] m.kind = "Duration" -> Duration(node)   [] m.kind = "DataSize" -> DataSize(node)
    [] m.kind = "Bool" -> Bool(node)           [] m.kind = "Int" -> Integer(node)
    [] m.kind = "Float" -> Float(node)         [] m.kind = "Module" -> Custom(node)
    [] m.kind = "TLS" -> TLSDirective(node)

\* The zero value of the type, which is not kept for the blocks that inherit.
IsZero(val) == val \in {Nil, No, <<Word("")>>, <<Word("0")>>}

-----------------------------------------------------------------------------
(* Process *)

Occurrences(block, name) == SelectSeq(block, LAMBDA n : n.name = Word(name))

AssignedLax(m, name, globals, block) ==
  LET own == Occurrences(block, name)
  IN CASE own # <<>> -> IF Len(own) > 1 THEN Bad ELSE Mapper(m, own[1])
       [] own = <<>> /\ m.inherit /\ name \in DOMAIN globals -> Ok(globals[name])
       [] OTHER -> Ok(IF m.default = NoDefault THEN Nil ELSE m.default)
\* The value of a variable: the block's own, inherited, or the default.
Assigned(m, name, globals, block) ==
  LET own == Occurrences(block, name)
  IN CASE own # <<>> -> IF Len(own) > 1 THEN Bad ELSE Mapper(m, own[1])
       [] own = <<>> /\ m.inherit /\ name \in DOMAIN globals -> Ok(globals[name])
       [] own = <<>> /\ ~(m.inherit /\ name \in DOMAIN globals) /\ m.required -> Bad
       [] OTHER -> Ok(IF m.default = NoDefault THEN Nil ELSE m.default)

\* entries: name -> matcher.  unknown is what the caller gets back.
Process(entries, allowUnknown, globals, block) ==
  LET known     == {n \in DOMAIN entries : entries[n].kind # "Callback"}
      assigned  == [n \in known |-> Assigned(entries[n], n, globals, block)]
      kept(n)   == Occurrences(block, n) # <<>> \/ ~IsZero(assigned[n].val)
      unknown   == SelectSeq(block, LAMBDA n : n.name.v \notin DOMAIN entries)
  IN [ok      |-> /\ \A n \in known : assigned[n].ok
                  /\ allowUnknown \/ unknown = <<>>,
      store   |-> [n \in known |-> assigned[n].val],
      values  |-> [n \in {k \in known : kept(k)} |-> assigned[n].val],
      unknown |-> unknown]
=============================================================================
