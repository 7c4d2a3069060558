------------------------------- MODULE Tables -------------------------------
(***************************************************************************)
(* internal/table and the address modifiers of internal/modify: what a     *)
(* lookup gives and what replace_sender and replace_rcpt make of it.       *)
(*                                                                         *)
(* A table is a record [kind, m, args]; a lookup gives a sequence of       *)
(* values, or Failed.  An address or a local part is a model value; Local  *)
(* and DomainPart take apart what address.Split takes apart (at the last   *)
(* at-sign, without looking at the parts), Join puts two parts together,   *)
(* whatever they are: the result need not be valid, and may not split.     *)
(***************************************************************************)
EXTENDS Integers, Sequences, SequencesExt, FiniteSets

CONSTANTS Values,        \* addresses and local parts
          Addresses,     \* those of Values that are valid addresses
          Malformed,     \* those with an @ that are none
          Quoted,        \* those that begin or end with a double quote
          ForLookup,     \* Values -> the normalised form, or Failed
          Local,         \* what Split takes apart -> local part
          DomainPart,    \* the same -> domain, "" for postmaster
          Join,          \* <<local part, domain>> -> the two with an @ between them
          QuoteMbox,     \* local part -> the same, quoted where it must be
          Failed         \* a lookup that fails, an address that is malformed

ASSUME TablesAssumption ==
  /\ Addresses \subseteq Values /\ Malformed \subseteq Values \ Addresses
  /\ ForLookup \in [Values -> Values \cup {Failed}]
  /\ DOMAIN Local = DOMAIN DomainPart /\ Addresses \subseteq DOMAIN Local      \* Valid begins with Split
  /\ \A v \in Values \ {""} : v \notin DOMAIN Local => ForLookup[v] = Failed   \* and so does ForLookup

-----------------------------------------------------------------------------
(* Tables *)

static(m, key) == IF key \in DOMAIN m THEN m[key] ELSE <<>>
\* m: the keys the expression matches, with the replacements expanded.
regexp(m, key) == IF key \in DOMAIN m THEN m[key] ELSE <<>>
identity(key) == <<key>>
emailLocalpart(key, optional) == IF key \in DOMAIN Local THEN <<Local[key]>> ELSE IF optional THEN <<key>> ELSE <<>>
emailWithDomain(domains, key) == [i \in 1 .. Len(domains) |-> Join[<<QuoteMbox[key], domains[i]>>]]

\* LookupMulti of every table but chain, or Lookup for the three that have no other (a
\* chain takes those as steps; a modifier does not take them); broken: the query fails.
SingleTables == {"identity", "email_localpart", "email_localpart_optional"}
Lookup1(t, key, broken) ==
  CASE t.kind = "static" -> static(t.m, key)
    [] t.kind = "regexp" -> regexp(t.m, key)
    [] t.kind = "identity" -> identity(key)
    [] t.kind = "email_localpart" -> emailLocalpart(key, FALSE)
    [] t.kind = "email_localpart_optional" -> emailLocalpart(key, TRUE)
    [] t.kind = "email_with_domain" -> emailWithDomain(t.args, key)
    [] t.kind = "sql_query" -> IF broken THEN Failed ELSE static(t.m, key)

\* One step of a chain: the values of all keys in order; a key without one
\* undoes the step when it is optional and the lookup when it is not.
chainStep(step, keys, broken) ==
  LET found == [i \in 1 .. Len(keys) |-> Lookup1(step, keys[i], broken)]
      stop == {i \in DOMAIN found : found[i] = Failed \/ found[i] = <<>>}
  IN IF stop = {} THEN FlattenSeq(found)
     ELSE IF found[CHOOSE i \in stop : \A j \in stop : i <= j] = Failed THEN Failed
     ELSE IF step.optional THEN keys ELSE <<>>
LookupMulti(t, key, broken) ==
  IF t.kind # "chain" THEN Lookup1(t, key, broken)
  ELSE FoldLeft(LAMBDA keys, step : IF keys \in {Failed, <<>>} THEN keys ELSE chainStep(step, keys, broken), <<key>>, t.args)

-----------------------------------------------------------------------------
(* modify.replace_sender and modify.replace_rcpt *)

\* rewrite: the whole address, then its local part.  A replacement of the local part
\* without an @ keeps the domain, and so does one with quotes at either end, which may
\* be an address; neither is checked again.
rewrite(t, val, broken) ==
  LET norm == ForLookup[val]
      whole == LookupMulti(t, norm, broken)
      part == LookupMulti(t, Local[norm], broken)
      hasDomain(v) == v \in (Addresses \cup Malformed) \ Quoted
  IN IF norm = Failed THEN Failed
     ELSE IF whole = Failed THEN Failed
     ELSE IF whole # <<>> THEN (IF ToSet(whole) \subseteq Addresses THEN whole ELSE Failed)
     ELSE IF norm \notin DOMAIN Local THEN <<val>>
     ELSE IF part = Failed THEN Failed
     ELSE IF \E v \in ToSet(part) : hasDomain(v) /\ v \notin Addresses THEN Failed
     ELSE IF part # <<>> THEN [i \in DOMAIN part |-> IF hasDomain(part[i]) THEN part[i] ELSE Join[<<part[i], DomainPart[norm]>>]]
     ELSE <<val>>

\* A group of modifiers: the sender through each, a recipient through each
\* and every result of the one through the next.
RewriteSenderWith(tables, from, broken) ==
  FoldLeft(LAMBDA v, t : IF v = Failed THEN v ELSE LET r == rewrite(t, v, broken) IN IF r = Failed THEN Failed ELSE r[1],
           from, tables)
RewriteRcptWith(tables, rcpt, broken) ==
  FoldLeft(LAMBDA vs, t : IF vs = Failed THEN vs
                          ELSE LET each == [i \in DOMAIN vs |-> rewrite(t, vs[i], broken)]
                               IN IF \E i \in DOMAIN each : each[i] = Failed THEN Failed ELSE FlattenSeq(each),
           <<rcpt>>, tables)

-----------------------------------------------------------------------------
\* Reference: the values of a key through a chain are those of the composed
\* relation, all or nothing: Mandatory chains only.
Related(step, keys) == UNION {ToSet(Lookup1(step, k, FALSE)) : k \in keys}
Composed(t, key) ==
  LET after[i \in 0 .. Len(t.args)] == IF i = 0 THEN {key} ELSE Related(t.args[i], after[i - 1])
      whole == \A i \in 1 .. Len(t.args) : \A k \in after[i - 1] : Lookup1(t.args[i], k, FALSE) # <<>>
  IN IF whole THEN after[Len(t.args)] ELSE {}
=============================================================================
