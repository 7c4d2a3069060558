------------------------------- MODULE Server -------------------------------
(***************************************************************************)
(* The server from its configuration file on: the operator writes the      *)
(* file, the parser reads it, config.Map converts the directives of the    *)
(* global block and of every module, and the process of ServerLife runs.   *)
(***************************************************************************)
EXTENDS ServerLife, ConfigMap

CONSTANTS Prepared,      \* complete configuration files
          Lines,         \* lines to write a file of
          MaxLines,      \* bound: lines of a file that is written
          Library        \* the files that can be imported: name -> lines

VARIABLE text            \* mailchatd.conf
svars == <<lifeVars, text>>

NoConfig == [globals |-> <<>>, blocks |-> <<>>]

ServerInit == InitWith(NoConfig, "editing") /\ text \in Prepared \cup {<<>>}

-----------------------------------------------------------------------------
(* Directives *)

Normalizers == {"auto", "noop"}
EnumOf(inherit, default, allowed) == [Matcher("Enum", inherit, FALSE, default) EXCEPT !.allowed = allowed]

\* ReadGlobals
GlobalEntries ==
  [n \in {"state_dir", "runtime_dir"} |-> Optional("String", <<Word("default")>>)]
  @@ [n \in {"hostname", "autogenerated_msg_domain"} |-> Optional("String", <<Word("")>>)]
  @@ [n \in {"storage_perdomain", "auth_perdomain", "debug"} |-> Optional("Bool", No)]
  @@ [n \in {"auth_domains", "log"} |-> Optional("StringList", Nil)]
  @@ ("tls" :> Optional("TLS", NoDefault)) @@ ("tls_client" :> Optional("TLS", NoDefault))
  @@ ("auth_map_normalize" :> EnumOf(TRUE, <<Word("auto")>>, Normalizers))
  @@ ("auth_map" :> Matcher("Module", TRUE, FALSE, Nil))

\* What the SMTP and the IMAP endpoint have in common.
SaslEntries ==
  ("auth" :> Callback) @@ ("sasl_login" :> Optional("Bool", No))
  @@ ("auth_map_normalize" :> EnumOf(TRUE, <<Word("auto")>>, Normalizers))
  @@ ("auth_map" :> Matcher("Module", TRUE, FALSE, Nil))
  @@ ("tls" :> Matcher("TLS", TRUE, TRUE, NoDefault))
  @@ ("insecure_auth" :> Optional("Bool", No)) @@ ("io_debug" :> Optional("Bool", No))
  @@ ("debug" :> Matcher("Bool", TRUE, FALSE, No))

\* Endpoint.setConfig of the SMTP endpoint
SmtpEntries ==
  SaslEntries @@ ("hostname" :> Matcher("String", TRUE, TRUE, <<Word("")>>))
  @@ [n \in {"write_timeout", "read_timeout"} |-> Optional("Duration", <<Word("10")>>)]
  @@ [n \in {"max_message_size", "max_header_size"} |-> Optional("DataSize", <<Word("10")>>)]
  @@ [n \in {"max_recipients", "max_received", "smtp_max_line_length", "max_logged_rcpt_errors"} |->
        Optional("Int", <<Word("10")>>)]
  @@ ("buffer" :> Optional("StringList", <<Word("auto")>>)) @@ ("defer_sender_reject" :> Optional("Bool", Yes))
  @@ ("limits" :> Optional("Module", Nil))

\* Endpoint.Init of the IMAP endpoint
ImapEntries ==
  SaslEntries @@ ("storage" :> Matcher("Module", FALSE, TRUE, NoDefault)) @@ ("io_errors" :> Optional("Bool", No))
  @@ ("storage_map_normalize" :> EnumOf(FALSE, <<Word("auto")>>, Normalizers)) @@ ("storage_map" :> Optional("Module", Nil))

\* Init of target.queue, table.file, tls.loader.file
EntriesOf(kind) ==
  CASE kind = "smtp" -> SmtpEntries
    [] kind = "imap" -> ImapEntries
    [] kind = "queue" -> ("target" :> Matcher("Module", FALSE, TRUE, NoDefault)) @@ ("debug" :> Matcher("Bool", TRUE, FALSE, No))
                         @@ ("max_tries" :> Optional("Int", <<Word("20")>>)) @@ ("location" :> Optional("String", <<Word("")>>))
    [] kind = "file" -> ("file" :> Optional("String", <<Word("")>>)) @@ ("debug" :> Matcher("Bool", TRUE, FALSE, No))
    [] kind = "tls" -> [n \in {"certs", "keys"} |-> Optional("StringList", Nil)]
    [] OTHER -> ("entry" :> Callback)

-----------------------------------------------------------------------------
(* From nodes to blocks *)

ModuleKind == ("smtp" :> "smtp") @@ ("imap" :> "imap") @@ ("target.queue" :> "queue")
              @@ ("target.remote" :> "remote") @@ ("table.static" :> "static") @@ ("table.file" :> "file") @@ ("tls.loader.file" :> "tls")
Known(v) == IF v \in DOMAIN ModuleKind THEN ModuleKind[v] ELSE "unknown"
\* The namespace a directive looks its modules up in.
Namespace == ("tls" :> "tls.loader.") @@ ("loader" :> "tls.loader.") @@ ("auth_map" :> "table.") @@ ("storage_map" :> "table.")
             @@ ("target" :> "target.") @@ ("deliver_to" :> "target.") @@ ("auth" :> "") @@ ("storage" :> "") @@ ("limits" :> "")

\* createInlineModule: the name in the directive's namespace, or else as it is.
InNamespace(ns, v) == IF Known(ns \o v) # "unknown" THEN Known(ns \o v) ELSE Known(v)

RECURSIVE References(_)
\* ModuleFromNode for every directive of a block that names a module, in order.
References(nodes) ==
  FlattenSeq([i \in 1..Len(nodes) |->
    LET n == nodes[i] IN
    IF n.name.v \notin DOMAIN Namespace THEN <<>>
    ELSE IF n.args = <<>> THEN References(n.children)        \* tls { loader ... }
    ELSE IF n.args[1] = Word("off") THEN <<>>
    ELSE <<IF n.args[1].k = "ref" THEN [inline |-> FALSE, to |-> n.args[1].v]
           ELSE [inline |-> TRUE, to |-> InNamespace(Namespace[n.name.v], n.args[1].v)]>>])

globals(nodes) == Process(GlobalEntries, TRUE, <<>>, nodes)

\* RegisterModules: the instance name is the first argument, the others are aliases;
\* the arguments of an endpoint are its addresses.
BlockOf(node, values) ==
  LET kind  == Known(node.name.v)
      names == [i \in 1..Len(node.args) |-> node.args[i].v]
      named == kind \notin EndpointKinds /\ names # <<>>
  IN [kind    |-> kind,
      inst    |-> IF named THEN names[1] ELSE node.name.v,
      aliases |-> IF named THEN Tail(names) ELSE <<>>,
      refs    |-> References(node.children),
      ok      |-> Process(EntriesOf(kind), kind = "smtp", values, node.children).ok]

ConfigOf(nodes) ==
  LET g == globals(nodes)
  IN [globals |-> References(SelectSeq(nodes, LAMBDA n : n.name.v \in DOMAIN GlobalEntries)),
      blocks  |-> [i \in 1..Len(g.unknown) |-> BlockOf(g.unknown[i], g.values)]]

Parsed == Read(Library @@ ("mailchatd.conf" :> text), "mailchatd.conf")

-----------------------------------------------------------------------------
(* The operator writes the file and starts the server. *)

Write(line) ==
  /\ pc = "editing" /\ text \notin Prepared /\ Len(text) < MaxLines
  /\ text' = Append(text, line) /\ UNCHANGED lifeVars

\* RunCobra: the file is parsed and moduleMain begins.
Run ==
  /\ pc = "editing" /\ UNCHANGED text
  /\ LET r == Parsed
     IN IF r.ok /\ globals(r.nodes).ok
        THEN cfg' = ConfigOf(r.nodes) /\ pc' = "globals"
        ELSE pc' = "failed" /\ UNCHANGED cfg
  /\ UNCHANGED <<next, initialized, stack, done, hooks, serving, loading, env>>

ServerNext == (\E l \in Lines : Write(l)) \/ Run \/ (LifeNext /\ UNCHANGED text)
ServerSpec == ServerInit /\ [][ServerNext]_svars /\ LifeFairness

-----------------------------------------------------------------------------
(* Properties *)

\* Type invariant: the process, and the references the parser hands to it.
TypeOK == LifeTypeOK /\ \A i \in Blocks : cfg.blocks[i].kind \in EndpointKinds \cup ModuleKinds \cup {"unknown"}

RECURSIVE InTree(_, _, _)
InTree(P(_, _), nodes, depth) ==
  \A i \in 1..Len(nodes) : P(nodes[i], depth) /\ InTree(P, nodes[i].children, depth + 1)

\* The braces open before a word of the file.
BraceDepth(pos) ==
  LET before == SelectSeq(allTokens(text), LAMBDA t : t.row < pos[1] \/ (t.row = pos[1] /\ t.col < pos[2]))
      count(w) == Len(SelectSeq(before, LAMBDA t : t.text = w))
  IN count(Open) - count(CloseBrace)
\* A declaration whose line ends the block around it.
EndsBlock == \E i \in 1..Len(text) : /\ text[i] # <<>> /\ text[i][1].k \in {"macro", "snippet"}
                                     /\ Last(text[i]) = CloseBrace

\* A file that is accepted is read the way its braces say: every directive belongs
\* to the block it is written in, and every block is closed.
ReadByBraces ==
  pc = "editing" /\ ~EndsBlock =>
    LET r == readText(text)
    IN ~r.ctx.err => /\ InTree(LAMBDA n, d : BraceDepth(n.pos) = d, r.nodes, 0)
                     /\ BraceDepth(<<Len(text) + 1, 0>>) = 0

\* What Read returns contains no import, no declaration and no reference to a macro
\* or to the environment ("snippets are expanded before it returns").
FullyExpanded ==
  pc = "editing" =>
    LET r == Parsed
    IN r.ok => InTree(LAMBDA n, d : /\ ~n.snippet /\ ~n.macro /\ ~IsImport(n)
                                    /\ \A i \in 1..Len(n.args) : n.args[i].k \notin {"macro", "embed", "env"},
                      r.nodes, 0)

\* An endpoint starts without TLS only where the configuration says "tls off", in its
\* own block or, when that says nothing, in the global block.
SaysOff(nodes) == \E i \in 1..Len(nodes) : nodes[i].name = Word("tls") /\ nodes[i].args = <<Word("off")>>
NoTLSOnlyIfSaid ==
  pc = "globals" /\ stack[1].at = 1 =>
    LET nodes == Parsed.nodes
        g == globals(nodes)
    IN \A i \in 1..Len(g.unknown) :
         LET n == g.unknown[i]
             p == Process(SmtpEntries, TRUE, g.values, n.children)
         IN Known(n.name.v) = "smtp" /\ p.ok /\ p.store["tls"] = Nil =>
              SaysOff(n.children) \/ SaysOff(nodes)

\* The server runs the configuration that was written: its blocks, its macros, snippets
\* and imports expanded, and no endpoint in the clear unless told so.
ConfigAsWritten == TypeOK /\ ReadByBraces /\ FullyExpanded /\ NoTLSOnlyIfSaid
=============================================================================
