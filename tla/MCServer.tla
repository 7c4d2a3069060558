------------------------------ MODULE MCServer ------------------------------
(* Small instances of Server: files of a few lines out of a short list, and
   complete configurations for the life of the process. *)
EXTENDS Server

W(v) == Word(v)
RefTo(v) == [k |-> "ref", v |-> v]
MacroOf(v) == [k |-> "macro", v |-> v]
SnippetOf(v) == [k |-> "snippet", v |-> v]

MCEnviron == "HOST" :> "example"
MCLibrary == ("lib" :> <<<<MacroOf("m"), Equals, W("x")>>, <<W("a"), MacroOf("m")>>,
                         <<SnippetOf("s"), Open>>, <<W("import"), W("lib")>>, <<CloseBrace>>>>)
             @@ ("loop" :> <<<<W("import"), W("loop")>>>>)

MCLines ==
  { <<W("a"), Open>>, <<CloseBrace>>, <<W("a"), W("b"), CloseBrace>>, <<W("a"), Escape>>,
    <<MacroOf("m"), Equals, W("x"), MacroOf("m")>>, <<W("a"), MacroOf("m"), [k |-> "embed", v |-> "m"]>>,
    <<SnippetOf("s"), Open>>, <<W("import"), W("s")>>,
    <<W("a"), [k |-> "text", v |-> "t"], W("b")>> }

Tls     == <<W("tls"), W("off")>>
Host    == <<W("hostname"), [k |-> "env", v |-> "HOST"]>>
End     == <<CloseBrace>>
Smtp(lines)  == <<<<W("smtp"), W("tcp"), Open>>>> \o lines \o <<End>>
Imap(lines)  == <<<<W("imap"), W("tcp"), Open>>>> \o lines \o <<End>>
Queue(names, lines) == <<<<W("target.queue")>> \o names \o <<Open>>>> \o lines \o <<End>>

MCPrepared ==
  { \* a queue under two names, an unused block
    <<Tls, Host>> \o Smtp(<<<<W("deliver_to"), RefTo("q")>>, <<W("auth"), RefTo("p")>>>>)
      \o Queue(<<W("q"), W("p")>>, <<<<W("target"), W("remote")>>>>)
      \o <<<<W("table.static"), W("unused")>>>>,
    \* blocks that refer to each other
    <<Tls, Host>> \o Smtp(<<<<W("deliver_to"), RefTo("q")>>, <<W("auth"), RefTo("p")>>>>)
      \o Imap(<<<<W("storage"), RefTo("r")>>, <<W("storage_map"), W("static")>>>>)
      \o Queue(<<W("q"), W("p")>>, <<<<W("target"), RefTo("r")>>>>)
      \o Queue(<<W("r")>>, <<<<W("target"), RefTo("q")>>>>),
    \* a table of a file, certificates of files
    <<Tls, Host>> \o Smtp(<<<<W("auth_map"), W("file"), W("aliases")>>, <<W("deliver_to"), W("remote")>>>>),
    <<<<W("tls"), W("file"), W("cert"), W("key")>>, Host>> \o Smtp(<<<<W("deliver_to"), W("remote")>>>>),
    \* a reference to a block not yet registered, to none, to an unknown module
    <<<<W("auth_map"), RefTo("q")>>, Tls, Host>> \o Smtp(<<>>),
    <<Tls, Host>> \o Smtp(<<<<W("deliver_to"), RefTo("nobody")>>>>),
    <<Tls, Host>> \o Smtp(<<<<W("deliver_to"), W("nothing")>>>>),
    \* no TLS, a name used twice, no endpoint, imports
    <<Host>> \o Smtp(<<>>), <<Host>> \o Smtp(<<Tls, <<W("max_message_size"), W("1M"), W("0")>>>>),
    <<<<W("tls"), Open>>, <<W("ciphers"), W("b")>>, End, Host>> \o Smtp(<<<<W("max_header_size"), W("1")>>>>),
    <<Tls, Host>> \o Queue(<<W("q"), W("q")>>, <<>>) \o Smtp(<<>>),
    <<Tls, Host>> \o Queue(<<W("q"), W("p"), W("p")>>, <<>>) \o Smtp(<<>>),
    \* two endpoints of one kind
    <<Tls, Host>> \o Smtp(<<<<W("deliver_to"), W("remote")>>>>) \o Smtp(<<>>),
    <<Tls, Host>>,
    <<<<W("import"), W("lib")>>, Tls, Host>> \o Smtp(<<>>), <<<<W("import"), W("loop")>>>> }
=============================================================================
