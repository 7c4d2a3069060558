------------------------------ MODULE MCTools -------------------------------
(* A small instance of Tools for TLC. *)
EXTENDS Tools, TLC

CONSTANTS t1, t2, s1, s2
Symmetric == Permutations({t1, t2}) \cup Permutations({s1, s2})
MCTwo == {t1, t2}
MCSessions == {s1, s2}

\* Credentials: two accounts, one of them typed in another case, a name that
\* is refused, two ways to map names and every provider.
MCNames == {"Alice", "m", "bad"}
MCCompareKey == "alice" :> "alice" @@ "Alice" :> "alice" @@ "m" :> "m" @@ "bad" :> BadName
MCAuthMaps == {NoMap, "alice" :> "m" @@ "m" :> "alice"}
MCDirectory == "alice" :> "p1" @@ "m" :> "p2"
MCEntry(pass, max, acct) == [pass |-> pass, locked |-> FALSE, lastChange |-> 0, maxPassAge |-> max, inactivity |-> 0, acctExpiry |-> acct]
MCShadow == "alice" :> MCEntry("p1", 1, -1) @@ "m" :> MCEntry("p2", -1, 2)
MCDomainOf == [n \in DOMAIN MCCompareKey |-> IF n = "m" THEN "d" ELSE ""]
MCLocalOf == [n \in DOMAIN MCCompareKey |-> n]
MCProviders == {<<"pass_table">>, <<"ldap", "pass_table">>, <<"shadow", "external">>, <<"pam", "dovecot_sasl", "netauth">>, <<"pass_evm", "plain_separate">>, <<"plain_separate_nopass", "external">>}

\* Mailboxes
MCDefaultFolders == <<"Sent", "Trash">>
MCLimitValues == {-1, 3, 5}

\* Tables and Signing
MCLocals == {"a", "b", "c", "list"}
MCDoms == {"d1", "d2", "s.d1"}
\* An apostrophe stands for a double quote.
MCQuotedAddress == "'q'@d2"
MCJoin == [p \in (MCLocals \cup {"", MCQuotedAddress}) \X MCDoms |-> p[1] \o "@" \o p[2]]
MCAddresses == {MCJoin[p] : p \in MCLocals \X MCDoms} \cup {"A@d1", MCQuotedAddress, "postmaster"}
MCTwice == {MCJoin[<<MCQuotedAddress, d>>] : d \in MCDoms}
MCMalformed == MCTwice \cup {MCJoin[<<"", d>>] : d \in MCDoms} \cup {"bad@"}
MCValues == MCAddresses \cup MCLocals \cup MCMalformed \cup {"", "'q'"}
MCPair(a) == CASE a = "A@d1" -> <<"A", "d1">> [] a = "postmaster" -> <<"postmaster", "">>
               [] a = MCQuotedAddress -> <<"'q'", "d2">> [] OTHER -> CHOOSE p \in DOMAIN MCJoin : MCJoin[p] = a
MCLocal == [a \in MCAddresses \cup MCTwice |-> MCPair(a)[1]]
MCDomainPart == [a \in MCAddresses \cup MCTwice |-> MCPair(a)[2]]
MCForLookup == [v \in MCValues |-> CASE v = "A@d1" -> "a@d1" [] v \in DOMAIN MCLocal \cup {""} -> v [] OTHER -> Failed]
MCQuoted == MCTwice \cup {"'q'", MCQuotedAddress}
MCQuoteMbox == [v \in MCLocals |-> v]
MCSubdomainOf == "s.d1" :> "d1"

MCTable(kind, m) == [kind |-> kind, m |-> m, args |-> <<>>, optional |-> FALSE]
MCStep(kind, m, args, opt) == [kind |-> kind, m |-> m, args |-> args, optional |-> opt]
MCChain(steps) == [kind |-> "chain", m |-> <<>>, args |-> steps, optional |-> FALSE]
MCExpand == "list@d1" :> <<"b@d1", "c@d2">>
MCGroups ==
  { [domains |-> <<"d1", "d2">>, sub |-> FALSE, from |-> <<MCTable("static", "a@d1" :> <<"c@d2">>)>>,
     rcpt |-> <<MCChain(<<MCStep("static", MCExpand, <<>>, FALSE),
                          MCStep("static", "b@d1" :> <<"a@d1">> @@ "c@d2" :> <<"c@d2", "b@d1">>, <<>>, FALSE)>>)>>],
    [domains |-> <<"d1">>, sub |-> TRUE, from |-> <<MCTable("regexp", "a" :> <<"b">>)>>,
     rcpt |-> <<MCChain(<<MCStep("static", MCExpand, <<>>, FALSE), MCStep("static", "b@d1" :> <<"a@d1">>, <<>>, FALSE)>>)>>],
    [domains |-> <<"d1">>, sub |-> TRUE, from |-> <<MCTable("sql_query", "b@s.d1" :> <<"bad@">>)>>,
     rcpt |-> <<MCChain(<<MCStep("static", MCExpand, <<>>, FALSE), MCStep("sql_query", "b@d1" :> <<"a@d1">>, <<>>, TRUE)>>),
                MCTable("static", "c" :> <<"a", MCQuotedAddress>>)>>],
    [domains |-> <<"d1">>, sub |-> TRUE, from |-> <<MCChain(<<MCStep("email_localpart", <<>>, <<>>, FALSE), MCStep("static", "b" :> <<"b@d1">>, <<>>, FALSE)>>)>>,
     rcpt |-> <<MCChain(<<MCStep("identity", <<>>, <<>>, FALSE)>>)>>],
    [domains |-> <<"d1">>, sub |-> FALSE, from |-> <<MCTable("static", "b" :> <<"">> @@ "a" :> <<MCQuotedAddress>>)>>, rcpt |-> <<>>],
    [domains |-> <<"d1">>, sub |-> TRUE, from |-> <<MCTable("static", "b" :> <<"bad@">>)>>,
     rcpt |-> <<MCChain(<<MCStep("email_localpart_optional", <<>>, <<>>, FALSE), MCStep("static", "list" :> <<"a", "b">>, <<>>, FALSE),
                          MCStep("email_with_domain", <<>>, <<"d1", "d2">>, FALSE)>>)>>] }
MCMail ==
  << [from |-> "A@d1", rcpt |-> "list@d1", fields |-> "Subject" :> 1 @@ "List-Id" :> 2, tx |-> TRUE],
     [from |-> "b@s.d1", rcpt |-> "list@d1", fields |-> "Subject" :> 2, tx |-> FALSE],
     [from |-> "", rcpt |-> "a@d2", fields |-> <<>>, tx |-> FALSE],
     [from |-> "postmaster", rcpt |-> "a@d2", fields |-> <<>>, tx |-> FALSE] >>
MCOversign == <<"Subject", "From", "Subject">>
MCSign == <<"List-Id", "Subject">>
=============================================================================
