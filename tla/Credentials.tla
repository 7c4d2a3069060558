----------------------------- MODULE Credentials ----------------------------
(***************************************************************************)
(* Who may log in: SASL logins of the server's sessions against the        *)
(* providers of their endpoint, and the creds command changing the table   *)
(* of credentials at the same time, each SQL statement a step of its own.  *)
(***************************************************************************)
EXTENDS AuthProviders, SequencesExt

CONSTANTS Sessions, Tools,
          AuthMaps,        \* the auth_map tables to try: functions on keys, or NoMap
          NoMap,
          Providers,       \* the sequences of providers to try
          MaxActs,         \* bound: commands of the operator and logins
          MaxFaults        \* bound: failing databases, services and connections

VARIABLES
  table,      \* pass_table's SQL table: key -> hash, Absent
  cmd,        \* tool -> its command
  login,      \* session -> its SASL exchange
  ldap,       \* auth.ldap: [conn, bound, holder]
  setup,      \* [amap, provs, bind]: the configuration of the endpoint
  used        \* [acts, faults, day]

cvars == <<table, cmd, login, ldap, setup, used>>

NoSession == "nobody"
ProviderKinds == {"pass_table", "shadow", "external", "pam", "dovecot_sasl", "netauth", "pass_evm",
                  "plain_separate", "plain_separate_nopass", "ldap"}

ASSUME CredentialsAssumption ==
  /\ CompareKey \in [Names \cup Keys -> Keys \cup {BadName}]
  /\ \A m \in AuthMaps \ {NoMap} : \A k \in DOMAIN m : m[k] \in Names \cup Keys
  /\ Providers \subseteq Seq(ProviderKinds) \ {<<>>}
  /\ NoSession \notin Sessions

NoCommand == [op |-> "none", name |-> "none", key |-> "none", hash |-> Absent, at |-> "done", said |-> "none", alone |-> FALSE, lost |-> FALSE]
NoLogin   == [mech |-> "none", name |-> "none", id |-> "none", pass |-> "none", at |-> "idle", i |-> 0, asked |-> "none", seen |-> Absent, day |-> 0, said |-> "none"]

CredentialsInit ==
  /\ \E h \in {Absent, [algo |-> "argon2", pass |-> "p1", form |-> "short"]} : table = [k \in Keys |-> h]
  /\ cmd = [t \in Tools |-> NoCommand]
  /\ login = [s \in Sessions |-> NoLogin]
  /\ setup \in [amap: AuthMaps, provs: Providers, bind: {"off", "plain"}]
  /\ setup.bind = "off" => Contains(setup.provs, "ldap")
  /\ ldap = [conn |-> "open", bound |-> IF setup.bind = "off" THEN "anonymous" ELSE "reader", holder |-> NoSession]
  /\ used = [acts |-> 0, faults |-> 0, day |-> 0]

Fault == used.faults < MaxFaults /\ used' = [used EXCEPT !.faults = @ + 1]
Works == UNCHANGED used
Acts  == used.acts < MaxActs /\ used' = [used EXCEPT !.acts = @ + 1]

-----------------------------------------------------------------------------
(* The creds command *)

\* HashCompute of creds create: only the cost of bcrypt is given, and argon2
\* panics on zero rounds.
HashCompute(algo, pass) == IF algo = "argon2" THEN "panic" ELSE "ok"

Tool(t, at, said) == cmd' = [cmd EXCEPT ![t].at = at, ![t].said = said]
Running(t) == cmd[t].at # "done"

\* A command that says something of a key is no longer alone with it once another
\* command of that key starts.
Starts(t, c) ==
  cmd' = [u \in Tools |->
            IF u = t THEN [c EXCEPT !.alone = \A v \in Tools \ {t} : ~(Running(v) /\ cmd[v].key = c.key)]
            ELSE IF cmd[u].key = c.key THEN [cmd[u] EXCEPT !.alone = FALSE] ELSE cmd[u]]

\* Commands only matter where logins read the table.
Begins(t) == ~Running(t) /\ Contains(setup.provs, "pass_table") /\ Acts
Command(op, n, p, algo, at) ==
  [op |-> op, name |-> n, key |-> CompareKey[n], hash |-> [algo |-> algo, pass |-> p, form |-> "good"],
   at |-> at, said |-> "none", alone |-> TRUE, lost |-> FALSE]
Refused(c) == [c EXCEPT !.at = "done", !.said = "refused"]

\* A key that cannot be made of the name, or an unknown hash, is refused at once.
CredsCreate(t, n, p, algo) ==
  /\ Begins(t)
  /\ LET c == Command("create", n, p, algo, "lookup")
     IN Starts(t, IF algo \notin HashVerify \/ CompareKey[n] = BadName THEN Refused(c) ELSE c)
  /\ UNCHANGED <<table, login, ldap, setup>>

CredsPassword(t, n, p) ==
  /\ Begins(t)
  /\ LET c == Command("password", n, p, "bcrypt", "add")
     IN Starts(t, IF CompareKey[n] = BadName THEN Refused(c) ELSE c)
  /\ UNCHANGED <<table, login, ldap, setup>>

CredsRemove(t, n) ==
  /\ Begins(t)
  /\ LET c == Command("remove", n, "none", "none", "del")
     IN Starts(t, IF CompareKey[n] = BadName THEN Refused(c) ELSE c)
  /\ UNCHANGED <<table, login, ldap, setup>>

\* The user database of pass_evm: create and remove are those of the IMAP storage
\* (Mailboxes), password is accepted and does nothing.  No login reads any of it.
AtOnce(op, n, p, said) ==
  [op |-> op, name |-> n, key |-> "none", hash |-> [algo |-> "none", pass |-> p, form |-> "good"],
   at |-> "done", said |-> said, alone |-> TRUE, lost |-> FALSE]
CredsEVM(t, op, n, p) ==
  /\ ~Running(t) /\ Contains(setup.provs, "pass_evm") /\ Acts
  /\ \E said \in IF op = "evm_password" THEN {"ok"} ELSE {"ok", "error"} :
       Starts(t, AtOnce(op, n, p, said))
  /\ UNCHANGED <<table, login, ldap, setup>>

\* CreateUserHash asks whether the user exists.  The others of its steps are SetKey.
CreateUserLooksUp(t) ==
  /\ cmd[t].at = "lookup"
  /\ \/ /\ Works
        /\ IF table[cmd[t].key] # Absent THEN Tool(t, "done", "exists")
           ELSE IF HashCompute(cmd[t].hash.algo, cmd[t].hash.pass) = "panic" THEN Tool(t, "done", "panic")
           ELSE Tool(t, "add", "none")
     \/ Fault /\ Tool(t, "done", "error")
  /\ UNCHANGED <<table, login, ldap, setup>>

\* SetKey: INSERT, and on any error UPDATE, which says nothing of a key that is not
\* there.  lost remembers that the INSERT failed although no row was in its way.
SetKeyAdds(t) ==
  /\ cmd[t].at = "add"
  /\ \/ /\ Works
        /\ IF table[cmd[t].key] = Absent
           THEN table' = [table EXCEPT ![cmd[t].key] = cmd[t].hash] /\ Tool(t, "done", "ok")
           ELSE UNCHANGED table /\ Tool(t, "set", "none")
     \/ Fault /\ UNCHANGED table /\ cmd' = [cmd EXCEPT ![t].at = "set", ![t].lost = TRUE]
  /\ UNCHANGED <<login, ldap, setup>>

\* Mutant: the UPDATE is left out.
SetKeySetsNothing(t) ==
  /\ cmd[t].at = "set" /\ Works /\ UNCHANGED table /\ Tool(t, "done", "ok")
  /\ UNCHANGED <<login, ldap, setup>>
SetKeySets(t) ==
  /\ cmd[t].at = "set"
  /\ \/ /\ Works /\ Tool(t, "done", "ok")
        /\ table' = [table EXCEPT ![cmd[t].key] = IF @ = Absent THEN Absent ELSE cmd[t].hash]
     \/ Fault /\ UNCHANGED table /\ Tool(t, "done", "error")
  /\ UNCHANGED <<login, ldap, setup>>

RemoveKey(t) ==
  /\ cmd[t].at = "del"
  /\ \/ Works /\ table' = [table EXCEPT ![cmd[t].key] = Absent] /\ Tool(t, "done", "ok")
     \/ Fault /\ UNCHANGED table /\ Tool(t, "done", "error")
  /\ UNCHANGED <<login, ldap, setup>>

Killed(t) ==
  /\ Running(t) /\ Fault /\ Tool(t, "done", "killed")
  /\ UNCHANGED <<table, login, ldap, setup>>

-----------------------------------------------------------------------------
(* SASL *)

NoName == "no name"
usernameForAuth(n) ==
  IF CompareKey[n] = BadName THEN NoName
  ELSE IF setup.amap = NoMap THEN CompareKey[n]
  ELSE IF CompareKey[n] \in DOMAIN setup.amap THEN setup.amap[CompareKey[n]] ELSE NoName

Session(s, l) == login' = [login EXCEPT ![s] = l]
Says(s, answer) == Session(s, [login[s] EXCEPT !.at = "idle", !.said = answer])

\* PLAIN: everything in one response.  The identity, when given, must be the user name.
CreatePlain(s, n, p) ==
  /\ login[s].at = "idle" /\ Acts
  /\ Session(s, [NoLogin EXCEPT !.mech = "PLAIN", !.name = n, !.id = n, !.pass = p, !.at = "ask", !.i = 1])
  /\ UNCHANGED <<table, cmd, ldap, setup>>

\* LOGIN: the user name in the initial response, or after a challenge.
CreateLogin(s) ==
  /\ login[s].at = "idle" /\ Acts
  /\ Session(s, [NoLogin EXCEPT !.mech = "LOGIN", !.at = "loginNotStarted"])
  /\ UNCHANGED <<table, cmd, ldap, setup>>
loginChallenge(s) ==
  /\ login[s].at = "loginNotStarted"
  /\ Session(s, [login[s] EXCEPT !.at = "loginWaitingUsername"])
  /\ UNCHANGED <<table, cmd, ldap, setup, used>>
loginUsername(s, n) ==
  /\ login[s].at \in {"loginNotStarted", "loginWaitingUsername"}
  /\ Session(s, [login[s] EXCEPT !.name = n, !.at = "loginWaitingPassword"])
  /\ UNCHANGED <<table, cmd, ldap, setup, used>>

\* The name is mapped here and, by AuthPlain, once more for each provider.
loginPassword(s, p) ==
  /\ login[s].at = "loginWaitingPassword"
  /\ LET mapped == usernameForAuth(login[s].name)
     IN IF mapped = NoName THEN Says(s, "no")
        ELSE Session(s, [login[s] EXCEPT !.pass = p, !.id = mapped, !.name = mapped, !.at = "ask", !.i = 1])
  /\ UNCHANGED <<table, cmd, ldap, setup, used>>

Provider(s) == IF login[s].at # "idle" /\ login[s].i \in 1..Len(setup.provs) THEN setup.provs[login[s].i] ELSE "none"

\* What AuthPlain makes of a provider's answer: done, or on to the next one.
Answered(s, answer, l) ==
  Session(s, CASE answer \in {"ok", "panic"} -> [l EXCEPT !.at = "idle", !.said = answer]
               [] OTHER -> IF l.i = Len(setup.provs) THEN [l EXCEPT !.at = "idle", !.said = "no"]
                           ELSE [l EXCEPT !.i = @ + 1, !.at = "ask"])

\* The user tables of plain_separate: none, one that has the name, one that fails, none that has it.
UserTables(n) == {<<>>, <<{}, {n}>>, <<Broken, {n}>>, <<{}>>}

\* The answers a provider may give; up says whether what it needs works.
AnswerOf(kind, n, p, up) ==
  CASE kind = "pass_table" -> {passTable(n, p, table, ~up)}
    [] kind = "shadow" -> {shadow(n, p, used.day, ~up)}
    [] kind = "external" -> {external(n, p, up, perDomain) : perDomain \in BOOLEAN}
    [] kind = "pam" -> {pam(n, p, up, helper, lib) : helper \in BOOLEAN, lib \in BOOLEAN}
    [] kind = "dovecot_sasl" -> {dovecot(n, p, up, mechs) : mechs \in {{}, {"LOGIN"}}}
    [] kind = "netauth" -> {netauth(n, p, up, member) : member \in BOOLEAN}
    [] kind = "pass_evm" -> {evm(n, p, up)}
    [] kind = "plain_separate" -> {plainSeparate(n, tables, <<passTable(n, p, table, ~up)>>) : tables \in UserTables(n)}
    [] kind = "plain_separate_nopass" -> {plainSeparate(n, tables, <<>>) : tables \in UserTables(n)}

AuthPlain(s) ==
  /\ login[s].at = "ask" /\ (Provider(s) # "ldap" \/ usernameForAuth(login[s].name) = NoName)
  /\ LET n == usernameForAuth(login[s].name)
         reads == n # NoName /\ Provider(s) \in {"pass_table", "plain_separate"} /\ CompareKey[n] # BadName
         seen == IF reads THEN table[CompareKey[n]] ELSE Absent
         l == [login[s] EXCEPT !.asked = n, !.seen = seen, !.day = used.day]
     IN IF n = NoName THEN Works /\ Says(s, "no")
        ELSE \E up \in BOOLEAN : /\ IF up THEN Works ELSE Fault
                                 /\ \E a \in AnswerOf(Provider(s), n, l.pass, up) : Answered(s, a, l)
  /\ UNCHANGED <<table, cmd, ldap, setup>>

-----------------------------------------------------------------------------
(* auth.ldap: one connection, held under a lock from getConn to returnConn *)

Ldap(conn, bound, holder) == ldap' = [conn |-> conn, bound |-> bound, holder |-> holder]
readBind == IF setup.bind = "off" THEN ldap.bound ELSE "reader"
newBind  == IF setup.bind = "off" THEN "anonymous" ELSE "reader"
WantsConn(s) == /\ login[s].at = "ask" /\ Provider(s) = "ldap" /\ ldap.holder = NoSession
                /\ usernameForAuth(login[s].name) # NoName

getConn(s) ==
  /\ WantsConn(s)
  /\ LET l == [login[s] EXCEPT !.asked = usernameForAuth(login[s].name)]
     IN \/ /\ Works /\ Session(s, [l EXCEPT !.at = "search"])
           /\ IF ldap.conn = "open" THEN Ldap("open", ldap.bound, s) ELSE Ldap("open", newBind, s)
        \/ /\ ldap.conn # "open" /\ Works /\ Answered(s, "error", l)
           /\ UNCHANGED ldap
  /\ UNCHANGED <<table, cmd, setup>>

Holding(s, at) == login[s].at = at /\ ldap.holder = s

\* One entry for the user, or none, or an error; dn_template needs no search.
ldapSearch(s) ==
  /\ Holding(s, "search")
  /\ \/ Works /\ ldap.conn = "open" /\ Session(s, [login[s] EXCEPT !.at = IF login[s].asked \in DOMAIN Directory THEN "bind" ELSE "return", !.said = "unknown"])
     \/ (IF ldap.conn = "open" THEN Fault ELSE Works) /\ Session(s, [login[s] EXCEPT !.at = "return", !.said = "error"])
  /\ UNCHANGED <<table, cmd, ldap, setup>>

ldapBind(s) ==
  /\ Holding(s, "bind")
  /\ LET good == Knows(login[s].asked, login[s].pass) /\ ldap.conn = "open"
     IN /\ Session(s, [login[s] EXCEPT !.at = "return", !.said = IF good THEN "ok" ELSE "unknown"])
        /\ Ldap(ldap.conn, IF good THEN login[s].asked ELSE "anonymous", s)
  /\ UNCHANGED <<table, cmd, setup, used>>

\* Mutant: the connection is not bound for reading again.
returnConnUnbound(s) ==
  /\ Holding(s, "return") /\ Works
  /\ Ldap(ldap.conn, ldap.bound, NoSession) /\ Answered(s, login[s].said, login[s])
  /\ UNCHANGED <<table, cmd, setup>>
\* The connection is bound for reading again.  When that fails it is closed and
\* forgotten, and the nil connection closed after it panics; the lock is released.
returnConn(s) ==
  /\ Holding(s, "return")
  /\ \/ /\ Works /\ (ldap.conn = "open" \/ setup.bind = "off")
        /\ Ldap(ldap.conn, readBind, NoSession) /\ Answered(s, login[s].said, login[s])
     \/ /\ setup.bind # "off" /\ IF ldap.conn = "open" THEN Fault ELSE Works
        /\ Ldap("nil", "anonymous", NoSession) /\ Answered(s, "panic", login[s])
  /\ UNCHANGED <<table, cmd, setup>>

ConnLost ==
  /\ Contains(setup.provs, "ldap") /\ ldap.conn = "open" /\ Fault /\ Ldap("closing", ldap.bound, ldap.holder)
  /\ UNCHANGED <<table, cmd, login, setup>>

\* The day matters to shadow only.
NewDay == /\ Contains(setup.provs, "shadow") /\ used.day < 2 /\ used' = [used EXCEPT !.day = @ + 1]
          /\ UNCHANGED <<table, cmd, login, ldap, setup>>

-----------------------------------------------------------------------------
ServesLogin(s) == \/ loginChallenge(s) \/ (\E n \in Names : loginUsername(s, n)) \/ (\E p \in Passwords : loginPassword(s, p))
                  \/ AuthPlain(s) \/ getConn(s) \/ ldapSearch(s) \/ ldapBind(s) \/ returnConn(s)
CredsCommand(t) ==
  \/ \E n \in Names, p \in Passwords : CredsPassword(t, n, p) \/ \E a \in Hashes : CredsCreate(t, n, p, a)
  \/ \E n \in Names : CredsRemove(t, n)
  \/ \E n \in Names, p \in Passwords, op \in {"evm_create", "evm_password", "evm_remove"} : CredsEVM(t, op, n, p)
  \/ CreateUserLooksUp(t) \/ SetKeyAdds(t) \/ SetKeySets(t) \/ RemoveKey(t) \/ Killed(t)
CredentialsNext ==
  \/ \E t \in Tools : CredsCommand(t)
  \/ \E s \in Sessions : ServesLogin(s) \/ CreateLogin(s) \/ \E n \in Names, p \in Passwords : CreatePlain(s, n, p)
  \/ ConnLost \/ NewDay

-----------------------------------------------------------------------------
(* Properties *)

\* Type invariant.
CredentialsTypeOK ==
  /\ \A k \in Keys : table[k] = Absent \/ table[k].algo \in Hashes
  /\ \A t \in Tools : cmd[t].at \in {"done", "lookup", "add", "set", "del"}
  /\ \A s \in Sessions : /\ login[s].i \in 0..Len(setup.provs)
                         /\ login[s].at \in {"idle", "loginNotStarted", "loginWaitingUsername", "loginWaitingPassword",
                                             "ask", "search", "bind", "return"}
  /\ ldap.conn \in {"nil", "open", "closing"} /\ ldap.holder \in Sessions \cup {NoSession}

\* A command of creds over pass_table that was alone with its user tells the truth: what
\* it says it stored is what logins are checked against, what it says it removed is gone,
\* and a creation refused because the user exists has not touched the password.  The one
\* exception: after an INSERT that failed for another reason than a row in its way
\* (sql_query.go:240), the UPDATE of a user who is not there reports success and nothing
\* is stored; then there is no row at all, never an old or a mixed one.
CommandsTruthful ==
  \A t \in Tools : LET c == cmd[t] IN
    c.at = "done" /\ c.alone =>
      /\ c.op \in {"create", "password"} /\ c.said = "ok" => table[c.key] = c.hash \/ (c.lost /\ table[c.key] = Absent)
      /\ c.op = "remove" /\ c.said = "ok" => table[c.key] = Absent
      /\ c.said = "exists" => table[c.key] # Absent

\* What framework/module/auth.go:36 says of a user database (it "can be managed"): a
\* password that was set is the one logins are checked against.  The code does not keep
\* it: see the exception of CommandsTruthful, and pass_evm accepts any new password
\* (evm.go:99) while the signature stays what it was.
PasswordSet ==
  \A t \in Tools : LET c == cmd[t] IN
    c.at = "done" /\ c.said = "ok" /\ c.alone =>
      /\ c.op \in {"create", "password"} => table[c.key] = c.hash
      /\ c.op = "evm_password" => Knows(LocalOf[c.name], c.hash.pass)

\* What an acceptance by a provider rests on: the hash the table held, the directory or
\* the service, the entry of /etc/shadow, or the signature for the mailbox name.
CheckedBy(kind, l) ==
  /\ kind \in {"pass_table", "plain_separate"} => l.seen # Absent /\ l.seen.form = "good" /\ l.seen.pass = l.pass
  /\ kind \in {"ldap", "netauth", "dovecot_sasl", "pam"} => Knows(l.asked, l.pass)
  /\ kind = "external" => Knows(l.asked, l.pass) \/ Knows(LocalOf[l.asked], l.pass)
  /\ kind = "pass_evm" => Knows(LocalOf[l.asked], l.pass)
  /\ kind = "shadow" => Shadow[l.asked].pass = l.pass /\ ~Shadow[l.asked].locked

\* An accepted login was checked by the provider that accepted it, with the password of
\* the very account its identity is mapped to, by PLAIN and by LOGIN.  The one provider
\* that checks no password is plain_separate without a pass directive, which accepts any
\* (plain_separate.go:131): CheckedBy says nothing of it.
IdentityChecked ==
  \A s \in Sessions : LET l == login[s] IN
    l.at = "idle" /\ l.said = "ok" => l.asked = usernameForAuth(l.id) /\ CheckedBy(setup.provs[l.i], l)

\* What framework/module/auth.go:28 says of every provider ("authentication using
\* username:password pairs"): for one account, no two passwords are accepted.  Not kept
\* by plain_separate without pass.
OnePassword ==
  \A s, u \in Sessions : LET l == login[s]  m == login[u] IN
    /\ l.at = "idle" /\ l.said = "ok" /\ m.at = "idle" /\ m.said = "ok"
    /\ l.asked = m.asked /\ l.i = m.i /\ l.seen = m.seen
    => l.pass = m.pass

\* Where a bind for reading is configured, a search of auth.ldap is never made with
\* the rights of the user who logged in before.
SearchesAsReader ==
  \A s \in Sessions : login[s].at = "search" /\ setup.bind # "off" => ldap.bound = "reader"

\* The connection of auth.ldap is held only by a login that will return it, so
\* that no other login waits for the lock for ever, whatever the directory does.
ConnReturned ==
  ldap.holder # NoSession => login[ldap.holder].at \in {"search", "bind", "return"}

\* An account of /etc/shadow stops working on its day: expired accounts and passwords
\* are refused from the day itself on, unless a field is switched off with -1.
ExpiredRefused ==
  \A s \in Sessions : LET l == login[s] IN
    l.at = "idle" /\ l.said = "ok" /\ setup.provs[l.i] = "shadow" =>
      LET e == Shadow[l.asked]
      IN /\ e.acctExpiry # -1 => l.day < e.acctExpiry
         /\ -1 \notin {e.lastChange, e.maxPassAge, e.inactivity} => l.day < e.lastChange + e.maxPassAge + e.inactivity

\* A login succeeds only for the identity whose password was checked, whatever the
\* provider, its connections or a command at work on the table does meanwhile.
LoginsChecked ==
  CredentialsTypeOK /\ IdentityChecked /\ SearchesAsReader /\ ConnReturned /\ ExpiredRefused

-----------------------------------------------------------------------------
(* The invariants behind CommandsTruthful and LoginsChecked *)

HashRecord == [algo : Hashes, pass : Passwords \cup {"p1"}, form : {"good", "short"}] \cup {Absent}
AskedHash == HashRecord \cup [algo : {"none"}, pass : Passwords, form : {"good"}]
CommandRecord ==
  [op : {"none", "create", "password", "remove", "evm_create", "evm_password", "evm_remove"}, name : Names \cup {"none"}, key : Keys \cup {BadName, "none"}, hash : AskedHash,
   at : {"done", "lookup", "add", "set", "del"}, said : {"none", "refused", "exists", "panic", "error", "ok", "killed"},
   alone : BOOLEAN, lost : BOOLEAN]
LoginRecord ==
  [mech : {"none", "PLAIN", "LOGIN"}, name : Names \cup Keys \cup {"none"}, id : Names \cup Keys \cup {"none"}, pass : Passwords \cup {"none"},
   at : {"idle", "loginNotStarted", "loginWaitingUsername", "loginWaitingPassword", "ask", "search", "bind", "return"},
   i : Nat, asked : Names \cup Keys \cup {"none", NoName}, seen : HashRecord, day : Int,
   said : {"none", "ok", "no", "panic", "error", "unknown"}]

\* While a command is alone with its key, nobody else works on it: an INSERT that failed
\* met a user or was lost, and what the last statement left in the table stays there.
CommandAt(c) ==
  /\ c.at # "done" \/ (c.op \in {"create", "password", "remove"} /\ c.said = "ok") \/ c.said = "exists" => c.key \in Keys
  /\ c.at = "lookup" => c.op = "create" /\ c.hash # Absent
  /\ c.at \in {"add", "set"} => c.op \in {"create", "password"} /\ c.hash # Absent
  /\ c.at # "done" => c.hash \in HashRecord
  /\ c.at = "del" => c.op = "remove"
  /\ c.at = "set" /\ c.alone => table[c.key] # Absent \/ c.lost
CommandInv ==
  /\ table \in [Keys -> HashRecord] /\ cmd \in [Tools -> CommandRecord]
  /\ \A t \in Tools : CommandAt(cmd[t])
  /\ \A t, u \in Tools : t # u /\ cmd[t].alone /\ cmd[u].key = cmd[t].key => ~Running(u)
  /\ CommandsTruthful

\* Where a login is says which name was asked about, who has the connection and as whom it
\* is bound.
UsesConn(s) == login[s].at \in {"search", "bind", "return"}
LoginAt(l) ==
  /\ l.i \in 0..Len(setup.provs)
  /\ l.at \in {"loginWaitingPassword", "ask", "search", "bind", "return"} => l.name \in Names \cup Keys
  /\ l.at \in {"ask", "search", "bind", "return"} => l.i > 0 /\ l.id = l.name
  /\ l.at \in {"search", "bind", "return"} => setup.provs[l.i] = "ldap" /\ l.asked = usernameForAuth(l.id)
  /\ l.at = "return" /\ l.said = "ok" => Knows(l.asked, l.pass)
LoginInv ==
  /\ table \in [Keys -> HashRecord] /\ login \in [Sessions -> LoginRecord]
  /\ setup \in [amap : AuthMaps, provs : Providers, bind : {"off", "plain"}]
  /\ ldap \in [conn : {"nil", "open", "closing"}, bound : Names \cup Keys \cup {"none", NoName, "anonymous", "reader"},
                holder : Sessions \cup {NoSession}]
  /\ used \in [acts : Nat, faults : Nat, day : Int]
  /\ \A s \in Sessions : LoginAt(login[s]) /\ (UsesConn(s) => ldap.holder = s)
  /\ setup.bind # "off" /\ ldap.conn = "open" /\ ldap.holder = NoSession => ldap.bound = "reader"
  /\ IdentityChecked /\ SearchesAsReader /\ ConnReturned /\ ExpiredRefused
=============================================================================
