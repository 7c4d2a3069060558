---------------------------- MODULE AuthProviders ---------------------------
(***************************************************************************)
(* The password checks of internal/auth: pass_table over a table of        *)
(* credentials, shadow, external and pam helpers, dovecot_sasl, netauth,   *)
(* pass_evm and plain_separate.  auth.ldap keeps a connection and is part  *)
(* of Credentials.                                                         *)
(*                                                                         *)
(* An answer is "ok", "unknown" (the credentials are wrong) or "error".    *)
(* A stored hash is [algo, pass, form]: form is "good", or says how the    *)
(* text in the table is damaged.                                           *)
(***************************************************************************)
EXTENDS Integers, Sequences

CONSTANTS Names,          \* user names as they are typed
          Passwords,
          CompareKey,     \* precis.UsernameCaseMapped: name -> key, BadName when refused
          BadName,
          Directory,      \* name -> password, in the services outside of the server
          Shadow,         \* name -> entry of /etc/shadow
          DomainOf,       \* name -> domain, "" for none
          LocalOf,        \* name -> the part before @
          AllowedDomains  \* the domains directive of auth.external, {} for none

Keys == {CompareKey[n] : n \in Names} \ {BadName}
Absent == [algo |-> "none", pass |-> "none", form |-> "good"]

-----------------------------------------------------------------------------
(* pass_table *)

HashVerify == {"bcrypt", "argon2"}       \* sha256 is added by the tests only
Hashes == HashVerify \cup {"sha256"}

\* An argon2 text with fewer fields than five makes the verification panic.
verifyArgon2(pass, hash) == CASE hash.form = "short" -> "panic" [] hash.form = "garbled" -> "error"
                              [] OTHER -> IF pass = hash.pass THEN "ok" ELSE "error"
verifyBcrypt(pass, hash) == IF hash.form = "good" /\ pass = hash.pass THEN "ok" ELSE "error"

VerifyHash(pass, hash) ==
  IF hash.form = "untagged" \/ hash.algo \notin HashVerify THEN "error"
  ELSE IF hash.algo = "argon2" THEN verifyArgon2(pass, hash) ELSE verifyBcrypt(pass, hash)

\* AuthPlain: a failed lookup reads as an unknown user.
passTable(name, pass, table, fails) ==
  IF CompareKey[name] = BadName THEN "error"
  ELSE IF fails \/ table[CompareKey[name]] = Absent THEN "unknown"
  ELSE VerifyHash(pass, table[CompareKey[name]])

-----------------------------------------------------------------------------
(* shadow: days since 1970; -1 switches a field off *)

IsAccountValid(e, today)  == e.acctExpiry = -1 \/ today < e.acctExpiry
IsPasswordValid(e, today) ==
  \/ e.lastChange = -1 \/ e.maxPassAge = -1 \/ e.inactivity = -1
  \/ today < e.lastChange + e.maxPassAge + e.inactivity
VerifyPassword(e, pass) ==
  IF e.pass = "" \/ e.locked THEN "error" ELSE IF e.pass = pass THEN "ok" ELSE "wrong"

\* Lookup reads the whole file: a malformed line in it refuses everyone.
shadow(name, pass, today, malformed) ==
  IF malformed \/ name \notin DOMAIN Shadow THEN "error"
  ELSE IF ~IsAccountValid(Shadow[name], today) \/ ~IsPasswordValid(Shadow[name], today) THEN "error"
  ELSE IF VerifyPassword(Shadow[name], pass) = "wrong" THEN "unknown" ELSE VerifyPassword(Shadow[name], pass)

-----------------------------------------------------------------------------
(* Helpers and services.  up: whether the helper or the service works. *)

Knows(name, pass) == name \in DOMAIN Directory /\ Directory[name] = pass

\* The helper says with its exit code: 0, 1 for wrong credentials, or else.
AuthUsingHelper(name, pass, up) == IF ~up THEN "error" ELSE IF Knows(name, pass) THEN "ok" ELSE "unknown"

\* Without perdomain a name needs no domain; a domain must be allowed, and
\* none is when there is no list.
CheckDomainAuth(name, perDomain) ==
  IF perDomain THEN DomainOf[name] \in AllowedDomains /\ DomainOf[name] # ""
  ELSE DomainOf[name] = "" \/ DomainOf[name] \in AllowedDomains
external(name, pass, up, perDomain) ==
  IF ~CheckDomainAuth(name, perDomain) THEN "unknown"
  ELSE AuthUsingHelper(IF perDomain THEN name ELSE LocalOf[name], pass, up)

\* After the helper accepted, the check is made a second time with libpam itself,
\* which most builds lack.
pam(name, pass, up, useHelper, libpam) ==
  IF useHelper /\ AuthUsingHelper(name, pass, up) # "ok" THEN AuthUsingHelper(name, pass, up)
  ELSE IF ~libpam THEN "error" ELSE AuthUsingHelper(name, pass, up)

\* dovecot_sasl: the mechanisms are those seen at the start.
dovecot(name, pass, up, mechs) ==
  IF mechs \cap {"PLAIN", "LOGIN"} = {} \/ ~up THEN "error"
  ELSE IF Knows(name, pass) THEN "ok" ELSE "unknown"

\* netauth: the password, then the required group.
netauth(name, pass, up, inGroup) ==
  IF ~up \/ ~Knows(name, pass) THEN "unknown" ELSE IF inGroup THEN "ok" ELSE "error"

\* pass_evm: the password is a signature of the address that is the mailbox name.
evm(name, pass, up) ==
  IF DomainOf[name] = "" \/ ~up THEN "error" ELSE IF Knows(LocalOf[name], pass) THEN "ok" ELSE "unknown"

-----------------------------------------------------------------------------
\* plain_separate: the name in one of the tables (each a set of names, the
\* lookup fails when it is Broken), then the first provider that accepts.
Broken == {"broken"}
userKnown(name, tables) ==
  LET hits == {i \in 1..Len(tables) : tables[i] = Broken \/ name \in tables[i]}
  IN IF tables = <<>> THEN "yes"
     ELSE IF hits = {} THEN "no"
     ELSE IF tables[CHOOSE i \in hits : \A j \in hits : i <= j] = Broken THEN "error" ELSE "yes"
plainSeparate(name, tables, answers) ==
  IF userKnown(name, tables) # "yes" THEN "error"
  ELSE IF answers = <<>> \/ \E i \in 1..Len(answers) : answers[i] = "ok" THEN "ok"
  ELSE answers[Len(answers)]
=============================================================================
