------------------------------ MODULE Mailboxes -----------------------------
(***************************************************************************)
(* The imap-acct, imap-mboxes and imap-msgs commands: they open the        *)
(* storage of a running server and change the account of a user one call   *)
(* at a time, while the server delivers to it and its clients expunge.     *)
(*                                                                         *)
(* store: [gen, limit, boxes]; gen = 0: no account.  A mailbox has an      *)
(* identity that a later one of the same name does not have, and its       *)
(* messages are a function on their UIDs, in whose order they are.  A      *)
(* command is a record: where it is, the mailbox it opened (id and the     *)
(* messages seen then), and what it said.                                  *)
(***************************************************************************)
EXTENDS Integers, Sequences, FiniteSets, Functions

CONSTANTS Operators,         \* running commands
          DefaultFolders,    \* the folders imap-acct create makes, in order
          BoxNames, INBOX,
          LimitWidth,        \* 2^32: append limits are 32 bits wide
          LimitValues,       \* values given to appendlimit
          MaxMail, MaxOps, MaxFailures   \* bounds: messages, commands, failures

VARIABLES store, op, count

mvars == <<store, op, count>>

ASSUME MailboxesAssumption ==
  /\ INBOX \in BoxNames /\ DefaultFolders \in Seq(BoxNames)
  /\ LimitWidth \in Nat \ {0} /\ LimitValues \subseteq Int
  /\ "server" \notin Operators

NoBox == [id |-> 0, next |-> 1, msgs |-> <<>>]
NoOp  == [name |-> "none", at |-> "done", box |-> INBOX, to |-> INBOX, arg |-> {}, uid |-> FALSE, i |-> 0, gen |-> 0,
          id |-> 0, seen |-> {}, asked |-> {}, gone |-> {}, next |-> 0, alone |-> TRUE, failed |-> FALSE, said |-> "none"]

EmptyStore == [gen |-> 0, limit |-> -1, boxes |-> [b \in BoxNames |-> NoBox]]

\* An account in use: a message in its INBOX.
UsedStore == [EmptyStore EXCEPT !.gen = 1, !.boxes[INBOX] =
               [id |-> 1, next |-> 2, msgs |-> [u \in {1} |-> [of |-> "server", flag |-> FALSE]]]]

MailboxesInit ==
  /\ store \in {EmptyStore, UsedStore}
  /\ op = [t \in Operators |-> NoOp]
  /\ count = [ops |-> 0, mail |-> 0, fails |-> 0, ids |-> 1]

Uids(b) == DOMAIN b.msgs
Exists(n) == store.boxes[n].id # 0
Fails(t, said) == /\ count.fails < MaxFailures /\ count' = [count EXCEPT !.fails = @ + 1]
                  /\ op' = [op EXCEPT ![t].at = "done", ![t].said = said, ![t].failed = TRUE] /\ UNCHANGED store
\* A change of a mailbox ends the solitude of the commands that have it open.
Touches(n, o) == [t \in Operators |-> IF o[t].at # "done" /\ o[t].box = n THEN [o[t] EXCEPT !.alone = FALSE] ELSE o[t]]
\* Folders are taken away: no create speaks for them any more.
Restructures(n, o) == [t \in Operators |-> [Touches(n, o)[t] EXCEPT !.alone = @ /\ o[t].name # "create"]]
Ends(t, said) == [op EXCEPT ![t].at = "done", ![t].said = said]
NewBox(n) == /\ store' = [store EXCEPT !.boxes[n] = [NoBox EXCEPT !.id = count.ids + 1]]
             /\ count' = [count EXCEPT !.ids = @ + 1]

-----------------------------------------------------------------------------
\* openStorage and getCfgBlockModule: the configuration, the block and the
\* module behind it; anything wrong with them refuses the command.  All but
\* imap-acct create and remove go on with GetIMAPAcct.
openStorage(t, c) ==
  /\ op[t].at = "done" /\ count.ops < MaxOps
  /\ count' = [count EXCEPT !.ops = @ + 1]
  /\ op' = [op EXCEPT ![t] = IF c.name \notin {"create", "remove"} /\ store.gen = 0 THEN [c EXCEPT !.at = "done", !.said = "refused"]
                             ELSE [c EXCEPT !.gen = store.gen]]
  /\ UNCHANGED store

Calls(t, at) == op[t].at = at
Stale(t) == op[t].gen # store.gen
Refuse(t) == op' = Ends(t, "refused") /\ UNCHANGED <<store, count>>

\* imap-acct create: the account with its INBOX, then, unless it is told to make
\* none, the folders one by one; a folder that cannot be made is only reported.
imapAcctCreate(t) ==
  /\ Calls(t, "create")
  /\ IF store.gen # 0 THEN Refuse(t)
     ELSE /\ store' = [EmptyStore EXCEPT !.gen = count.ids + 1, !.boxes[INBOX] = [NoBox EXCEPT !.id = count.ids + 1]]
          /\ count' = [count EXCEPT !.ids = @ + 1]
          /\ \/ DefaultFolders # <<>> /\ op' = [op EXCEPT ![t].at = "folder", ![t].i = 1, ![t].gen = count.ids + 1, ![t].alone = TRUE]
             \/ op' = Ends(t, "no-specialuse")

Folder(t, failed) ==
  IF op[t].i = Len(DefaultFolders)
  THEN [op EXCEPT ![t].at = "done", ![t].said = "ok", ![t].failed = @ \/ failed]
  ELSE [op EXCEPT ![t].i = @ + 1, ![t].failed = @ \/ failed]
createMbox(t) ==
  /\ Calls(t, "folder")
  /\ LET n == DefaultFolders[op[t].i]
     IN IF Exists(n) \/ Stale(t) THEN op' = Folder(t, TRUE) /\ UNCHANGED <<store, count>>
        ELSE \/ NewBox(n) /\ op' = Folder(t, FALSE)
             \/ /\ count.fails < MaxFailures /\ count' = [count EXCEPT !.fails = @ + 1]
                /\ op' = Folder(t, TRUE) /\ UNCHANGED store

\* imap-acct remove and appendlimit.  The value is cut to 32 bits, -1 is no limit.
imapAcctRemove(t) ==
  /\ Calls(t, "remove") /\ UNCHANGED count
  /\ IF store.gen = 0 THEN op' = Ends(t, "refused") /\ UNCHANGED store
     ELSE op' = [u \in Operators |-> IF u = t THEN Ends(t, "ok")[t] ELSE [op[u] EXCEPT !.alone = FALSE]]
          /\ store' = EmptyStore
imapAcctAppendlimit(t) ==
  /\ Calls(t, "limit")
  /\ IF Stale(t) THEN Refuse(t)
     ELSE \E v \in LimitValues : /\ store' = [store EXCEPT !.limit = IF v = -1 THEN -1 ELSE v % LimitWidth]
                                 /\ op' = Ends(t, "ok") /\ UNCHANGED count

\* imap-mboxes create, remove (after the confirmation) and rename.
mboxesCreate(t) ==
  /\ Calls(t, "mkbox")
  /\ IF Stale(t) \/ Exists(op[t].box) THEN Refuse(t) ELSE NewBox(op[t].box) /\ op' = Ends(t, "ok")
mboxesRemove(t) ==
  /\ Calls(t, "rmbox")
  /\ IF Stale(t) \/ ~Exists(op[t].box) THEN Refuse(t)
     ELSE /\ store' = [store EXCEPT !.boxes[op[t].box] = NoBox]
          /\ op' = Restructures(op[t].box, Ends(t, "ok")) /\ UNCHANGED count
mboxesRename(t) ==
  /\ Calls(t, "mvbox")
  /\ IF Stale(t) \/ ~Exists(op[t].box) \/ Exists(op[t].to) THEN Refuse(t)
     ELSE /\ store' = [store EXCEPT !.boxes = [@ EXCEPT ![op[t].to] = store.boxes[op[t].box], ![op[t].box] = NoBox]]
          /\ op' = Restructures(op[t].box, Ends(t, "ok")) /\ UNCHANGED count

\* A command that asks first is cancelled by the operator.
Confirmation(t) ==
  /\ op[t].at \in {"remove", "rmbox", "delete"}
  /\ op' = Ends(t, "cancelled") /\ UNCHANGED <<store, count>>

-----------------------------------------------------------------------------
(* imap-msgs *)

\* add: the next UID is asked for, the message is stored, the UID is printed.
addStatus(t) ==
  /\ Calls(t, "add")
  /\ IF Stale(t) \/ ~Exists(op[t].box) THEN Refuse(t)
     ELSE op' = [op EXCEPT ![t].at = "store", ![t].id = store.boxes[op[t].box].id, ![t].next = store.boxes[op[t].box].next, ![t].alone = TRUE] /\ UNCHANGED <<store, count>>

With(msgs, u, m) == [v \in DOMAIN msgs \cup {u} |-> IF v = u THEN m ELSE msgs[v]]
Stored(n, of) == [store EXCEPT !.boxes[n] = [id |-> @.id, next |-> @.next + 1, msgs |-> With(@.msgs, @.next, [of |-> of, flag |-> FALSE])]]
addMessage(t) ==
  /\ Calls(t, "store")
  /\ IF Stale(t) \/ ~Exists(op[t].box) THEN Refuse(t)
     ELSE /\ count.mail < MaxMail /\ count' = [count EXCEPT !.mail = @ + 1]
          /\ store' = Stored(op[t].box, t) /\ op' = Touches(op[t].box, Ends(t, "ok"))

\* GetMailbox: the messages of the mailbox are numbered as they are now.
GetMailbox(t) ==
  /\ op[t].at \in {"flags", "rmmsg"}
  /\ IF Stale(t) \/ ~Exists(op[t].box) THEN Refuse(t)
     ELSE /\ op' = [op EXCEPT ![t].at = IF @ = "flags" THEN "mark" ELSE "delete", ![t].id = store.boxes[op[t].box].id,
                              ![t].seen = Uids(store.boxes[op[t].box]), ![t].asked = Uids(store.boxes[op[t].box])]
          /\ UNCHANGED <<store, count>>

\* What a set of UIDs, or of positions in the mailbox as opened, stands for.
Position(u, uids) == Cardinality({v \in uids : v <= u})
Resolve(c) == IF c.uid THEN c.arg ELSE {u \in c.seen : Position(u, c.seen) \in c.arg}
Opened(t) == {n \in BoxNames : store.boxes[n].id = op[t].id}
OpenedUids(t) == UNION {Uids(store.boxes[n]) : n \in Opened(t)}

\* add-flags and remove-flags.
Flagged(msgs, uids, f) == [u \in DOMAIN msgs |-> IF u \in uids THEN [msgs[u] EXCEPT !.flag = f] ELSE msgs[u]]
UpdateMessagesFlags(t) ==
  /\ Calls(t, "mark")
  /\ \E f \in BOOLEAN : store' = [store EXCEPT !.boxes = [n \in BoxNames |->
       IF n \in Opened(t) THEN [store.boxes[n] EXCEPT !.msgs = Flagged(@, Resolve(op[t]), f)] ELSE store.boxes[n]]]
  /\ op' = Ends(t, "ok") /\ UNCHANGED count

DelMessages(t, c) ==
  /\ store' = [store EXCEPT !.boxes = [n \in BoxNames |->
       IF n \in Opened(t) THEN [store.boxes[n] EXCEPT !.msgs = Restrict(@, DOMAIN @ \ Resolve(c))] ELSE store.boxes[n]]]
  /\ op' = [Touches(op[t].box, Ends(t, "ok")) EXCEPT
               ![t].gone = OpenedUids(t) \cap Resolve(c)]
  /\ UNCHANGED count
msgsRemoveReopens(t) ==     \* Mutant: the mailbox is opened after the confirmation
  /\ Calls(t, "delete")
  /\ DelMessages(t, [op[t] EXCEPT !.seen = OpenedUids(t)])
msgsRemove(t) == Calls(t, "delete") /\ DelMessages(t, op[t])

-----------------------------------------------------------------------------
\* The server at work: a delivery, and an expunge by a client.
Deliver(n) ==
  /\ Exists(n) /\ count.mail < MaxMail /\ count' = [count EXCEPT !.mail = @ + 1]
  /\ store' = Stored(n, "server") /\ op' = Touches(n, op)
Expunge(n) ==
  /\ \E u \in Uids(store.boxes[n]) : store' = [store EXCEPT !.boxes[n].msgs = Restrict(@, DOMAIN @ \ {u})]
  /\ op' = Touches(n, op) /\ UNCHANGED count

\* A call of the storage fails, or the command is killed.
CallFails(t) == op[t].at # "done" /\ Fails(t, "error")

Runs(t) ==
  \/ imapAcctCreate(t) \/ createMbox(t) \/ imapAcctRemove(t) \/ imapAcctAppendlimit(t)
  \/ mboxesCreate(t) \/ mboxesRemove(t) \/ mboxesRename(t) \/ Confirmation(t)
  \/ addStatus(t) \/ addMessage(t) \/ GetMailbox(t) \/ UpdateMessagesFlags(t) \/ msgsRemove(t) \/ CallFails(t)
OpNames == {"create", "remove", "limit", "mkbox", "rmbox", "mvbox", "add", "flags", "rmmsg"}
Begin(t) ==
  \E n \in OpNames, b \in BoxNames, u \in BOOLEAN :
    /\ n \in {"create", "remove", "limit"} => b = INBOX
    /\ u => n = "rmmsg"
    /\ \E to \in IF n = "mvbox" THEN BoxNames \ {b} ELSE {b} :
         openStorage(t, [NoOp EXCEPT !.name = n, !.at = n, !.box = b, !.to = to, !.arg = {1}, !.uid = u])
MailboxesNext ==
  \/ \E t \in Operators : Runs(t) \/ Begin(t)
  \/ \E n \in BoxNames : Deliver(n) \/ Expunge(n)

-----------------------------------------------------------------------------
(* Properties *)

\* Type invariant; the UIDs of a mailbox stay below the next one.
MailboxesTypeOK ==
  /\ \A n \in BoxNames : \A u \in Uids(store.boxes[n]) : u < store.boxes[n].next
  /\ store.limit \in -1 .. (LimitWidth - 1)
  /\ \A t \in Operators : op[t].i \in 0 .. Len(DefaultFolders)

\* imap-msgs add prints the UID of the message it stored, as long as nobody
\* else changed the mailbox since the UID was asked for.
AddedUIDNamed ==
  \A t \in Operators : LET c == op[t] IN
    c.at = "done" /\ c.name = "add" /\ c.said = "ok" /\ c.alone /\ store.boxes[c.box].id = c.id =>
      \A u \in Uids(store.boxes[c.box]) : store.boxes[c.box].msgs[u].of = t /\ u + 1 = store.boxes[c.box].next => u = c.next

\* imap-msgs remove removes what its operator was asked about: a position
\* stands for the message that was there then, not for one that moved up or
\* was delivered while the question was open.
RemovesWhatWasAsked ==
  \A t \in Operators : LET c == op[t] IN
    c.name = "rmmsg" /\ ~c.uid => c.gone \subseteq {u \in c.asked : Position(u, c.asked) \in c.arg}

\* imap-acct create that reported nothing left an account with all folders,
\* unless another command takes one of them away.
AccountComplete ==
  \A t \in Operators : LET c == op[t] IN
    c.at = "done" /\ c.name = "create" /\ c.said = "ok" /\ ~c.failed /\ c.alone /\ store.gen = c.gen
      => \A i \in 1 .. Len(DefaultFolders) : Exists(DefaultFolders[i])

\* The imap commands did what they say they did, although the server changes the
\* same mailboxes.
MailboxToolsTruthful ==
  MailboxesTypeOK /\ AddedUIDNamed /\ RemovesWhatWasAsked /\ AccountComplete

-----------------------------------------------------------------------------
(* The invariant behind MailboxToolsTruthful *)

Message == [of : Operators \cup {"server"}, flag : BOOLEAN]
Messages == UNION {[S -> Message] : S \in SUBSET Nat}
BoxRecord == [id : Nat, next : Nat, msgs : Messages]
OpRecord ==
  [name : OpNames \cup {"none"}, at : OpNames \cup {"done", "folder", "store", "mark", "delete"}, box : BoxNames, to : BoxNames,
   arg : SUBSET Nat, uid : BOOLEAN, i : Nat, gen : Nat, id : Nat, seen : SUBSET Nat, asked : SUBSET Nat, gone : SUBSET Nat,
   next : Nat, alone : BOOLEAN, failed : BOOLEAN,
   said : {"none", "ok", "refused", "cancelled", "error", "no-specialuse"}]
MailboxesTyped ==
  /\ store \in [gen : Nat, limit : -1 .. (LimitWidth - 1), boxes : [BoxNames -> BoxRecord]]
  /\ op \in [Operators -> OpRecord]
  /\ count \in [ops : Nat, mail : Nat, fails : Nat, ids : Nat]

\* Identities are given once, to a mailbox and to an account.
IdsFresh ==
  /\ store.gen <= count.ids /\ (store.gen = 0 => \A n \in BoxNames : ~Exists(n))
  /\ \A n \in BoxNames : /\ store.boxes[n].id <= count.ids
                          /\ \A m \in BoxNames : store.boxes[m].id = store.boxes[n].id => m = n \/ ~Exists(n)
  /\ \A t \in Operators : op[t].gen <= count.ids /\ op[t].id <= count.ids

\* What a command is doing says what it is, and a mailbox is asked about as it was opened.
OpShape ==
  \A t \in Operators : LET c == op[t] IN
    /\ c.at \in OpNames => c.name = c.at
    /\ c.at \notin {"done", "create", "remove"} => c.gen # 0
    /\ c.at = "folder" => c.name = "create" /\ c.i \in 1 .. Len(DefaultFolders)
    /\ c.at = "store" => c.name = "add" /\ c.id # 0
    /\ c.at = "mark" => c.name = "flags"
    /\ c.at = "delete" => c.name = "rmmsg"
    /\ c.name = "add" /\ c.said = "ok" => c.at = "done" /\ c.id # 0
    /\ c.name = "create" /\ c.said = "ok" => c.at = "done" /\ c.gen # 0
    /\ c.at # "done" => c.said = "none" /\ c.gone = {}
    /\ c.i <= Len(DefaultFolders) /\ c.seen = c.asked

\* Between the question for the next UID and the answer, and ever after.
UIDKnown ==
  \A t \in Operators : LET c == op[t] IN
    /\ c.at = "store" /\ c.alone => Exists(c.box) /\ store.boxes[c.box].id = c.id /\ store.boxes[c.box].next = c.next
    /\ c.at = "done" /\ c.name = "add" /\ c.said = "ok" /\ c.alone =>
         \A n \in BoxNames : store.boxes[n].id = c.id =>
           c.next < store.boxes[n].next /\ \A u \in Uids(store.boxes[n]) : store.boxes[n].msgs[u].of = t => u <= c.next

\* The folders made so far.
FoldersSoFar ==
  \A t \in Operators : LET c == op[t] IN
    c.at = "folder" /\ ~c.failed /\ c.alone /\ store.gen = c.gen => \A k \in 1 .. (c.i - 1) : Exists(DefaultFolders[k])

MailboxInv == /\ MailboxesTyped /\ MailboxesTypeOK /\ IdsFresh /\ OpShape /\ UIDKnown /\ FoldersSoFar
              /\ AccountComplete /\ RemovesWhatWasAsked
=============================================================================
