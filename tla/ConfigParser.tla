---------------------------- MODULE ConfigParser ----------------------------
(***************************************************************************)
(* The configuration language: the token dispenser, the reader of blocks,  *)
(* macros, snippets and imports, and the environment.                      *)
(*                                                                         *)
(* A file is a sequence of lines and a line a sequence of words.  A word   *)
(* is [k, v]: k tells the forms the parser distinguishes (a plain word, a  *)
(* brace, a lone backslash, =, (name), $(name), a string with $(name) in   *)
(* it, {env:name}, a name with a character not allowed in a directive) and *)
(* v the name in it.  A quoted word may contain a line break: k = "text".  *)
(***************************************************************************)
EXTENDS Integers, Sequences, SequencesExt, TLC

CONSTANTS NestingLimit,      \* 255 in the code
          ExpansionLimit,    \* 255 in the code
          Environ            \* environment variable -> value

Word(v)    == [k |-> "word", v |-> v]
Open       == [k |-> "open", v |-> ""]
CloseBrace == [k |-> "close", v |-> ""]
Escape     == [k |-> "escape", v |-> ""]
Equals     == [k |-> "equals", v |-> ""]

\* allTokens: every word with the number of its line.
allTokens(file) ==
  LET breaks(line)  == Len(SelectSeq(line, LAMBDA w : w.k = "text"))
      start[i \in 1..Len(file)] == IF i = 1 THEN 1 ELSE start[i - 1] + 1 + breaks(file[i - 1])
      before(line, j) == breaks(SubSeq(line, 1, j - 1))
  IN FlattenSeq([i \in 1..Len(file) |->
       [j \in 1..Len(file[i]) |-> [text |-> file[i][j], line |-> start[i] + before(file[i], j), row |-> i, col |-> j]]])

numLineBreaks(tok) == IF tok.text.k = "text" THEN 1 ELSE 0

\* The state of a parseContext.  at is the dispenser's cursor.
NewContext(file) ==
  [tokens |-> allTokens(file), at |-> 0, nesting |-> -1, err |-> FALSE,
   snippets |-> <<>>, macros |-> <<>>]
Err(ctx)  == [ctx EXCEPT !.err = TRUE]
Val(ctx)  == ctx.tokens[ctx.at].text
Step(ctx) == [ctx EXCEPT !.at = @ + 1]

Next_(ctx)  == ctx.at < Len(ctx.tokens)
NextArg(ctx) == /\ Next_(ctx)
                /\ LET t == ctx.tokens[ctx.at]
                   IN t.line + numLineBreaks(t) = ctx.tokens[ctx.at + 1].line
NextLine(ctx) == /\ Next_(ctx)
                 /\ \/ ctx.at = 0
                    \/ LET t == ctx.tokens[ctx.at]
                       IN t.line + numLineBreaks(t) < ctx.tokens[ctx.at + 1].line

\* block tells an empty block from no block (a nil slice of children).
Node(name, args) ==
  [name |-> name, args |-> args, children |-> <<>>, block |-> FALSE,
   snippet |-> FALSE, macro |-> FALSE, pos |-> <<0, 0>>]

-----------------------------------------------------------------------------
(* Macros: $(m) as an argument stands for any number of arguments, inside a
   string for at most one.  An undefined macro stands for none. *)

RECURSIVE expandMacros(_, _)
expandMacros(macros, node) ==
  LET value(m)  == IF m \in DOMAIN macros THEN macros[m] ELSE <<>>
      expand(a) == CASE a.k = "macro" -> value(a.v)
                     [] a.k = "embed" -> IF value(a.v) = <<>> THEN <<Word("")>> ELSE <<value(a.v)[1]>>
                     [] OTHER -> <<a>>
      kids == [i \in 1..Len(node.children) |-> expandMacros(macros, node.children[i])]
  IN [node |-> [node EXCEPT !.args = FlattenSeq([i \in 1..Len(@) |-> expand(@[i])]),
                            !.children = [i \in 1..Len(kids) |-> kids[i].node]],
      err  |-> \/ \E i \in 1..Len(node.args) : node.args[i].k = "embed" /\ Len(value(node.args[i].v)) > 1
               \/ \E i \in 1..Len(kids) : kids[i].err]

parseAsMacro(node) ==
  IF node.name.k # "macro" THEN [node |-> node, err |-> FALSE]
  ELSE [node |-> [node EXCEPT !.name = Word(node.name.v), !.args = SubSeq(@, 2, Len(@)), !.macro = TRUE],
        err  |-> Len(node.args) < 2 \/ node.args[1] # Equals]

-----------------------------------------------------------------------------
(* Blocks *)

RECURSIVE readArgs(_, _, _), readLines(_, _, _)

\* readNodes: the children of the block whose opening brace is the current token.
readNodes(ctx) ==
  IF ctx.nesting > NestingLimit THEN [ctx |-> Err(ctx), nodes |-> <<>>]
  ELSE readLines([ctx EXCEPT !.nesting = @ + 1], <<>>, FALSE)

EndsWith(args, w) == args # <<>> /\ Last(args) = w
DropLast(node) == [node EXCEPT !.args = Front(@)]

\* A \ at the end of the arguments continues the directive on the next line.
continued(ctx, node) ==
  IF EndsWith(node.args, Escape) THEN readArgs(ctx, DropLast(node), TRUE) ELSE [ctx |-> ctx, node |-> node]

withBlock(r, node) ==
  IF r.ctx.err THEN [ctx |-> r.ctx, node |-> node]
  ELSE continued(r.ctx, [node EXCEPT !.children = r.nodes, !.block = TRUE])

\* The arguments of a directive and its block.
readArgs(ctx, node, continueOnLF) ==
  IF ~(NextArg(ctx) \/ (continueOnLF /\ NextLine(ctx))) THEN continued(ctx, node)
  ELSE IF Val(Step(ctx)) = Open THEN withBlock(readNodes(Step(ctx)), node)
  ELSE readArgs(Step(ctx), [node EXCEPT !.args = Append(@, Val(Step(ctx)))], FALSE)

asNode(ctx, m) == [ctx  |-> IF m.err \/ (~m.node.macro /\ m.node.name.k # "word") THEN Err(ctx) ELSE ctx,
                   node |-> m.node]
validated(r) == IF r.ctx.err THEN r ELSE asNode(r.ctx, parseAsMacro(r.node))

readNode(ctx, t) ==
  IF t.text = Open THEN [ctx |-> Err(ctx), node |-> Node(t.text, <<>>)]
  ELSE validated(readArgs(ctx, [Node(IF t.text.k = "snippet" THEN Word(t.text.v) ELSE t.text, <<>>)
                                  EXCEPT !.snippet = (t.text.k = "snippet"), !.pos = <<t.row, t.col>>], FALSE))

\* A declaration that passed the test of the nesting level; x is the node with
\* macros expanded.
declare(ctx, node, x) ==
  IF node.macro THEN IF x.err THEN Err(ctx) ELSE [ctx EXCEPT !.macros = (node.name.v :> x.node.args) @@ @]
  ELSE IF node.args # <<>> THEN Err(ctx) ELSE [ctx EXCEPT !.snippets = (node.name.v :> node.children) @@ @]

goOn(ctx, res) == IF ctx.err THEN [ctx |-> ctx, nodes |-> res] ELSE readLines(ctx, res, TRUE)

\* What becomes of a node that was read: a declaration, or another child.
keepNode(ctx, node, x, res, stop) ==
  IF node.macro \/ node.snippet
  THEN goOn(IF ctx.nesting # 0 THEN Err(ctx) ELSE declare(ctx, node, x), res)
  ELSE IF x.err THEN [ctx |-> Err(ctx), nodes |-> res]
  ELSE IF stop THEN [ctx |-> ctx, nodes |-> Append(res, x.node)]
  ELSE goOn(ctx, Append(res, x.node))

closeOrKeep(ctx, node, res, stop) ==
  IF ctx.nesting < 0 THEN [ctx |-> Err(ctx), nodes |-> res]
  ELSE keepNode(ctx, node, expandMacros(ctx.macros, node), res, stop)

\* A brace that ends a line is the last argument of that line's directive.
addNode(r, res) ==
  IF r.ctx.err THEN [ctx |-> r.ctx, nodes |-> res]
  ELSE IF EndsWith(r.node.args, CloseBrace)
       THEN closeOrKeep([r.ctx EXCEPT !.nesting = @ - 1], DropLast(r.node), res, TRUE)
       ELSE closeOrKeep(r.ctx, r.node, res, FALSE)

\* One logical line after the other, up to the closing brace.
readLines(ctx, res, requireNewLine) ==
  IF ~(IF requireNewLine THEN NextLine(ctx) ELSE Next_(ctx))
  THEN [ctx |-> IF Next_(ctx) THEN Err(ctx) ELSE ctx, nodes |-> res]
  ELSE IF Val(Step(ctx)) = CloseBrace
       THEN [ctx |-> [Step(ctx) EXCEPT !.nesting = @ - 1, !.err = (ctx.nesting = 0)], nodes |-> res]
       ELSE addNode(readNode(Step(ctx), ctx.tokens[ctx.at + 1]), res)

-----------------------------------------------------------------------------
(* Imports: a snippet, or else a file with its own snippets and macros. *)

Root(nodes) == [Node(Word(""), <<>>) EXCEPT !.children = nodes, !.block = TRUE]
IsImport(node) == node.name = Word("import")

RECURSIVE expandImports(_, _, _, _), expandChildren(_, _, _, _, _, _), readTree(_, _, _)

merge(ctx, t) ==
  [ctx |-> [ctx EXCEPT !.err = t.ctx.err, !.snippets = t.ctx.snippets @@ @, !.macros = t.ctx.macros @@ @],
   nodes |-> t.nodes]

\* files: the name of a file -> its lines.
resolveImport(files, ctx, name, depth) ==
  IF name \in DOMAIN ctx.snippets THEN [ctx |-> ctx, nodes |-> ctx.snippets[name]]
  ELSE IF name \notin DOMAIN files THEN [ctx |-> Err(ctx), nodes |-> <<>>]
  ELSE merge(ctx, readTree(files, name, depth + 1))

import(files, ctx, child, depth) ==
  IF ~IsImport(child) THEN [ctx |-> ctx, nodes |-> <<child>>]
  ELSE IF depth > ExpansionLimit \/ Len(child.args) # 1 THEN [ctx |-> Err(ctx), nodes |-> <<>>]
  ELSE resolveImport(files, ctx, child.args[1].v, depth)

\* r: the context and what stands for the child; rest: its siblings.
nextChild(files, r, rest, depth, done, imported) ==
  IF r.ctx.err THEN [ctx |-> r.ctx, nodes |-> done, imported |-> imported]
  ELSE expandChildren(files, r.ctx, rest, depth, done \o r.nodes, imported)

expandChild(files, e, rest, depth, done, imported) ==
  IF e.ctx.err THEN [ctx |-> e.ctx, nodes |-> done, imported |-> imported]
  ELSE nextChild(files, import(files, e.ctx, e.node, depth), rest, depth, done, imported \/ IsImport(e.node))

expandChildren(files, ctx, children, depth, done, imported) ==
  IF children = <<>> THEN [ctx |-> ctx, nodes |-> done, imported |-> imported]
  ELSE expandChild(files, expandImports(files, ctx, Head(children), depth + 1), Tail(children), depth, done, imported)

\* Another pass expands the imports that came with a snippet.
anotherPass(files, r, node, depth) ==
  IF r.ctx.err \/ ~r.imported THEN [ctx |-> r.ctx, node |-> [node EXCEPT !.children = r.nodes]]
  ELSE expandImports(files, r.ctx, [node EXCEPT !.children = r.nodes], depth + 1)

expandImports(files, ctx, node, depth) ==
  IF ~node.block THEN [ctx |-> ctx, node |-> node]
  ELSE anotherPass(files, expandChildren(files, ctx, node.children, depth, <<>>, FALSE), node, depth)

unclosed(r) == [r EXCEPT !.ctx.err = @ \/ r.ctx.nesting > 0]
\* What the text of one file says, before imports.
readText(file) == unclosed(readNodes(NewContext(file)))

children(e) == [ctx |-> e.ctx, nodes |-> e.node.children]
withImports(files, r, depth) ==
  IF r.ctx.err THEN r ELSE children(expandImports(files, r.ctx, Root(r.nodes), depth))
readTree(files, name, depth) == withImports(files, readText(files[name]), depth)

RECURSIVE expandEnvironment(_)
expandEnvironment(nodes) ==
  LET value(a) == IF a.k = "env" THEN Word(IF a.v \in DOMAIN Environ THEN Environ[a.v] ELSE "") ELSE a
  IN [i \in 1..Len(nodes) |->
       [nodes[i] EXCEPT !.args = [j \in 1..Len(@) |-> value(@[j])], !.children = expandEnvironment(@)]]

expanded(t) == [ok |-> ~t.ctx.err, nodes |-> expandEnvironment(t.nodes)]
Read(files, name) == expanded(readTree(files, name, 0))
=============================================================================
