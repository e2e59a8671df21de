-------------------------- MODULE TemplateCompiler --------------------------
(* A template on its way through TemplateParser (vibora/templates/          *)
(* template.py), the nodes (vibora/templates/nodes.py), the extension for   *)
(* links (vibora/templates/extensions.py), and the Python compiler          *)
(* (vibora/templates/compilers/python.py, compilers/base.py).               *)
(* A token is its kind, and is known by its position; a line of the code    *)
(* is its indentation, its statement and the tokens it comes from.          *)
EXTENDS Integers, Sequences, SequencesExt

CONSTANTS
    Kinds,      \* the kinds of tokens
    MaxTokens   \* bound on the tokens of a template

Ends == [for |-> "endfor", if |-> "endif", block |-> "endblock", macro |-> "endmacro"]
Greedy == DOMAIN Ends
StopTags == {Ends[k] : k \in Greedy}

ASSUME KindsAssumption ==
    Kinds \subseteq Greedy \cup StopTags \cup {"text", "eval", "link", "else", "elif"}

VARIABLES
    read,       \* the tokens so far
    stack,      \* current_nodes: the open nodes, the root first
    status,     \* "reading", "compiled", "silent" (no generator: it yields
                \* nothing), "invalid" (tag), "broken" (code)
    compiler    \* the state of PythonTemplateCompiler

vars == <<read, stack, status, compiler>>

Node(kind, at) == [kind |-> kind, at |-> at, children |-> <<>>]

Fresh == [indent |-> 0, lines |-> <<>>, text |-> <<>>, pending |-> FALSE,
          comment |-> <<>>, failed |-> FALSE]

Init ==
    /\ read = <<>>
    /\ stack = <<Node("root", 0)>>
    /\ status = "reading"
    /\ compiler = Fresh

-----------------------------------------------------------------------------
(* TemplateParser.parse *)

Attach(nodes, node) == [nodes EXCEPT ![Len(nodes)].children = Append(@, node)]
Close(nodes) == Attach(Front(nodes), Last(nodes))

(* parse_node and check() of the nodes: a tag that closes is not a node. *)
ParseNode(kind, at) ==
    CASE kind \in Greedy -> stack' = Append(stack, Node(kind, at)) /\ UNCHANGED status
      [] kind \in StopTags -> status' = "invalid" /\ UNCHANGED stack
      [] OTHER -> stack' = Attach(stack, Node(kind, at)) /\ UNCHANGED status

(* The text between two tags is one node. *)
Parse(kind) ==
    /\ status = "reading" /\ Len(read) < MaxTokens
    /\ kind = "text" /\ read # <<>> => Last(read) # "text"
    /\ read' = Append(read, kind)
    /\ IF Len(stack) > 1 /\ Ends[Last(stack).kind] = kind
       THEN stack' = Close(stack) /\ UNCHANGED status
       ELSE ParseNode(kind, Len(read'))
    /\ UNCHANGED compiler

(* Nodes that are still open at the end belong to their parents all the same. *)
Ast == FoldLeft(LAMBDA nodes, i : Close(nodes), stack, [i \in 1 .. Len(stack) - 1 |-> i])[1]

(* ViboraNodes.before_prepare: url and static tags become text ...          *)
LinkText(node) == [node EXCEPT !.kind = "text"]

RECURSIVE ReplaceOnTree(_)
(* ... wherever they are in the tree.                                       *)
ReplaceOnTree(node) ==
    IF node.kind = "link" THEN LinkText(node)
    ELSE [node EXCEPT !.children = [i \in DOMAIN @ |-> ReplaceOnTree(@[i])]]

-----------------------------------------------------------------------------
(* PythonTemplateCompiler *)

Line(indent, stm, at) == [indent |-> indent, stm |-> stm, at |-> at]

FlushText(c) ==
    IF c.text = <<>> THEN c
    ELSE [c EXCEPT !.lines = Append(@, Line(c.indent, "text", c.text)),
                   !.text = <<>>, !.pending = FALSE]

FlushComment(c) ==
    IF c.comment = <<>> THEN c
    ELSE [c EXCEPT !.lines = Append(@, c.comment[1]), !.comment = <<>>]

(* Mutant: the text of a loop is flushed after it. *)
AddUnflushed(c, stm, at) ==
    LET d == FlushComment(c)
    IN [d EXCEPT !.lines = Append(@, Line(d.indent, stm, at)), !.pending = FALSE]

AddStatement(c, stm, at) ==
    LET d == FlushComment(FlushText(c))
    IN [d EXCEPT !.lines = Append(@, Line(d.indent, stm, at)), !.pending = FALSE]

(* Mutant: the first of several comments is kept. *)
AddFirstComment(c, at) ==
    IF c.comment # <<>> THEN c ELSE [c EXCEPT !.comment = <<Line(c.indent, "comment", at)>>]

AddComment(c, at) == [c EXCEPT !.comment = <<Line(c.indent, "comment", at)>>]

Indent(c) == [c EXCEPT !.indent = @ + 1, !.pending = TRUE]

(* Mutant: an empty block is left empty. *)
RollbackBare(c) == LET d == FlushText(c) IN [d EXCEPT !.indent = @ - 1]

(* An empty block gets a pass, an empty template yields ''. *)
Rollback(c) ==
    LET d == FlushText(c)
        e == CASE d.pending /\ d.indent > 1 -> AddStatement(d, "pass", <<>>)
               [] d.pending /\ d.indent = 1 -> AddStatement(d, "text", <<>>)
               [] OTHER -> d
    IN [e EXCEPT !.indent = @ - 1]

(* _compile_template of an EvalNode: the value may be a coroutine, and is   *)
(* computed once more if it is none.                                        *)
CompileEval(c, at) ==
    LET a == Indent(AddStatement(AddStatement(c, "temp", at), "ifco", at))
        b == Rollback(AddStatement(a, "await", at))
    IN Rollback(AddStatement(Indent(AddStatement(b, "elseco", at)), "yield", at))

RECURSIVE Compile(_, _)

CompileAll(c, nodes) == FoldLeft(LAMBDA d, node : Compile(d, node), c, nodes)

CompileFor(c, node) ==
    Rollback(CompileAll(Indent(AddStatement(c, "for", <<node.at>>)), node.children))

CompileIf(c, node) ==
    LET Arm(d, child) ==
            IF child.kind = "else"
            THEN Indent(AddStatement(Rollback(FlushText(d)), "else", <<child.at>>))
            ELSE Compile(d, child)
    IN Rollback(FlushText(FoldLeft(Arm,
           Indent(AddStatement(c, "if", <<node.at>>)), node.children)))

(* An elif has no children, and is compiled inside the body of its if. *)
CompileElif(c, node) == Rollback(Indent(AddStatement(c, "elif", <<node.at>>)))

(* A macro goes to compiler.functions, which consume() has emitted before.  *)
(* An else that is not a child of an if raises, as does a link, and the     *)
(* rest is not compiled.                                                    *)
Compile(c, node) ==
    LET d == AddComment(c, <<node.at>>)
    IN CASE c.failed -> c
         [] node.kind = "text" -> [c EXCEPT !.text = Append(@, node.at)]
         [] node.kind = "macro" -> c
         [] node.kind \in {"else", "link"} -> [c EXCEPT !.failed = TRUE]
         [] node.kind = "eval" -> CompileEval(d, <<node.at>>)
         [] node.kind = "for" -> CompileFor(d, node)
         [] node.kind = "if" -> CompileIf(d, node)
         [] node.kind = "elif" -> CompileElif(d, node)
         [] node.kind = "block" -> CompileAll(d, node.children)

(* consume(): the whole template is the body of its entry point. *)
Consume(c) == Rollback(CompileAll(Indent(AddStatement(c, "def", <<>>)), ReplaceOnTree(Ast).children))

-----------------------------------------------------------------------------
(* What Python makes of the lines. *)

Headers == {"def", "for", "if", "elif", "else", "ifco", "elseco"}
Code(lines) == SelectSeq(lines, LAMBDA line : line.stm # "comment")

(* The line that opened the block of line k at a level, or its predecessor  *)
(* at its own level.                                                        *)
Before(lines, k, level) ==
    CHOOSE j \in 1 .. k - 1 :
        /\ lines[j].indent = level
        /\ \A i \in j + 1 .. k - 1 : lines[i].indent > level

(* Every header has a block, and every else and elif has its if. *)
Follows(lines, k) ==
    LET line == lines[k]
        Sibling(stms) == \E j \in 1 .. k - 1 :
            /\ lines[j].indent = line.indent /\ lines[j].stm \in stms
            /\ \A i \in j + 1 .. k - 1 : lines[i].indent > line.indent
    IN CASE line.stm \in {"else", "elif"} -> Sibling({"if", "elif"})
         [] line.stm = "elseco" -> Sibling({"ifco", "elif"})
         [] OTHER -> TRUE

IsPython(lines) ==
    \A k \in 1 .. Len(lines) :
        /\ Follows(lines, k)
        /\ IF lines[k].stm \in Headers
           THEN k < Len(lines) /\ lines[k + 1].indent = lines[k].indent + 1
           ELSE k < Len(lines) => lines[k + 1].indent <= lines[k].indent

(* A function without yield is no generator that render() could iterate.    *)
Yields == {"text", "await", "yield"}
IsGenerator(lines) == \E k \in DOMAIN lines : lines[k].stm \in Yields

(* compile(): the code is executed to get its entry point. *)
CompileTemplate ==
    /\ status = "reading"
    /\ LET c == Consume(compiler)
           ran == ~c.failed /\ IsPython(Code(c.lines))
       IN /\ compiler' = c
          /\ status' = IF ~ran THEN "broken"
                       ELSE IF IsGenerator(c.lines) THEN "compiled" ELSE "silent"
    /\ UNCHANGED <<read, stack>>

(* The line of the entry point: an import and an empty line come before it, *)
(* and the comment that the template before left behind, if any, as clean() *)
(* does not reset that.                                                     *)
EntryPoints == {3, 4}

(* CompiledTemplate.render_exception, for an error in line k of the entry   *)
(* point.  Lines are counted from the entry point on, but compared with the *)
(* line of the error, which counts from the top.  So the comments of some   *)
(* lines after it are taken too.                                            *)
Late(entry) == entry - 1
Taken(lines, k, entry) ==
    {j \in DOMAIN lines : j <= k + Late(entry) /\ lines[j].stm = "comment"}

RenderException(lines, k, entry) == lines[Max(Taken(lines, k, entry))].at

Next == (\E kind \in Kinds : Parse(kind)) \/ CompileTemplate

Spec == Init /\ [][Next]_vars

-----------------------------------------------------------------------------
(* The reference: what the tokens say, without a tree. *)

(* The tags around token i that are open, an else in the place of its if. *)
Tag(j) == [kind |-> read[j], at |-> j]

Enclosing(i) ==
    FoldLeft(LAMBDA open, j :
                 CASE read[j] \in Greedy -> Append(open, Tag(j))
                   [] read[j] \in StopTags -> Front(open)
                   [] read[j] = "else" -> Append(Front(open), Tag(j))
                   [] OTHER -> open,
             <<>>, [j \in 1 .. i - 1 |-> j])

Tops(i) == LET open == Enclosing(i) IN IF open = <<>> THEN {} ELSE {Last(open).kind}
InMacro(i) == \E j \in 1 .. Len(Enclosing(i)) : Enclosing(i)[j].kind = "macro"

(* Closing tags close the innermost tag, or the else of an innermost if;    *)
(* an else is in an if that has none yet.                                   *)
Accepted ==
    \A i \in 1 .. Len(read) :
        /\ read[i] \in StopTags =>
               \/ \E k \in Greedy : Ends[k] = read[i] /\ k \in Tops(i)
               \/ read[i] = "endif" /\ "else" \in Tops(i)
        /\ read[i] = "else" => "if" \in Tops(i)

Shows == SelectSeq([i \in 1 .. Len(read) |-> i],
                   LAMBDA i : read[i] \in {"text", "link", "eval"} /\ ~InMacro(i))

-----------------------------------------------------------------------------
(* The nodes that are open are tags that have an end, and a compilation     *)
(* leaves the compiler at the margin, with no text, for the next template   *)
(* (clean() resets neither, python.py:45-55).                               *)
TypeOK ==
    /\ \A i \in 2 .. Len(stack) : stack[i].kind \in Greedy
    /\ status \in {"compiled", "silent"} => compiler.indent = 0 /\ compiler.text = <<>>

(* A template without elif and macro compiles exactly when its closing      *)
(* tags match and its else are in an if, empty blocks and open ends         *)
(* included, and to a generator if it shows anything (template.py:110-154,  *)
(* base.py:18-30).  (No text has a backslash here.)                         *)
Plain == \A i \in 1 .. Len(read) : read[i] \notin {"elif", "macro"}

Compiles ==
    Plain => CASE status = "compiled" -> Accepted
               [] status = "silent" -> Accepted /\ Shows = <<>>
               [] status \in {"broken", "invalid"} -> ~Accepted
               [] OTHER -> TRUE

(* What it compiles to shows every text and every expression once, in       *)
(* order, inside the loops and the arms it is written in (nodes.py:50-160,  *)
(* python.py:74-120).                                                       *)
ShowLines(lines) == SelectSeq([k \in 1 .. Len(lines) |-> k],
                              LAMBDA k : lines[k].stm \in {"text", "temp"})
Around(lines, k) ==
    FlattenSeq([n \in 1 .. lines[k].indent - 1 |->
        LET header == lines[Before(lines, k, n)] IN header.at])

Faithful ==
    LET lines == Code(compiler.lines)
        shown == ShowLines(lines)
        Arms(i) == SelectSeq(Enclosing(i), LAMBDA tag : tag.kind # "block")
    IN status = "compiled" /\ Plain =>
          /\ FlattenSeq([n \in 1 .. Len(shown) |-> lines[shown[n]].at]) = Shows
          /\ \A n \in 1 .. Len(shown) : \A p \in 1 .. Len(lines[shown[n]].at) :
                LET arms == Arms(lines[shown[n]].at[p])
                IN Around(lines, shown[n]) = [q \in 1 .. Len(arms) |-> arms[q].at]

(* An error is reported with the tag it is in (the test                    *)
(* tests/templates/exceptions.py:12-29): always if an expression fails when *)
(* it is first computed; if a loop, a condition or the end of an expression *)
(* fails, then unless another tag follows within the lines that             *)
(* render_exception counts too many (template.py:49-62, python.py:89-121).  *)
Failing == {"temp", "await", "yield", "for", "if", "elif"}

Reported ==
    LET lines == compiler.lines
        fails == {k \in DOMAIN lines : lines[k].stm \in Failing}
    IN status = "compiled" =>
          \A k \in fails, entry \in EntryPoints :
              \/ lines[k].stm # "temp" /\ \E j \in Taken(lines, k, entry) : j > k
              \/ RenderException(lines, k, entry) = lines[k].at
=============================================================================
