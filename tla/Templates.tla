----------------------------- MODULE Templates ------------------------------
(* The template files, the thread of TemplateLoader (vibora/templates/      *)
(* loader.py) that reads them again as they change, and TemplateEngine      *)
(* (vibora/templates/engine.py, templates/ast.py, templates/cache.py) that  *)
(* resolves includes and extends and compiles.                              *)
(* A content includes one template, extends one, or neither; its hash is    *)
(* the content itself, and its text tells whether the parser or Python      *)
(* refuses it.  A syntax tree is its text, the owner of each of its *)
(* blocks, and the trees it includes; objects are known by their number.    *)
EXTENDS Integers, Sequences, FiniteSets, SequencesExt

CONSTANTS
    Names,      \* the files: each one is imported by one name
    Blocks,
    None,
    BadTags,    \* texts with a tag that is invalid
    BadCode,    \* texts whose code is not Python
    Worlds,     \* [files, edits]: files at the start, and what they become
    Walks       \* orders in which the directories may be walked

VARIABLES
    walk,       \* the order of os.walk
    edits,      \* bound: the contents that may still be written, once each
    files,      \* the contents on disk
    dirty,      \* files whose mtime the loader has not seen
    pc,         \* "idle", "reload", "compile", or "dead": the thread raised
    todo,       \* what is left of the files to reload
    again,      \* hashes to reload before the first of them, or NotYet
    templates,  \* the dict of the engine: [name, object], in its order
    objects,    \* the ParsedTemplates: [hash, ast, deps, prepared]
    asts,       \* their trees
    path_index, \* the object last read from each file, or 0
    hash_index, \* [hash -> the file that was last read with it]
    compiled,   \* compiled_templates and the cache: what each hash renders
    metas,      \* loaded_metas: the dependencies of what is compiled
    stack,      \* the calls of prepare_template, the first one outermost
    raced,      \* history: a file was edited during a pass, or together with
                \* one it uses
    faulted,    \* history: a file held a content that cannot be compiled
    lost,       \* history: files that were unloaded with another one of the
                \* same content, and have not been read since
    stale       \* history: files edited after the first reload

disk == <<walk, edits, files>>
parsed == <<templates, objects, asts>>
code == <<compiled, metas>>
index == <<path_index, hash_index>>
history == <<raced, faulted, lost, stale>>
vars == <<disk, dirty, pc, todo, again, parsed, code, index, stack, history>>

NotYet == <<None>>
Empty == [h \in {} |-> {}]

(* A content that the parser or Python refuses, or that uses a template     *)
(* that does not exist, or itself, maybe through others.                    *)
Uses(content) == {content.include, content.extends} \ {None}
Fault(fs) ==
    \/ \E n \in Names : \/ fs[n].text \in BadTags \cup BadCode
                         \/ ~(Uses(fs[n]) \subseteq Names)
    \/ \E S \in (SUBSET Names) \ {{}} : \A n \in S : Uses(fs[n]) \cap S # {}

Init ==
    /\ \E world \in Worlds : files = world.files /\ edits = world.edits
    /\ walk \in Walks
    /\ dirty = Names /\ pc = "idle" /\ todo = <<>> /\ again = NotYet
    /\ templates = <<>> /\ objects = <<>> /\ asts = <<>>
    /\ path_index = [n \in Names |-> 0] /\ hash_index = Empty
    /\ compiled = Empty /\ metas = Empty /\ stack = <<>>
    /\ raced = FALSE /\ faulted = Fault(files) /\ lost = {} /\ stale = {}

With(f, k, v) == [x \in DOMAIN f \cup {k} |-> IF x = k THEN v ELSE f[x]]
Only(f, K) == [x \in DOMAIN f \cap K |-> f[x]]

HashOf(t) == objects[t.object].hash
Hashes == {HashOf(templates[i]) : i \in 1 .. Len(templates)}
Named(n) == {i \in 1 .. Len(templates) : templates[i].name = n}
Lookup(n) == IF Named(n) = {} THEN 0 ELSE templates[CHOOSE i \in Named(n) : TRUE].object

Die == pc' = "dead"

-----------------------------------------------------------------------------
Edit(edit) ==
    /\ files[edit.name] # edit.content
    /\ files' = [files EXCEPT ![edit.name] = edit.content]
    /\ edits' = edits \ {edit}
    /\ dirty' = dirty \cup {edit.name}
    /\ raced' = (raced \/ pc \in {"reload", "compile"})
    /\ faulted' = (faulted \/ Fault(files'))
    /\ stale' = IF objects = <<>> THEN stale ELSE stale \cup {edit.name}
    /\ UNCHANGED <<walk, pc, todo, again, parsed, code, index, stack, lost>>

(* check_for_modified_templates: the mtimes are noted before the files are  *)
(* read.                                                                    *)
CheckForModifiedTemplates ==
    /\ pc = "idle" /\ dirty # {}
    /\ raced' = (raced \/ \E m, n \in {x \in dirty : path_index[x] # 0} :
                    LET user == objects[path_index[m]].hash
                    IN user \in DOMAIN metas /\ objects[path_index[n]].hash \in metas[user])
    /\ pc' = "reload"
    /\ todo' = SelectSeq(walk, LAMBDA n : n \in dirty)
    /\ dirty' = {}
    /\ UNCHANGED <<disk, again, parsed, code, index, stack, faulted, lost, stale>>

(* Mutant: templates that depend on a changed one are left alone. *)
NoRelationships ==
    /\ pc = "reload" /\ todo # <<>> /\ again = NotYet
    /\ again' = <<>>
    /\ UNCHANGED <<disk, dirty, pc, todo, parsed, code, index, stack, history>>

(* The templates that depend on the one this file had. *)
FindRelationships ==
    /\ pc = "reload" /\ todo # <<>> /\ again = NotYet
    /\ LET id == path_index[Head(todo)]
       IN again' = IF id = 0 THEN <<>>
                   ELSE SetToSeq({h \in DOMAIN metas : objects[id].hash \in metas[h]})
    /\ UNCHANGED <<disk, dirty, pc, todo, parsed, code, index, stack, history>>

(* remove_template, by hash: every name of it goes, and its code.  Then     *)
(* add_to_engine: the file is read, and a tag that is invalid or a name     *)
(* that is taken raises.                                                    *)
Replace(hashes, n) ==
    LET kept == SelectSeq(templates, LAMBDA t : HashOf(t) \notin hashes)
        content == files[n]
        id == Len(objects) + 1
        twins == {m \in Names : path_index[m] # 0 /\ objects[path_index[m]].hash \in hashes}
    IN /\ compiled' = Only(compiled, DOMAIN compiled \ hashes)
       /\ metas' = Only(metas, DOMAIN metas \ hashes)
       /\ lost' = (lost \cup twins) \ {n}
       /\ IF content.text \in BadTags \/ \E i \in 1 .. Len(kept) : kept[i].name = n
          THEN Die /\ templates' = kept /\ UNCHANGED <<objects, asts, index>>
          ELSE
            /\ templates' = Append(kept, [name |-> n, object |-> id])
            /\ objects' = Append(objects, [hash |-> content, ast |-> id, deps |-> {},
                                           prepared |-> FALSE])
            /\ asts' = Append(asts, [text |-> content.text, includes |-> 0,
                                     blocks |-> [b \in Blocks |->
                                         IF b \in content.blocks THEN content.text ELSE None]])
            /\ path_index' = [path_index EXCEPT ![n] = id]
            /\ hash_index' = With(hash_index, content, n)
            /\ UNCHANGED pc

ReloadDependent ==
    /\ pc = "reload" /\ again \notin {NotYet, <<>>}
    /\ Replace({Head(again)}, hash_index[Head(again)])
    /\ again' = Tail(again)
    /\ UNCHANGED <<disk, dirty, todo, stack, raced, faulted, stale>>

ReloadFile ==
    /\ pc = "reload" /\ again = <<>>
    /\ LET id == path_index[Head(todo)]
       IN Replace(IF id = 0 THEN {} ELSE {objects[id].hash}, Head(todo))
    /\ todo' = Tail(todo) /\ again' = NotYet
    /\ UNCHANGED <<disk, dirty, stack, raced, faulted, stale>>

(* Mutant: what depends on a template that is gone is waited for. *)
SyncLater ==
    /\ pc = "reload" /\ todo = <<>>
    /\ \A h \in DOMAIN metas : metas[h] \subseteq Hashes
    /\ pc' = "compile"
    /\ UNCHANGED <<disk, dirty, todo, again, parsed, code, index, stack, history>>

(* sync_cache removes from the dict it iterates over: if there is anything  *)
(* to remove, that raises.                                                  *)
SyncCache ==
    /\ pc = "reload" /\ todo = <<>>
    /\ IF \E h \in DOMAIN metas : ~(metas[h] \subseteq Hashes) THEN Die ELSE pc' = "compile"
    /\ UNCHANGED <<disk, dirty, todo, again, parsed, code, index, stack, history>>

-----------------------------------------------------------------------------
(* compile_templates *)

Pending == {i \in 1 .. Len(templates) : HashOf(templates[i]) \notin DOMAIN compiled}
First == templates[CHOOSE i \in Pending : \A j \in Pending : i <= j].object

RECURSIVE Shown(_)
(* What the code of a tree shows: the included tree is compiled into it. *)
Shown(tree) ==
    [text |-> asts[tree].text, blocks |-> asts[tree].blocks,
     includes |-> IF asts[tree].includes = 0 THEN <<>>
                  ELSE <<Shown(asts[tree].includes)>>]

(* Python refuses the code of a tree for any text that is in it. *)
RECURSIVE Refused(_)
Refused(shown) ==
    \/ ({shown.text} \cup Range(shown.blocks)) \cap BadCode # {}
    \/ \E i \in DOMAIN shown.includes : Refused(shown.includes[i])

(* What the cache has is kept, what is left is prepared in its turn, and    *)
(* compiled as soon as it is prepared.  What Python refuses raises.         *)
CompileTemplate ==
    /\ pc = "compile" /\ stack = <<>> /\ Pending # {}
    /\ IF ~objects[First].prepared THEN stack' = <<First>> /\ UNCHANGED <<pc, code>>
       ELSE LET shown == Shown(objects[First].ast)
            IN /\ IF Refused(shown) THEN Die /\ UNCHANGED code
                  ELSE /\ compiled' = With(compiled, objects[First].hash, shown)
                       /\ metas' = With(metas, objects[First].hash, objects[First].deps)
                       /\ UNCHANGED pc
               /\ UNCHANGED stack
    /\ UNCHANGED <<disk, dirty, todo, again, parsed, index, history>>

Prepared(id, deps) == objects' = [objects EXCEPT ![id].prepared = TRUE, ![id].deps = deps]

(* resolve_include_nodes: the tree of the other template, itself. *)
Include(id, target) ==
    /\ asts' = [asts EXCEPT ![objects[id].ast].includes = objects[target].ast]
    /\ Prepared(id, {objects[target].hash})

(* Mutant: the blocks of the child are not looked for. *)
MergeNothing(id, parent) ==
    /\ objects' = [objects EXCEPT ![id].prepared = TRUE, ![id].ast = objects[parent].ast,
                                  ![id].deps = {objects[parent].hash}]
    /\ UNCHANGED asts

RECURSIVE Trees(_)
Trees(tree) ==
    {tree} \cup IF asts[tree].includes = 0 THEN {} ELSE Trees(asts[tree].includes)

(* merge: the blocks of the child replace those of the tree of the parent,  *)
(* and of the trees included in it, and that tree becomes the tree of the   *)
(* child.                                                                   *)
Merge(id, parent) ==
    LET tree == objects[parent].ast
        own == asts[objects[id].ast].blocks
        Replaced(blocks) == [b \in Blocks |-> IF own[b] # None /\ blocks[b] # None
                                              THEN own[b] ELSE blocks[b]]
    IN /\ asts' = [t \in DOMAIN asts |-> IF t \in Trees(tree)
                       THEN [asts[t] EXCEPT !.blocks = Replaced(@)] ELSE asts[t]]
       /\ objects' = [objects EXCEPT ![id].prepared = TRUE, ![id].ast = tree,
                                     ![id].deps = {objects[parent].hash}]

(* prepare_template: what it uses is prepared first.  A name that is        *)
(* missing raises, and so does a template that uses itself.                 *)
PrepareTemplate ==
    /\ pc = "compile" /\ stack # <<>>
    /\ LET id == Last(stack)
           content == objects[id].hash
           used == IF content.include # None THEN content.include ELSE content.extends
           target == Lookup(used)
           Return == stack' = Front(stack) /\ UNCHANGED pc
       IN CASE used = None -> Return /\ Prepared(id, {}) /\ UNCHANGED asts
            [] used # None /\ target \in Range(stack) \cup {0} ->
                   Die /\ UNCHANGED <<stack, objects, asts>>
            [] used # None /\ target \notin Range(stack) \cup {0} ->
                   IF ~objects[target].prepared
                   THEN stack' = Append(stack, target) /\ UNCHANGED <<pc, objects, asts>>
                   ELSE /\ Return
                        /\ IF content.include # None THEN Include(id, target)
                                                     ELSE Merge(id, target)
    /\ UNCHANGED <<disk, dirty, todo, again, templates, code, index, history>>

(* cache.clean: code without a template goes. *)
Clean ==
    /\ pc = "compile" /\ stack = <<>> /\ Pending = {}
    /\ compiled' = Only(compiled, Hashes) /\ metas' = Only(metas, Hashes)
    /\ pc' = "idle"
    /\ UNCHANGED <<disk, dirty, todo, again, parsed, index, stack, history>>

Loader ==
    \/ CheckForModifiedTemplates \/ FindRelationships \/ ReloadDependent
    \/ ReloadFile \/ SyncCache
    \/ CompileTemplate \/ PrepareTemplate \/ Clean

Next == (\E edit \in edits : Edit(edit)) \/ Loader

Spec == Init /\ [][Next]_vars

(* The thread only sleeps half a second between its passes. *)
FairSpec == Spec /\ WF_vars(Loader)

-----------------------------------------------------------------------------
(* The reference: what a file shows, read from the files. *)

RECURSIVE Overridden(_, _)
Overridden(shown, c) ==
    [shown EXCEPT !.blocks = [b \in Blocks |-> IF b \in c.blocks /\ @[b] # None
                                               THEN c.text ELSE @[b]],
                  !.includes = [i \in DOMAIN @ |-> Overridden(@[i], c)]]

RECURSIVE Expected(_)
Expected(n) ==
    LET c == files[n]
    IN IF c.extends # None THEN Overridden(Expected(c.extends), c)
       ELSE [text |-> c.text,
             blocks |-> [b \in Blocks |-> IF b \in c.blocks THEN c.text ELSE None],
             includes |-> IF c.include = None THEN <<>> ELSE <<Expected(c.include)>>]

Used(n) == Uses(files[n])
Indirect(n) == UNION {Used(m) : m \in Used(n)}

RECURSIVE Reach(_)
Reach(n) == {n} \cup UNION {Reach(m) : m \in Used(n)}

(* A tree this file shows is also that of a template it does not use, or of *)
(* an older version of one, or one that such a template extends.            *)
Shared(n) ==
    \E i \in DOMAIN objects \ {Lookup(m) : m \in Reach(n)} :
        LET tree == objects[i].ast
            owned == IF objects[i].hash.extends = None THEN {tree} ELSE Trees(tree)
        IN owned \cap Trees(objects[Lookup(n)].ast) # {}

Current(n) ==
    LET id == Lookup(n)
    IN /\ objects[id].hash \in DOMAIN compiled
       /\ compiled[objects[id].hash] = Expected(n)

Settled == pc = "idle" /\ dirty = {} /\ templates # <<>>

-----------------------------------------------------------------------------
(* The types of the indexes, and no tree or object without its owner. *)
TypeOK ==
    /\ files \in [Names -> {files[n] : n \in Names}]
    /\ Len(objects) = Len(asts)
    /\ \A i, j \in 1 .. Len(templates) :
          templates[i].name = templates[j].name => i = j
    /\ \A h \in DOMAIN hash_index : hash_index[h] \in Names
    /\ DOMAIN compiled = DOMAIN metas

(* After a pass over the last edits every file renders what it and the      *)
(* files it uses now hold (engine.py:119-192, loader.py:21-45), but for     *)
(* three cases: a change of a file that is used through another one; a tree *)
(* that another file, or an older version, extends too; and a file that had *)
(* the content of another when that was read again, which is unloaded with  *)
(* it, as templates are removed by hash (engine.py:36-55), until it is      *)
(* written itself.                                                          *)
Fresh ==
    Settled =>
        \A n \in Names \ lost :
            Lookup(n) # 0 /\ (Current(n) \/ Indirect(n) \cap stale # {} \/ Shared(n))

(* The loader only dies of a content that cannot be compiled (a tag that is *)
(* invalid, code that Python refuses, a name that is missing, a template    *)
(* that uses itself: run() catches nothing, loader.py:81-84), of files that *)
(* were edited while it reloaded, of one that was edited with a file it     *)
(* uses between two passes, or of a use of a file that is unloaded with its *)
(* twin: otherwise no reload makes the dict shrink that sync_cache iterates *)
(* over, or a name be missing or taken (engine.py:64-72 and 157-165,        *)
(* loader.py:21-45).                                                        *)
Survives == pc = "dead" => faulted \/ raced \/ lost # {}

(* Every edit is taken in, unless the thread is dead. *)
TakenIn == dirty # {} ~> (pc = "dead" \/ Settled)
=============================================================================
