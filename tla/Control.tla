------------------------------ MODULE Control ------------------------------
(***************************************************************************)
(* Control transfer in compiled Lisp code: what Compx86.cpp generates for  *)
(* BLOCK, RETURN-FROM, TAGBODY, GO, CATCH, THROW, UNWIND-PROTECT, LET of    *)
(* special variables and calls, and what the kernel does when that code    *)
(* runs (the list COMPILER_RUNTIME of catchers and special bindings, the    *)
(* binding lists of the special variables, Throw_Exception).               *)
(*                                                                         *)
(* The compiler is the operator Compile: it carries the stack index and    *)
(* the list of cleanups as the code does, and returns a sequence of         *)
(* instructions.  The machine executes them one at a time.  Evaluate is    *)
(* the reference: what the forms mean, with no code and no stack.          *)
(*                                                                         *)
(* EAX, ECX and the list of multiple values travel together and are one    *)
(* register here.  Lexical variables need no cleanup and are left out.     *)
(* Branches go to labels instead of being patched.  The code of a LAMBDA   *)
(* stands in place, jumped over, and is called where it stands.            *)
(***************************************************************************)
EXTENDS Integers, Sequences, SequencesExt, TLC

CONSTANTS
    Programs,   \* the forms that are compiled and run
    Specials    \* special variables, each with a global value

(***************************************************************************)
(* Forms: an operator, names (labels, tags, variables, a literal) and the  *)
(* forms inside.                                                           *)
(***************************************************************************)
Form(op, names, forms) == [op |-> op, names |-> names, forms |-> forms]

Lit(v) == Form("lit", <<v>>, <<>>)
Ref(s) == Form("ref", <<s>>, <<>>)
Call(f, args) == Form("call", <<f>>, args)  \* a function the trace shows
Again == Form("again", <<>>, <<>>)          \* true the first time, then NIL
If(test, then) == Form("if", <<>>, <<test, then>>)
Progn(forms) == Form("progn", <<>>, forms)
Let(vars, inits, body) == Form("let", vars, inits \o body)
LetStar(vars, inits, body) == Form("let*", vars, inits \o body)
Block(b, body) == Form("block", <<b>>, body)
ReturnFrom(b, value) == Form("return", <<b>>, <<value>>)
Tagbody(items) == Form("tagbody", <<>>, items)
Tag(t) == Form("tag", <<t>>, <<>>)
Go(t) == Form("go", <<t>>, <<>>)
Catch(t, body) == Form("catch", <<t>>, body)
Throw(t, value) == Form("throw", <<t>>, <<value>>)
UnwindProtect(form, cleanup) == Form("unwind", <<>>, <<form>> \o cleanup)
Funcall(body) == Form("lambda", <<>>, body) \* (funcall (lambda () ...))
Eq(form, v) == Form("eq", <<v>>, <<form>>)

Inits(f) == SubSeq(f.forms, 1, Len(f.names))
Body(f) == SubSeq(f.forms, Len(f.names) + 1, Len(f.forms))
TagsOf(forms) == {forms[i].names[1] : i \in {j \in DOMAIN forms : forms[j].op = "tag"}}

Nil == "nil"
Uninitialized == "uninitialized"
ErrorTag == "error"

(***************************************************************************)
(* What the forms mean.  An outcome says how the evaluation ended, with    *)
(* which value or for which label or tag, and what was called so far; dyn  *)
(* has the values of the special variables and the tags that can be        *)
(* thrown to.                                                              *)
(***************************************************************************)
Start == [how |-> "value", val |-> Nil, to |-> Nil, trace |-> <<>>, again |-> TRUE]
Value(o, v) == [o EXCEPT !.how = "value", !.val = v]

RECURSIVE Evaluate(_, _, _)

EvaluateAll(forms, dyn, o) ==
    FoldLeft(LAMBDA p, f : IF p.how = "value" THEN Evaluate(f, dyn, p) ELSE p,
             Value(o, Nil), forms)

\* The values of the forms in order, in the field args.
EvaluateArgs(forms, dyn, o) ==
    FoldLeft(LAMBDA p, f : IF p.o.how # "value" THEN p
                           ELSE LET q == Evaluate(f, dyn, p.o)
                                IN  [o |-> q, args |-> Append(p.args, q.val)],
             [o |-> o, args |-> <<>>], forms)

RECURSIVE RunTagbody(_, _, _, _)
RunTagbody(items, from, dyn, o) ==
    LET p == EvaluateAll(SelectSeq(SubSeq(items, from, Len(items)),
                                   LAMBDA f : f.op # "tag"), dyn, o)
    IN  IF p.how = "go" /\ p.to \in TagsOf(items)
        THEN RunTagbody(items, CHOOSE i \in DOMAIN items : items[i] = Tag(p.to),
                        dyn, Value(p, Nil))
        ELSE IF p.how = "value" THEN Value(p, Nil) ELSE p

Evaluate(f, dyn, o) ==
    CASE f.op = "lit" -> Value(o, f.names[1])
      [] f.op = "ref" -> Value(o, dyn.vals[f.names[1]])
      [] f.op = "again" -> [Value(o, IF o.again THEN "t" ELSE Nil) EXCEPT !.again = FALSE]
      [] f.op = "progn" -> EvaluateAll(f.forms, dyn, o)
      [] f.op = "lambda" -> EvaluateAll(f.forms, dyn, o)
      [] f.op = "call" ->
            LET p == EvaluateArgs(f.forms, dyn, o)
            IN  IF p.o.how # "value" THEN p.o
                ELSE [Value(p.o, f.names[1])
                        EXCEPT !.trace = Append(@, <<f.names[1], p.args>>)]
      [] f.op = "if" ->
            LET p == Evaluate(f.forms[1], dyn, o)
            IN  IF p.how = "value" /\ p.val # Nil THEN Evaluate(f.forms[2], dyn, p) ELSE p
      [] f.op = "let" ->
            LET p == EvaluateArgs(Inits(f), dyn, o)
                bound == [s \in DOMAIN dyn.vals |->
                            IF \E i \in DOMAIN f.names : f.names[i] = s
                            THEN p.args[CHOOSE i \in DOMAIN f.names : f.names[i] = s]
                            ELSE dyn.vals[s]]
            IN  IF p.o.how # "value" THEN p.o
                ELSE EvaluateAll(Body(f), [dyn EXCEPT !.vals = bound], p.o)
      [] f.op = "let*" ->
            IF f.names = <<>> THEN EvaluateAll(f.forms, dyn, o)
            ELSE LET p == Evaluate(f.forms[1], dyn, o)
                 IN  IF p.how # "value" THEN p
                     ELSE Evaluate(Form("let*", Tail(f.names), Tail(f.forms)),
                                   [dyn EXCEPT !.vals[f.names[1]] = p.val], p)
      [] f.op = "block" ->
            LET p == EvaluateAll(f.forms, dyn, o)
            IN  IF p.how = "return" /\ p.to = f.names[1] THEN Value(p, p.val) ELSE p
      [] f.op = "return" ->
            LET p == Evaluate(f.forms[1], dyn, o)
            IN  IF p.how # "value" THEN p ELSE [p EXCEPT !.how = "return", !.to = f.names[1]]
      [] f.op = "tagbody" -> RunTagbody(f.forms, 1, dyn, o)
      [] f.op = "go" -> [o EXCEPT !.how = "go", !.to = f.names[1]]
      [] f.op = "catch" ->
            LET p == EvaluateAll(f.forms, [dyn EXCEPT !.tags = @ \union {f.names[1]}], o)
            IN  IF p.how = "throw" /\ p.to = f.names[1] THEN Value(p, p.val) ELSE p
      [] f.op = "throw" ->
            LET p == Evaluate(f.forms[1], dyn, o)
            IN  IF p.how # "value" THEN p
                ELSE IF f.names[1] \in dyn.tags
                THEN [p EXCEPT !.how = "throw", !.to = f.names[1]]
                ELSE [p EXCEPT !.how = "throw", !.to = ErrorTag, !.val = ErrorTag]
      [] f.op = "unwind" ->
            LET p == Evaluate(f.forms[1], dyn, o)
                q == EvaluateAll(Tail(f.forms), dyn, Value(p, Nil))
            IN  IF q.how # "value" THEN q
                ELSE [p EXCEPT !.trace = q.trace, !.again = q.again]

GlobalValue(s) == "global"

\* What running the program should show: the value and the calls.
Meaning(program) ==
    LET o == Evaluate(program, [vals |-> [s \in Specials |-> GlobalValue(s)],
                                tags |-> {ErrorTag}], Start)
    IN  [val |-> o.val, trace |-> o.trace]

(***************************************************************************)
(* The compiler.  c.code is the code buffer, c.index the stack index (the  *)
(* words this function has on the stack), c.cleanups the list              *)
(* COMPILER_CLEANUPS with the innermost record first, c.bad is set where   *)
(* the compiler reports an error.  Every instruction remembers the stack   *)
(* index it was emitted at.                                                *)
(***************************************************************************)
NewCode(cleanups) == [code |-> <<>>, index |-> 0, cleanups |-> cleanups, bad |-> FALSE]

Growth(op, arg) ==
    CASE op \in {"push", "pushLiteral", "pushThrowTag"} -> 1
      [] op \in {"pop", "popSaved", "popEq"} -> -1
      [] op = "drop" -> -arg
      [] OTHER -> 0

(* Add instructions, each a pair of operation and argument. *)
Gen(c, instructions) ==
    LET index[i \in 0 .. Len(instructions)] ==
            IF i = 0 THEN c.index
            ELSE index[i - 1] + Growth(instructions[i][1], instructions[i][2])
    IN  [c EXCEPT !.code = @ \o [i \in DOMAIN instructions |->
                                    [op |-> instructions[i][1], arg |-> instructions[i][2],
                                     at |-> index[i - 1]]],
                  !.index = index[Len(instructions)]]

Emit(c, op, arg) == Gen(c, <<<<op, arg>>>>)

Push == <<"push", 0>>
Pop == <<"pop", 0>>
PopCatcher == <<"popCatcher", 0>>
ToDest(c, dest) == IF dest = "stack" THEN Emit(c, "push", 0) ELSE c

CBpushCleanup(c, record) == [c EXCEPT !.cleanups = <<record>> \o @]
CBpopCleanup(c) == [c EXCEPT !.cleanups = Tail(@)]

(* The code that takes a SPECIAL record off again. *)
PopSpecials(vars, times) ==
    <<Push, <<"pushLiteral", vars>>, <<"popBindings", 0>>, <<"drop", 1>>>>
        \o [i \in 1 .. times |-> <<"popSpecials", 0>>] \o <<Pop>>

RECURSIVE Compile(_, _, _)

CompileLiteral(v, dest, c) ==
    Emit(c, IF dest = "stack" THEN "pushLiteral" ELSE "literal", v)

CompileProgn(forms, dest, c) ==
    CASE Len(forms) = 0 -> CompileLiteral(Nil, dest, c)
      [] Len(forms) = 1 -> Compile(forms[1], dest, c)
      [] OTHER -> ToDest(FoldLeft(LAMBDA d, f : Compile(f, "eax", d), c, forms), dest)

CompileCall(f, dest, c) ==
    LET n == Len(f.forms)
        pushed == FoldLeft(LAMBDA d, g : Compile(g, "stack", d), c, f.forms)
        called == Emit(pushed, "call", <<f.names[1], n>>)
    IN  ToDest(IF n > 0 THEN Emit(called, "drop", n) ELSE called, dest)

CompileIf(f, dest, c) ==
    LET no == <<Len(c.code), "else">>
        tested == Emit(Compile(f.forms[1], "eax", c), "jumpNil", no)
    IN  ToDest(Emit(Compile(f.forms[2], "eax", tested), "label", no), dest)

CompileEq(f, dest, c) ==
    ToDest(Emit(Compile(f.forms[1], "stack", c), "popEq", f.names[1]), dest)

(* Where the record of a block or a tag is on the list of cleanups, or of *)
(* the lambda around it: 0 when there is neither.                          *)
FindBlock(c, b) ==
    SelectInSeq(c.cleanups,
                LAMBDA r : r.kind = "lambda" \/ (r.kind = "block" /\ r.label = b))

FindTag(c, t) ==
    SelectInSeq(c.cleanups,
                LAMBDA r : r.kind = "lambda" \/ (r.kind = "tagbody" /\ t \in r.tags))

RECURSIVE Leave(_, _)

(* Fault variant: a catcher that is left by a jump stays on the list. *)
LeaveKeepsCatcher(recs, c) ==
    IF recs = <<>> THEN c
    ELSE LET r == Head(recs)
             undone ==
                CASE r.kind = "special" -> Gen(c, PopSpecials(r.vars, 1))
                  [] r.kind = "unwind" ->
                        LET popped == [Gen(c, <<Push, PopCatcher>>) EXCEPT !.cleanups = r.outer]
                            done == Gen(CompileProgn(r.forms, "eax", popped), <<Pop>>)
                        IN  [done EXCEPT !.cleanups = c.cleanups]
                  [] OTHER -> c
         IN  Leave(Tail(recs), undone)

(* Inline what has to be undone before control leaves the forms that made  *)
(* the records recs, innermost first.                                      *)
Leave(recs, c) ==
    IF recs = <<>> THEN c
    ELSE LET r == Head(recs)
             undone ==
                CASE r.kind = "catch" -> Emit(c, "popCatcher", 0)
                  [] r.kind = "special" -> Gen(c, PopSpecials(r.vars, 1))
                  [] r.kind = "unwind" ->
                        LET popped == [Gen(c, <<Push, PopCatcher>>) EXCEPT !.cleanups = r.outer]
                            done == Gen(CompileProgn(r.forms, "eax", popped), <<Pop>>)
                        IN  [done EXCEPT !.cleanups = c.cleanups]
                  [] OTHER -> c
         IN  Leave(Tail(recs), undone)

(* Fault variant: one word too few is dropped. *)
JumpShort(c, depth, label) ==
    LET n == c.index - depth
        moved == IF n > 1 THEN [Emit(c, "drop", n - 1) EXCEPT !.index = c.index] ELSE c
    IN  [Emit(moved, "jump", label) EXCEPT !.bad = @ \/ n < 0]

(* Jump to a label where the stack is depth deep; the rest of the code at  *)
(* hand is compiled with the index unchanged.                              *)
Jump(c, depth, label) ==
    LET n == c.index - depth
        moved == IF n > 0 THEN [Emit(c, "drop", n) EXCEPT !.index = c.index] ELSE c
    IN  [Emit(moved, "jump", label) EXCEPT !.bad = @ \/ n < 0]

CompileThrow(f, c) ==
    LET tag == CompileLiteral(f.names[1], "stack", c)
    IN  Gen(Compile(f.forms[1], "eax", tag), <<Push, <<"throw", 0>>, <<"drop", 2>>>>)

CompileReturnFrom(f, dest, c) ==
    LET n == FindBlock(c, f.names[1])
        r == c.cleanups[n]
        recs == SubSeq(c.cleanups, 1, n - 1)
        value == Compile(f.forms[1], dest, c)
        save == \E i \in DOMAIN recs : recs[i].kind \in {"catch", "unwind", "special"}
        left == Leave(recs, IF save THEN Emit(value, "push", 0) ELSE value)
    IN  IF n = 0 \/ r.kind = "lambda"
        THEN LET outer == SelectInSeq(c.cleanups, LAMBDA q : q.kind = "block"
                                                            /\ q.label = f.names[1])
             IN  CompileThrow(Throw(c.cleanups[outer].sym, f.forms[1]), c)
        ELSE Jump(IF save THEN Emit(left, "pop", 0) ELSE left, r.depth, <<r.id, "end">>)

CompileGo(f, c) ==
    LET n == FindTag(c, f.names[1])
        r == c.cleanups[n]
    IN  IF n = 0 \/ r.kind = "lambda" THEN CompileThrow(Throw(f.names[1], Lit(f.names[1])), c)
        ELSE Jump(Leave(SubSeq(c.cleanups, 1, n - 1), c), r.depth, <<r.id, f.names[1]>>)

(* Is there, inside a lambda of f, a transfer to name (op is "return" or   *)
(* "go")?  An inner block of that label hides it; an inner tagbody does    *)
(* not.                                                                    *)
RECURSIVE Embedded(_, _, _, _)
Embedded(op, name, f, inside) ==
    \/ inside /\ f.op = op /\ f.names[1] = name
    \/ /\ ~(op = "return" /\ f.op = "block" /\ f.names[1] = name)
       /\ \E i \in DOMAIN f.forms : Embedded(op, name, f.forms[i], inside \/ f.op = "lambda")

(* f with those transfers replaced by throws to sym. *)
RECURSIVE Rerouted(_, _, _, _, _)
Rerouted(op, name, sym, f, inside) ==
    LET g == [f EXCEPT !.forms = [i \in DOMAIN @ |->
                            Rerouted(op, name, sym, @[i], inside \/ f.op = "lambda")]]
    IN  IF op = "return" /\ f.op = "block" /\ f.names[1] = name THEN f
        ELSE IF inside /\ f.op = op /\ f.names[1] = name
        THEN Throw(sym, IF op = "go" THEN Lit(sym) ELSE g.forms[1])
        ELSE g

Gensym(name, id) == name \o ToString(id)

(* (let ((sym (cons 0 0))) (catch sym ...)): sym is unique to the place. *)
CompileBlock(f, dest, c) ==
    LET b == f.names[1]
        id == Len(c.code)
        through == \E i \in DOMAIN f.forms : Embedded("return", b, f.forms[i], FALSE)
        sym == Gensym(b, id)
        inside == CBpushCleanup(c, [kind |-> "block", label |-> b, depth |-> c.index, id |-> id,
                                    sym |-> IF through THEN sym ELSE Nil])
        body == IF through
                THEN ToDest(Compile(Catch(sym, [i \in DOMAIN f.forms |->
                                Rerouted("return", b, sym, f.forms[i], FALSE)]), "eax", inside), dest)
                ELSE CompileProgn(f.forms, "eax", inside)
    IN  ToDest(Emit(CBpopCleanup(body), "label", <<id, "end">>), dest)

(* A form of a tagbody with a lambda that goes to tag t becomes            *)
(* (if (eq (catch sym form) sym) (go t)).                                  *)
TagbodyForm(f, tags, id) ==
    FoldLeft(LAMBDA g, t : LET sym == Gensym(t, id)
                           IN  IF Embedded("go", t, f, FALSE)
                               THEN If(Eq(Catch(sym, <<Rerouted("go", t, sym, g, FALSE)>>), sym),
                                       Go(t))
                               ELSE g, f, tags)

CompileTagbody(f, dest, c) ==
    LET id == Len(c.code)
        tags == SelectSeq(f.forms, LAMBDA g : g.op = "tag")
        names == [i \in DOMAIN tags |-> tags[i].names[1]]
        gos == Len(SelectSeq(f.forms, LAMBDA g : g.op = "go"))
        started == IF Len(tags) + gos = Len(f.forms) THEN CompileLiteral(Nil, "eax", c) ELSE c
        inside == CBpushCleanup(started, [kind |-> "tagbody", tags |-> TagsOf(f.forms),
                                          depth |-> c.index, id |-> id])
        body == FoldLeft(LAMBDA d, g : IF g.op = "tag" THEN Emit(d, "label", <<id, g.names[1]>>)
                                       ELSE Compile(TagbodyForm(g, names, id), "eax", d),
                         inside, f.forms)
    IN  IF Len(tags) = Len(f.forms) THEN CompileLiteral(Nil, dest, c)
        ELSE CBpopCleanup(ToDest(CompileLiteral(Nil, "eax", body), dest))

CompileCatch(f, dest, c) ==
    LET site == Len(c.code)
        next == <<site, "next">>
        tag == CompileLiteral(f.names[1], "stack",
                    Emit(CBpushCleanup(c, [kind |-> "catch"]), "pushLiteral", site))
        set == Gen(tag, <<<<"pushCatcher", 0>>, <<"drop", 2>>, <<"setjmp", site>>,
                          <<"jumpThrown", next>>>>)
        body == CBpopCleanup(Emit(CompileProgn(f.forms, "eax", set), "label", next))
    IN  ToDest(Gen(body, <<Push, PopCatcher, Pop>>), dest)

UnwindMarker == "unwind-marker"

(* Fault variant: the catcher is taken off after the cleanup forms. *)
CompileUnwindProtectLatePop(f, dest, c) ==
    LET site == Len(c.code)
        next == <<site, "next">>
        done == <<site, "done">>
        set == Gen(c, <<<<"pushLiteral", site>>, <<"pushLiteral", UnwindMarker>>,
                        <<"pushCatcher", 0>>, <<"drop", 2>>, <<"setjmp", site>>,
                        Push, <<"jumpThrown", next>>>>)
        inside == CBpushCleanup(set, [kind |-> "unwind", forms |-> Tail(f.forms),
                                      outer |-> set.cleanups])
        body == CBpopCleanup(Compile(f.forms[1], "eax", inside))
        cleanup == CompileProgn(Tail(f.forms), "eax", Gen(body, <<<<"label", next>>, Push>>))
        rethrow == Gen(cleanup, <<PopCatcher, Pop, <<"popSaved", done>>, <<"pushThrowTag", 0>>, Push,
                                  <<"throw", 0>>, <<"drop", 2>>, <<"label", done>>>>)
    IN  ToDest(rethrow, dest)

CompileUnwindProtect(f, dest, c) ==
    LET site == Len(c.code)
        next == <<site, "next">>
        done == <<site, "done">>
        set == Gen(c, <<<<"pushLiteral", site>>, <<"pushLiteral", UnwindMarker>>,
                        <<"pushCatcher", 0>>, <<"drop", 2>>, <<"setjmp", site>>,
                        Push, <<"jumpThrown", next>>>>)
        inside == CBpushCleanup(set, [kind |-> "unwind", forms |-> Tail(f.forms),
                                      outer |-> set.cleanups])
        body == CBpopCleanup(Compile(f.forms[1], "eax", inside))
        cleanup == CompileProgn(Tail(f.forms), "eax",
                        Gen(body, <<<<"label", next>>, Push, PopCatcher>>))
        rethrow == Gen(cleanup, <<Pop, <<"popSaved", done>>, <<"pushThrowTag", 0>>, Push,
                                  <<"throw", 0>>, <<"drop", 2>>, <<"label", done>>>>)
    IN  ToDest(rethrow, dest)

CompileLet(f, dest, c) ==
    LET vars == Reverse(f.names)
        pushed == FoldLeft(LAMBDA d, i : Emit(Emit(Compile(f.forms[i], "eax", d),
                                                   "pushLiteral", f.names[i]), "push", 0),
                           c, [i \in DOMAIN f.names |-> i])
        bound == Gen(CBpushCleanup(pushed, [kind |-> "special", vars |-> vars]),
                     <<<<"pushBindings", Len(vars)>>, <<"drop", 2 * Len(vars)>>,
                       <<"pushLiteral", vars>>, <<"establish", 0>>, <<"drop", 1>>>>)
        body == Gen(CompileProgn(Body(f), "eax", bound), PopSpecials(vars, 1))
    IN  ToDest(CBpopCleanup(body), dest)

CompileLetStar(f, dest, c) ==
    LET n == Len(f.names)
        Bind(d, i) ==
            Gen(CBpushCleanup(
                    Gen(Compile(f.forms[i], "eax", d),
                        <<<<"pushLiteral", f.names[i]>>, Push, <<"pushBindings", 1>>, <<"drop", 2>>>>),
                    [kind |-> "special", vars |-> <<f.names[i]>>]),
                <<<<"pushLiteral", <<f.names[i]>>>>, <<"establish", 0>>, <<"drop", 1>>>>)
        bound == FoldLeft(Bind, c, [i \in 1 .. n |-> i])
        body == Gen(CompileProgn(Body(f), "eax", bound), PopSpecials(Reverse(f.names), n))
    IN  ToDest([body EXCEPT !.cleanups = c.cleanups], dest)

(* A lambda has a code buffer of its own, with the records outside it      *)
(* still in sight behind a marker.                                         *)
CompileLambda(f, dest, c) ==
    LET id == Len(c.code)
        entry == <<id, "entry">>
        over == <<id, "over">>
        start == [Emit(c, "jump", over) EXCEPT !.index = 0]
        body == CompileProgn(f.forms, "eax",
                    CBpushCleanup(Emit(start, "label", entry), [kind |-> "lambda"]))
        back == Gen([Emit(body, "return", 0) EXCEPT !.index = c.index, !.cleanups = c.cleanups,
                                                    !.bad = @ \/ body.index # 0],
                    <<<<"label", over>>, <<"funcall", entry>>>>)
    IN  ToDest(back, dest)

Compile(f, dest, c) ==
    CASE f.op = "lit" -> CompileLiteral(f.names[1], dest, c)
      [] f.op = "ref" -> ToDest(Emit(c, "symbolValue", f.names[1]), dest)
      [] f.op = "again" -> ToDest(Emit(c, "again", 0), dest)
      [] f.op = "progn" -> CompileProgn(f.forms, dest, c)
      [] f.op = "call" -> CompileCall(f, dest, c)
      [] f.op = "if" -> CompileIf(f, dest, c)
      [] f.op = "eq" -> CompileEq(f, dest, c)
      [] f.op = "let" -> CompileLet(f, dest, c)
      [] f.op = "let*" -> CompileLetStar(f, dest, c)
      [] f.op = "block" -> CompileBlock(f, dest, c)
      [] f.op = "return" -> CompileReturnFrom(f, dest, c)
      [] f.op = "tagbody" -> CompileTagbody(f, dest, c)
      [] f.op = "go" -> CompileGo(f, c)
      [] f.op = "catch" -> CompileCatch(f, dest, c)
      [] f.op = "throw" -> CompileThrow(f, c)
      [] f.op = "unwind" -> CompileUnwindProtect(f, dest, c)
      [] f.op = "lambda" -> CompileLambda(f, dest, c)

(* The code of a whole program; its stack has to be even at the end. *)
CompileTop(program) ==
    LET c == Emit(Compile(program, "eax", NewCode(<<[kind |-> "lambda"]>>)), "halt", 0)
    IN  [c EXCEPT !.bad = @ \/ c.index # 0]

(***************************************************************************)
(* The machine.                                                            *)
(***************************************************************************)
VARIABLES
    program,    \* the form that is run
    code,       \* its code
    want,       \* its meaning
    ip,         \* the next instruction
    eax,
    stack,      \* grows at the end
    bp,         \* stack depth where the current function starts
    env,        \* jump buffers in the frames: where to resume, stack, frame
    runtime,    \* COMPILER_RUNTIME: catchers and special bindings, newest first
    binds,      \* bindings of each special variable, newest first
    throwTag,   \* THROW_TAG of this thread
    trace,      \* the calls so far
    again

vars == <<program, code, want, ip, eax, stack, bp, env, runtime, binds, throwTag, trace, again>>
fixed == <<program, code, want>>

Top == -1
TopRuntime == <<[kind |-> "catcher", tag |-> ErrorTag, site |-> Top, vars |-> <<>>]>>
Globals == [s \in Specials |-> <<GlobalValue(s)>>]

(* The loop that reads forms has established a handler for errors. *)
Init ==
    /\ program \in Programs
    /\ code = <<>>
    /\ want = [val |-> Nil, trace |-> <<>>]
    /\ ip = 0
    /\ eax = Nil
    /\ stack = <<>>
    /\ bp = 0
    /\ env = (Top :> [ip |-> 0, sp |-> 0, bp |-> 0])
    /\ runtime = TopRuntime
    /\ binds = Globals
    /\ throwTag = Nil
    /\ trace = <<>>
    /\ again = TRUE

(* A form that the compiler rejects has no code but the end. *)
CompileProgram ==
    /\ ip = 0
    /\ LET c == CompileTop(program)
       IN  code' = IF c.bad THEN Emit(NewCode(<<>>), "halt", 0).code ELSE c.code
    /\ want' = Meaning(program)
    /\ ip' = 1
    /\ env' = [env EXCEPT ![Top].ip = Len(code')]
    /\ UNCHANGED <<program, eax, stack, bp, runtime, binds, throwTag, trace, again>>

Op == IF ip = 0 THEN "start" ELSE code[ip].op
Arg == code[ip].arg
Halted == Op = "halt"

TopWord(n) == stack[Len(stack) - n]     \* the nth word below the top
Dropped(n) == SubSeq(stack, 1, Len(stack) - n)
Target(label) == CHOOSE i \in DOMAIN code : code[i].op = "label" /\ code[i].arg = label

Next1 == ip' = ip + 1
JumpIf(condition, label) == ip' = IF condition THEN Target(label) ELSE ip + 1

(* EAX: a literal, the value of a special variable, or the word on top. *)
Load ==
    /\ \/ Op = "literal" /\ eax' = Arg /\ UNCHANGED <<stack, again>>
       \/ Op = "symbolValue" /\ eax' = Head(binds[Arg]) /\ UNCHANGED <<stack, again>>
       \/ Op = "again" /\ eax' = (IF again THEN "t" ELSE Nil) /\ again' = FALSE /\ UNCHANGED stack
       \/ Op = "pop" /\ eax' = TopWord(0) /\ stack' = Dropped(1) /\ UNCHANGED again
       \/ /\ Op = "popEq"
          /\ eax' = IF TopWord(0) = Arg THEN "t" ELSE Nil
          /\ stack' = Dropped(1)
          /\ UNCHANGED again
    /\ Next1
    /\ UNCHANGED <<fixed, bp, env, runtime, binds, throwTag, trace>>

Store ==
    /\ \/ Op = "push" /\ stack' = Append(stack, eax)
       \/ Op = "pushLiteral" /\ stack' = Append(stack, Arg)
       \/ Op = "pushThrowTag" /\ stack' = Append(stack, throwTag)
       \/ Op = "drop" /\ stack' = Dropped(Arg)
    /\ Next1
    /\ UNCHANGED <<fixed, eax, bp, env, runtime, binds, throwTag, trace, again>>

Branch ==
    /\ \/ Op = "label" /\ Next1
       \/ Op = "jump" /\ ip' = Target(Arg)
       \/ Op = "jumpNil" /\ JumpIf(eax = Nil, Arg)
       \/ Op = "jumpThrown" /\ JumpIf(eax # Uninitialized, Arg)
    /\ UNCHANGED <<fixed, eax, stack, bp, env, runtime, binds, throwTag, trace, again>>

(* The end of an unwind-protect: was the cleanup entered by a throw? *)
TestSaved ==
    /\ Op = "popSaved"
    /\ stack' = Dropped(1)
    /\ JumpIf(TopWord(0) = Uninitialized, Arg)
    /\ UNCHANGED <<fixed, eax, bp, env, runtime, binds, throwTag, trace, again>>

CallFunction ==
    /\ Op = "call"
    /\ trace' = Append(trace, <<Arg[1], SubSeq(stack, Len(stack) - Arg[2] + 1, Len(stack))>>)
    /\ eax' = Arg[1]
    /\ Next1
    /\ UNCHANGED <<fixed, stack, bp, env, runtime, binds, throwTag, again>>

Funcalled ==
    /\ Op = "funcall"
    /\ stack' = stack \o <<ip + 1, bp>>
    /\ bp' = Len(stack')
    /\ ip' = Target(Arg)
    /\ UNCHANGED <<fixed, eax, env, runtime, binds, throwTag, trace, again>>

Returned ==
    /\ Op = "return"
    /\ ip' = stack[bp - 1]
    /\ bp' = stack[bp]
    /\ stack' = SubSeq(stack, 1, bp - 2)
    /\ UNCHANGED <<fixed, eax, env, runtime, binds, throwTag, trace, again>>

(* Write the jump buffer; execution resumes after it with EAX set. *)
Setjmp ==
    /\ Op = "setjmp"
    /\ eax' = Uninitialized
    /\ env' = (Arg :> [ip |-> ip + 1, sp |-> Len(stack), bp |-> bp]) @@ env
    /\ Next1
    /\ UNCHANGED <<fixed, stack, bp, runtime, binds, throwTag, trace, again>>

pushCatcher ==
    /\ Op = "pushCatcher"
    /\ runtime' = <<[kind |-> "catcher", tag |-> TopWord(0), site |-> TopWord(1),
                     vars |-> <<>>]>> \o runtime
    /\ Next1
    /\ UNCHANGED <<fixed, eax, stack, bp, env, binds, throwTag, trace, again>>

popCatcher ==
    /\ Op \in {"popCatcher", "popSpecials"}
    /\ runtime' = Tail(runtime)
    /\ Next1
    /\ UNCHANGED <<fixed, eax, stack, bp, env, binds, throwTag, trace, again>>

establishSpecialBindings ==
    /\ Op = "establish"
    /\ runtime' = <<[kind |-> "special", tag |-> Nil, site |-> Top,
                     vars |-> TopWord(0)]>> \o runtime
    /\ Next1
    /\ UNCHANGED <<fixed, eax, stack, bp, env, binds, throwTag, trace, again>>

(* Arg pairs of a symbol and a value are on the stack. *)
PushSpecialBindings ==
    /\ Op = "pushBindings"
    /\ binds' = FoldLeft(LAMBDA b, i : LET at == Len(stack) - 2 * Arg + 2 * i - 1
                                       IN  [b EXCEPT ![stack[at]] = <<stack[at + 1]>> \o @],
                         binds, [i \in 1 .. Arg |-> i])
    /\ Next1
    /\ UNCHANGED <<fixed, eax, stack, bp, env, runtime, throwTag, trace, again>>

(* A binding that is not there is not popped: only the global value is left. *)
PopDynamicBindings(b, symbols) ==
    FoldLeft(LAMBDA d, s : IF Len(d[s]) > 1 THEN [d EXCEPT ![s] = Tail(@)] ELSE d, b, symbols)

PopSpecialBindings ==
    /\ Op = "popBindings"
    /\ binds' = PopDynamicBindings(binds, TopWord(0))
    /\ eax' = Nil
    /\ Next1
    /\ UNCHANGED <<fixed, stack, bp, env, runtime, throwTag, trace, again>>

Catcher(tag) == SelectInSeq(runtime, LAMBDA f : f.kind = "catcher" /\ f.tag = tag)

(* The first entry that a throw to tag stops at. *)
Stop(tag) == SelectInSeq(runtime, LAMBDA f : f.kind = "catcher" /\ f.tag \in {tag, UnwindMarker})
ThrownTo(tag) == IF Catcher(tag) # 0 THEN tag ELSE ErrorTag

(* The bindings left when the entries above the nth are peeled off. *)
Peeled(n) ==
    FoldLeft(LAMBDA b, f : PopDynamicBindings(b, f.vars), binds, SubSeq(runtime, 1, n - 1))

(* longjmp to the nth entry. *)
Resume(n) ==
    LET regs == env[runtime[n].site]
    IN  /\ throwTag' = ThrownTo(TopWord(1))
        /\ eax' = IF Catcher(TopWord(1)) # 0 THEN TopWord(0) ELSE ErrorTag
        /\ runtime' = SubSeq(runtime, n, Len(runtime))
        /\ ip' = regs.ip
        /\ stack' = SubSeq(stack, 1, regs.sp)
        /\ UNCHANGED <<fixed, env, trace, again>>

(* Fault variant: the frame pointer is not restored. *)
Throw_ExceptionKeepsFrame ==
    LET to == Stop(ThrownTo(TopWord(1)))
    IN  Op = "throw" /\ Resume(to) /\ binds' = Peeled(to) /\ bp' = bp

(* Fault variant: the bindings above the catcher stay. *)
Throw_ExceptionKeepsBindings ==
    LET to == Stop(ThrownTo(TopWord(1)))
    IN  Op = "throw" /\ Resume(to) /\ binds' = binds /\ bp' = env[runtime[to].site].bp

(* Fault variant: a throw goes straight to its catcher. *)
Throw_ExceptionPastCleanup ==
    LET to == Catcher(ThrownTo(TopWord(1)))
    IN  Op = "throw" /\ Resume(to) /\ binds' = Peeled(to) /\ bp' = env[runtime[to].site].bp

(* Find the catcher, or signal an error, which throws to the handler.      *)
(* Then peel off the entries above it, up to an unwind-protect on the way. *)
Throw_Exception ==
    LET to == Stop(ThrownTo(TopWord(1)))
    IN  Op = "throw" /\ Resume(to) /\ binds' = Peeled(to) /\ bp' = env[runtime[to].site].bp

Step ==
    \/ Load \/ Store \/ Branch \/ TestSaved
    \/ CallFunction \/ Funcalled \/ Returned
    \/ Setjmp \/ pushCatcher \/ popCatcher \/ establishSpecialBindings
    \/ PushSpecialBindings \/ PopSpecialBindings \/ Throw_Exception

Next == CompileProgram \/ Step

(* Code that runs goes on: its thread is not paused for good. *)
Spec == Init /\ [][Next]_vars /\ WF_vars(Step)

(***************************************************************************)
(* Properties.                                                             *)
(***************************************************************************)
(* Types of the machine's state. *)
TypeOK ==
    /\ ip \in 0 .. Len(code)
    /\ bp \in 0 .. Len(stack)
    /\ \A i \in DOMAIN runtime : runtime[i].kind \in {"catcher", "special"}
    /\ DOMAIN binds = Specials /\ \A s \in Specials : binds[s] # <<>>
    /\ again \in BOOLEAN

(* Whatever combination of transfers a program makes, its compiled form    *)
(* returns the value and makes the calls, with the arguments and in the    *)
(* order, that the forms mean: cleanup forms run once, on the way out,     *)
(* with the bindings of where they stand (Compx86.cpp compile...Form).     *)
AsEvaluated == Halted => eax = want.val /\ trace = want.trace

(* When a program ends, by itself or by an error, it has taken off every   *)
(* catcher, special binding and word of the stack that it put on.          *)
Balanced == Halted => runtime = TopRuntime /\ binds = Globals /\ stack = <<>>

(* The compiler knows at every instruction how much of the stack is in     *)
(* use, on whichever path it was reached: fallen into, jumped to or        *)
(* thrown to.  A transfer out of a form adjusts the stack by this number   *)
(* (before its jump, where the index already counts for what follows).     *)
StackIndexAgrees == Op \notin {"start", "jump"} => Len(stack) - bp = code[ip].at

(* Each catcher's jump buffer belongs to a frame that is still on the      *)
(* stack, and the catchers are on the list in the order of their frames:   *)
(* a throw never resumes a function that has been left.  (A catcher has    *)
(* no jump buffer yet, or an old one, until the code after %PUSH_CATCHER   *)
(* has filled it.)                                                         *)
CatchersLive ==
    LET catchers == SelectSeq(runtime, LAMBDA f : f.kind = "catcher")
        regs == [i \in DOMAIN catchers |-> env[catchers[i].site]]
    IN  Op \in {"call", "throw"} =>
            \A i \in DOMAIN regs :
                /\ regs[i].sp <= Len(stack) /\ regs[i].bp <= bp
                /\ i > 1 => regs[i].sp <= regs[i - 1].sp /\ regs[i].bp <= regs[i - 1].bp

(* Whenever other code is called or a throw begins, a special variable has *)
(* as many bindings as the runtime list has entries for it: a throw from   *)
(* there takes off exactly the bindings made above the catcher.            *)
BindingsCovered ==
    Op \in {"call", "throw", "funcall"} =>
        \A s \in Specials :
            Len(binds[s]) = 1 + Len(SelectSeq(FlattenSeq([i \in DOMAIN runtime |-> runtime[i].vars]),
                                              LAMBDA v : v = s))

(* A program that has been started ends: no transfer of control takes it   *)
(* back to cleanup forms, or to a catcher, that it has already left.       *)
Ends == Op # "start" ~> Halted

=============================================================================
