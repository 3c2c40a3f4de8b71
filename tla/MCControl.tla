----------------------------- MODULE MCControl -----------------------------
(***************************************************************************)
(* The programs that TLC compiles and runs: a transfer of control inside   *)
(* up to three forms, in a block B, a catch X and a tagbody with tag A.    *)
(***************************************************************************)
EXTENDS Control

Call0(f) == Call(f, <<>>)

Leaves ==
    {Call("f", <<Ref("s")>>), ReturnFrom("b", Lit("1")), ReturnFrom("b", Call("g", <<Ref("s")>>)),
     Go("a"), Throw("x", Ref("s")), Throw("y", Lit("2"))}

(* Forms that leave their value on the stack as the call expects; the      *)
(* others (see StackIndexAgrees in the README) are no arguments here.      *)
SafeArgument(e) ==
    /\ e.op \notin {"return", "go", "throw"}
    /\ ~(e.op = "block" /\ \E i \in DOMAIN e.forms : Embedded("return", "b", e.forms[i], FALSE))
    /\ ~(e.op = "progn" /\ Len(e.forms) = 1)

(* A transfer that meets another one in a cleanup form. *)
Meeting == {UnwindProtect(e, <<c>>) : e, c \in Leaves}

Around(e) ==
    {Let(<<"s">>, <<Lit("v")>>, <<e>>),
     UnwindProtect(e, <<Call("c", <<Ref("s")>>)>>),
     Funcall(<<e>>),
     Catch("x", <<e, Call0("h")>>)}

More(e) ==
    {Let(<<"s", "u">>, <<Lit("v"), Ref("s")>>, <<e, Call("f", <<Ref("u")>>)>>),
     Let(<<"s", "u">>, <<Lit("v"), e>>, <<Call("f", <<Ref("u")>>)>>),
     LetStar(<<"s", "u">>, <<Lit("v"), e>>, <<Call("f", <<Ref("u")>>)>>),
     LetStar(<<"s", "s">>, <<Lit("v"), Ref("s")>>, <<e>>),
     UnwindProtect(Call0("p"), <<e, Call("c", <<Ref("s")>>)>>),
     Catch("y", <<e>>),
     Block("b", <<e, Call0("h")>>),
     Tagbody(<<e, Tag("d"), Call0("h")>>)}
    \union IF SafeArgument(e) THEN {Call("k", <<Lit("0"), e, Ref("s")>>)} ELSE {}

Program(e) ==
    Block("b", <<Catch("x", <<Tagbody(<<Tag("a"), If(Again, e), Call("t", <<Ref("s")>>)>>),
                              Call0("n")>>)>>)

Within(forms) == UNION {Around(e) : e \in forms}
Inside(forms) == Within(forms) \union UNION {More(e) : e \in forms}

MCPrograms ==
    {Program(e) : e \in Inside(Leaves \union Meeting) \union Inside(Inside(Leaves))
                            \union Within(Within(Within(Leaves \union Meeting)))}

(* Cleanup forms that complete a throw of their own, as IGNORE-ERRORS and  *)
(* a RETURN-FROM out of a lambda do.                                       *)
MCCleanupPrograms ==
    {Program(UnwindProtect(e, <<Catch("y", <<Throw("y", Lit("2"))>>)>>)) : e \in Leaves}
        \union {Program(UnwindProtect(e, <<Block("d", <<Funcall(<<ReturnFrom("d", Lit("5"))>>)>>)>>))
                    : e \in Leaves}

=============================================================================
