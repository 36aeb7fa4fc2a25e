---------------------------- MODULE MCRestModules ----------------------------
(***************************************************************************)
(* A root, modules A, B and C, a dynamic module D, an append of C with a   *)
(* path, and the hosts of two aspects: rest, and another one that gives    *)
(* its own host an aspect which imports module X.                          *)
(***************************************************************************)
EXTENDS RestModules

A == 2
B == 3
C == 4
D == 5
CAppended == 6
RestHost == 7
OtherHost == 8
X == 9
MCHost == [rest |-> RestHost, other |-> OtherHost]
MCHostImports == [rest |-> Unset, other |-> [imports |-> <<X>>]]

Params(path, absolute, guards) == [path |-> path, absolute |-> absolute, guards |-> guards]
Plain(imports, inherits) == [aspects |-> <<>>, imports |-> imports, inherits |-> inherits]
With(aspects, imports) == [aspects |-> aspects, imports |-> imports, inherits |-> TRUE]
Rests(imports, appends, controllers) ==
    [id |-> "rest", imports |-> imports, appends |-> appends, controllers |-> controllers]
Other(imports) == [id |-> "other", imports |-> imports, appends |-> <<>>, controllers |-> FALSE]
Direct(r) == [ref |-> r, wrapped |-> FALSE, params |-> NoParams]
Wrapped(r, p) == [ref |-> r, wrapped |-> TRUE, params |-> p]

Roots == {
    Plain(<<A, B>>, TRUE),
    With(<<Rests(<<Direct(A), Direct(B)>>, <<>>, TRUE)>>, <<>>),
    With(<<Rests(<<Wrapped(D, Params("r", "none", <<"g">>)), Direct(A)>>, <<>>, TRUE)>>, <<B>>),
    With(<<Rests(<<>>, <<CAppended>>, FALSE), Other(<<Direct(D)>>)>>, <<A, B>>),
    With(<<Rests(<<Direct(A)>>, <<>>, TRUE), Other(<<>>)>>, <<>>)}
As == {
    Plain(<<C>>, TRUE), Plain(<<D, B>>, FALSE),
    With(<<Rests(<<Wrapped(D, Params("a", "none", <<"g", "h">>)), Direct(C)>>, <<>>, TRUE)>>, <<>>),
    With(<<Rests(<<Wrapped(D, Params("none", "a", <<"h">>))>>, <<C>>, TRUE)>>, <<>>),
    With(<<Other(<<>>), Rests(<<Direct(D)>>, <<>>, FALSE)>>, <<C>>)}
Bs == {
    Plain(<<C>>, TRUE),
    With(<<Rests(<<>>, <<CAppended>>, TRUE)>>, <<>>),
    With(<<Rests(<<Direct(D)>>, <<C>>, FALSE)>>, <<>>),
    With(<<Other(<<>>)>>, <<C, D>>)}
Cs == {Plain(<<>>, TRUE), With(<<Rests(<<>>, <<>>, TRUE)>>, <<>>)}
Ds == {
    [class |-> Plain(<<C>>, FALSE), params |-> Params("none", "none", <<"k">>)],
    [class |-> With(<<Rests(<<>>, <<C>>, TRUE)>>, <<B>>), params |-> NoParams],
    [class |-> With(<<Rests(<<>>, <<CAppended>>, TRUE)>>, <<A>>), params |-> NoParams],
    [class |-> With(<<Rests(<<>>, <<>>, TRUE)>>, <<>>), params |-> Params("d", "none", <<"k">>)]}

Library == Plain(<<>>, FALSE)
Ref(class, dynamic, params) == [class |-> class, dynamic |-> dynamic, params |-> params]
App(root, a, b, c, d, appended) ==
    [classes |-> [root |-> root, a |-> a, b |-> b, c |-> c, d |-> d.class, library |-> Library,
                  x |-> Plain(<<>>, TRUE)],
     refs |-> <<Ref("root", FALSE, NoParams), Ref("a", FALSE, NoParams), Ref("b", FALSE, NoParams),
                Ref("c", FALSE, NoParams), Ref("d", TRUE, d.params),
                Ref("c", TRUE, appended),
                Ref("library", FALSE, NoParams), Ref("library", FALSE, NoParams), Ref("x", FALSE, NoParams)>>]
Appended == {Params("c", "none", <<"k">>), Params("none", "c", <<>>)}
MCApps == {App(root, a, b, c, d, p) : root \in Roots, a \in As, b \in Bs, c \in Cs, d \in Ds, p \in Appended}
=============================================================================
