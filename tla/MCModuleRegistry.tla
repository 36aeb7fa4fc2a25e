-------------------------- MODULE MCModuleRegistry --------------------------
(* Five modules: the root imports a; b imports and re-exports c; c imports  *)
(* b back (a cycle); d imports nothing and is malformed.  b and c provide   *)
(* one token, a and c another, for which the root has decided on a, the     *)
(* root and c a third.                                                      *)
EXTENDS ModuleScan

CONSTANTS root, a, b, c, d, t1, t2, t3

MCMod == {root, a, b, c, d}
MCImports == [m \in MCMod |->
    CASE m = root -> {a} [] m = b -> {c} [] m = c -> {b} [] OTHER -> {}]
MCExports == [m \in MCMod |-> IF m = b THEN {c} ELSE {}]
MCWithId == {a, c}
MCPerApp == {root, a, b, c}
MCMalformed == {d}
MCRequests == {<<a, root>>, <<b, a>>, <<c, a>>, <<c, b>>, <<d, b>>}

MCToken == {t1, t2, t3}
MCDeclares == [m \in MCMod |->
    CASE m = root -> {t3} [] m = a -> {t2} [] m = b -> {t1} [] m = c -> {t1, t2, t3}
      [] OTHER -> {}]
MCResolved == [T \in {t2} |-> a]
=============================================================================
