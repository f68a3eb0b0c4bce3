--------------------------- MODULE MC_EventExecute ---------------------------
(* Four scripts: two plain rows, one of them of another device; two methods and a failure in one
   row; a scene that runs the first script before a row of its own; a scene that runs itself.  The
   script 0 has no rows. *)
EXTENDS EventExecute

Do(kind) == [kind |-> kind, scene |-> 0]
Scene(s) == [kind |-> "scene", scene |-> s]
Own(methods) == [own |-> TRUE, methods |-> methods]
OtherRow == [own |-> FALSE, methods |-> <<Do("on")>>]

SomeRows == <<
    <<OtherRow, Own(<<Do("on")>>)>>,
    <<Own(<<Do("other"), Do("fails")>>)>>,
    <<Own(<<Scene(1)>>), Own(<<Do("other")>>)>>,
    <<Own(<<Scene(4)>>)>>>>

SomeTable == [s \in 0 .. 4 |-> IF s = 0 THEN <<>> ELSE SomeRows[s]]

=============================================================================
