----------------------------- MODULE MCRetention -----------------------------
(* Instances of Retention for model checking.                               *)
EXTENDS Retention

\* Two tasks, one with a name that begins with the other's.
MCNames   == {"world", "world_full"}
MCExtends == {<<"world", "world_full">>}

\* The first is pruned by age down to two and has a cap, the second by age.
MCRetain == [n \in MCNames |-> IF n = "world" THEN 4 ELSE 2]
MCMin    == [n \in MCNames |-> IF n = "world" THEN 2 ELSE 0]
MCMax    == [n \in MCNames |-> IF n = "world" THEN 3 ELSE 0]

\* What earlier backups left, one of them when the panel died.
Archive(name, second, mod, content) ==
  [name |-> name, second |-> second, mod |-> mod, content |-> content]
MCEarlier == {Archive("world", 0, 0, "whole"), Archive("world", 1, 2, "part"),
              Archive("world_full", 1, 3, "whole")}
=============================================================================
