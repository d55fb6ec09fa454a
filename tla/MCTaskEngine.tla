---------------------------- MODULE MCTaskEngine ----------------------------
(* Small instances of TaskEngine for TLC. *)
EXTENDS TaskEngine

CONSTANTS a, b, c, d

Want(S) == [kind |-> "want", tasks |-> S]
Need(S) == [kind |-> "need", tasks |-> S]
WorkStep == [kind |-> "work", tasks |-> {}]

MCTask == {a, b, c, d}

(* The shape of keystone.py: b asks early for d, that a waits for as well, *)
(* both wait for c in the end, and c and d are shared by two waiters.      *)
MCBody ==
  [w \in MCTask \cup {Main} |->
     CASE w = Main -> <<Want({a, b})>>
       [] w = a    -> <<Want({c, d}), WorkStep>>
       [] w = b    -> <<Need({d}), WorkStep, Want({c, d})>>
       [] w = c    -> <<WorkStep>>
       [] w = d    -> <<Want({c})>>]

=============================================================================
