----------------------------- MODULE MCUserSync -----------------------------
(***************************************************************************)
(* Two domains: one with a project, a group and three users, two of them   *)
(* for one child, and one with a user alone.  Keystone has what an older   *)
(* deployment left: a user with a role and a group to keep, and a role and *)
(* a record no longer wanted, and one with a role to lose.                 *)
(***************************************************************************)
EXTENDS UserSync, TLC

CONSTANTS d1, d2, p1, g1, u1, u2, u3, u4, r1, r2, empty, text, m1, m2

MCDomain == {d1, d2}
MCProject == {p1}
MCGroup == {g1}
MCUser == {u1, u2, u3, u4}
MCRole == {r1, r2}
MCDesc == {empty, text}
MCEmail == {m1, m2}

UserRec(email, gr, mem) == [email |-> email, grants |-> gr, member_of |-> mem]
Dom(d, p, g, u) == [domain |-> d, projects |-> p, groups |-> g, users |-> u]
Nothing == <<>>

Alone == Dom(d2, Nothing, Nothing, u3 :> UserRec(m1, {}, {}))
Full == Dom(d1, p1 :> text, g1 :> text,
            u1 :> UserRec(m1, {<<p1, r1>>, <<d1, r2>>}, {g1}) @@ u2 :> UserRec(m2, {}, {}) @@ u4 :> UserRec(m1, {}, {}))
\* a group before any project
GroupFirst == Dom(d2, Nothing, g1 :> text, u3 :> UserRec(m1, {}, {g1}))
\* a role in a project and a group that no domain has
Undefined == Dom(d2, Nothing, Nothing, u3 :> UserRec(m1, {<<p1, r1>>}, {}))
UndefinedGroup == Dom(d2, Nothing, Nothing, u3 :> UserRec(m1, {}, {g1}))

MCWants == {<<Full, Alone>>, <<GroupFirst>>, <<Undefined>>, <<UndefinedGroup>>}

OldServer ==
  [objects |-> d1 :> text @@ p1 :> empty @@ g1 :> empty,
   users |-> u1 :> m2 @@ u4 :> m1,
   roles |-> {r1},
   grants |-> {<<u1, p1, r1>>, <<u1, d1, r1>>, <<u4, p1, r1>>},
   members |-> {<<u1, g1>>}]
MCServers == {OldServer}
=============================================================================
