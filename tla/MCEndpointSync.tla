--------------------------- MODULE MCEndpointSync ---------------------------
(* Small instances of EndpointSync for TLC. *)
EXTENDS EndpointSync

CONSTANTS nova, glance, old, new, newer, One, Two, admin, public, http, https

K(n, d) == [name |-> n, desc |-> d]
O(n, d, r, i, u) == [key |-> K(n, d), region |-> r, interface |-> i, url |-> u]
E(n, s, r, i, u) == [id |-> n, srv |-> s, region |-> r, interface |-> i, url |-> u]
OneRegion == One :> [parent |-> NoParent, desc |-> old]
TwoRegions == (One :> [parent |-> NoParent, desc |-> new])
              @@ (Two :> [parent |-> One, desc |-> old])
Wanted(rs, ss, os) == [regions |-> rs, services |-> ss, offers |-> os]
Catalog(ss, es, rs) == [services |-> ss, endpoints |-> es, regions |-> rs]

Both(n, d, u) == {O(n, d, One, admin, u), O(n, d, One, public, u)}
NovaOnly == Wanted(OneRegion, {K(nova, old)}, Both(nova, old, http))
NovaNewer == Wanted(OneRegion, {K(nova, newer)}, Both(nova, newer, http))
WithGlance == Wanted(OneRegion, {K(nova, old), K(glance, old)},
                     Both(nova, old, http) \cup {O(glance, old, One, public, http)})
GlanceHttps == Wanted(TwoRegions, {K(nova, old), K(glance, old)},
                      {O(glance, old, One, public, https)})
InTwo == Wanted(TwoRegions, {K(nova, old)},
                {O(nova, old, One, public, http), O(nova, old, Two, public, http)})
MCWants == {NovaOnly, NovaNewer, WithGlance, GlanceHttps, InTwo}

Nothing == Catalog(<<>>, {}, Empty)
\* As keystone's own bootstrap leaves it: another description.
TwoDescs == Catalog(<<K(nova, old), K(nova, new)>>,
                    {E(1, 1, One, public, http), E(2, 2, One, admin, http)}, OneRegion)
Double == Catalog(<<K(nova, old), K(nova, old)>>,
                  {E(1, 1, One, public, http), E(2, 1, One, admin, http),
                   E(3, 1, One, admin, https)}, OneRegion)
DoubleServing == Catalog(<<K(nova, old), K(nova, old)>>,
                         {E(1, 1, One, public, http), E(2, 2, One, public, http),
                          E(3, 2, One, admin, http)}, OneRegion)
MCCatalogs == {Nothing, TwoDescs, Double, DoubleServing}

\* In the order of their creation, and the other way round.
MCOrders == {[i \in 1 .. MaxEndpoints |-> i], [i \in 1 .. MaxEndpoints |-> MaxEndpoints + 1 - i]}

=============================================================================
