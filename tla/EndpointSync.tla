---------------------------- MODULE EndpointSync ----------------------------
(***************************************************************************)
(* endpoint_sync of slos/ossync.py: the services, endpoints and regions of *)
(* keystone are made equal to what the components have registered.         *)
(*                                                                         *)
(* A sync lists the catalog, then removes double services, creates missing *)
(* services, creates and updates regions, brings the endpoints of every    *)
(* service in line, and last deletes the services and regions nobody asked *)
(* for.  It works on what it listed: what it does next never depends on    *)
(* the catalog but on local dictionaries, which it maintains as it goes.   *)
(* Any call of the API may fail; the sync then raises and the deployment   *)
(* fails, and a later one syncs again, maybe with other components.  With  *)
(* dry_run the sync returns True in place of its first call.               *)
(*                                                                         *)
(* The state between two calls is a step: calls is what the current part   *)
(* of the sync has still to call.                                          *)
(***************************************************************************)
EXTENDS Naturals, FiniteSets, Sequences, SequencesExt

CONSTANTS
  Name,          \* name and type of a service
  Desc,          \* descriptions of services
  Region, RegionDesc, NoParent,
  Interface, Url,
  Wants,         \* what may be registered when a sync is started
  Catalogs,      \* catalogs a first sync may find
  MaxServices, MaxEndpoints,  \* bounds: ids of services and endpoints
  Orders,        \* bound: the orders of ids in the lists that are tried
  MaxSyncs       \* bound: how often the deployment runs

Key == [name: Name, desc: Desc]
ServiceId == 1 .. MaxServices
Endpoint == [id: 1 .. MaxEndpoints, srv: ServiceId, region: Region,
             interface: Interface, url: Url]
Offer == [key: Key, region: Region, interface: Interface, url: Url]
RegionRec == [parent: Region \cup {NoParent}, desc: RegionDesc]

IsPartialFcn(f, S, T) == DOMAIN f \subseteq S /\ f \in [DOMAIN f -> T]

\* f with the value y for x.
With(f, x, y) == [z \in DOMAIN f \cup {x} |-> IF z = x THEN y ELSE f[z]]

ASSUME BoundsAssumption ==
  MaxServices \in Nat /\ MaxEndpoints \in Nat /\ MaxSyncs \in Nat /\ MaxServices <= MaxEndpoints

\* all ids, each of them once
ASSUME OrdersAssumption ==
  \A ids \in Orders :
    /\ ids \in [1 .. MaxEndpoints -> 1 .. MaxEndpoints]
    /\ ToSet(ids) = 1 .. MaxEndpoints
    /\ \A i, j \in DOMAIN ids : ids[i] = ids[j] => i = j

\* An endpoint is of a service that is there, and its id is its own.
IsCatalog(ss, es, rs) ==
  /\ IsPartialFcn(ss, ServiceId, Key)
  /\ es \subseteq Endpoint
  /\ \A e \in es : e.srv \in DOMAIN ss
  /\ \A e, f \in es : e.id = f.id => e = f
  /\ IsPartialFcn(rs, Region, RegionRec) /\ IsFiniteSet(DOMAIN rs)

ASSUME CatalogsAssumption ==
  \A c \in Catalogs : IsCatalog(c.services, c.endpoints, c.regions)

\* What the sanity checks before the first change let pass: a parent is
\* registered too, a service has one description per region.
ASSUME WantsAssumption ==
  \A w \in Wants :
    /\ IsPartialFcn(w.regions, Region, RegionRec) /\ IsFiniteSet(DOMAIN w.regions)
    /\ \A r \in DOMAIN w.regions : w.regions[r].parent \in DOMAIN w.regions \cup {NoParent}
    /\ w.services \subseteq Key /\ IsFiniteSet(w.services)
    /\ w.offers \subseteq Offer /\ IsFiniteSet(w.offers)
    /\ \A o, p \in w.offers :
         /\ o.key \in w.services /\ o.region \in DOMAIN w.regions
         /\ o.key.name = p.key.name /\ o.region = p.region =>
              /\ o.key = p.key
              /\ o.interface = p.interface => o = p

VARIABLES
  services, endpoints, regions,  \* the catalog; the server's, all others
                                 \* belong to the sync
  phase,     \* the part of endpoint_sync that runs, or how it ended
  want,      \* the argument regions
  final,     \* final_endpoint_dict
  dry,       \* dry_run
  changed,
  seen,      \* existing_srv_dict: the listed services
  endps,     \* endp_dict: the listed endpoints, in the order of the list
  srv_dict,
  spare,     \* is_srv_desc_diff_only: a service of that name
  calls,     \* the calls still to be made in this phase
  syncs,     \* how often endpoint_sync was called
  start      \* of the catalog at its start: which endpoints were there that
             \* are wanted, was it regular, repeatable, without doubles

catalog == <<services, endpoints, regions>>
listing == <<seen, endps, srv_dict, spare>>
args == <<want, final, dry, syncs, start>>
vars == <<catalog, phase, changed, listing, calls, args>>

NotRunning == {"idle", "returned", "raised"}
Running == {"double", "services", "regions", "endpoints", "extra services",
            "extra regions"}

-----------------------------------------------------------------------------
(* What a catalog should be.                                               *)

EndpointsOf(id) == {e \in endpoints : e.srv = id}
OfferOf(e) == [key |-> services[e.srv], region |-> e.region,
               interface |-> e.interface, url |-> e.url]

\* No service and no endpoint is there twice.
NoDouble ==
  /\ \A s, t \in DOMAIN services : services[s] = services[t] => s = t
  /\ \A e, f \in endpoints :
       e.srv = f.srv /\ e.region = f.region /\ e.interface = f.interface
         => e = f

Reached(w) ==
  /\ regions = w.regions
  /\ {services[s] : s \in DOMAIN services} = w.services
  /\ {OfferOf(e) : e \in endpoints} = w.offers
  /\ NoDouble

\* An endpoint of s is for the interface of o; the one there is for it.
HasCands(s, o) == \E e \in EndpointsOf(s) : e.interface = o.interface
HasMatch(s, o) == \E e \in EndpointsOf(s) : e.interface = o.interface /\ e.url = o.url

\* s is the service of o, or may be given its description.
MayServe(s, o) ==
  \/ services[s] = o.key
  \/ /\ services[s].name = o.key.name
     /\ \E t \in DOMAIN services : t # s /\ services[t].name = o.key.name
     /\ \A t \in DOMAIN services : services[t] # o.key

GetsUrl(s, o) == MayServe(s, o) /\ HasCands(s, o) /\ ~ HasMatch(s, o)

\* A service has one description, and of double services one only has
\* endpoints.
OneDesc(w) == \A k, l \in w.services : k.name = l.name => k = l
OneServing == \A e, f \in endpoints : services[e.srv] = services[f.srv] => e.srv = f.srv

\* A service is and remains in one region.
InOneRegion(w) ==
  /\ \A e, f \in endpoints : services[e.srv].name = services[f.srv].name => e.region = f.region
  /\ \A o, p \in w.offers : o.key.name = p.key.name => o.region = p.region
  /\ \A e \in endpoints : \A o \in w.offers :
       services[e.srv].name = o.key.name => e.region = o.region

\* An endpoint that gets another URL is the only one its service has; for a sync
\* that may fail, also the only one its service is to have.
HasOne(s) == \A e, f \in EndpointsOf(s) : e = f
IsAlone(w, o) == \A p \in w.offers : p.key = o.key => p = o

\* When a sync can be relied on, and when that remains so if it fails.
Regular(w) ==
  /\ OneDesc(w) /\ OneServing /\ InOneRegion(w)
  /\ \A s \in DOMAIN services : \A o \in w.offers : GetsUrl(s, o) => HasOne(s)
Repeatable(w) ==
  /\ Regular(w)
  /\ \A s \in DOMAIN services : \A o \in w.offers : GetsUrl(s, o) => IsAlone(w, o)

Empty == [x \in {} |-> x]
Start(w) == [serving |-> {e \in endpoints : OfferOf(e) \in w.offers},
             regular |-> Regular(w), repeatable |-> Repeatable(w),
             unique |-> NoDouble]

Init ==
  /\ \E c \in Catalogs : /\ services = c.services
                         /\ endpoints = c.endpoints
                         /\ regions = c.regions
  /\ phase = "idle"
  /\ want \in Wants /\ final = {}
  /\ dry = FALSE /\ changed = FALSE
  /\ seen = Empty /\ endps = <<>> /\ srv_dict = Empty /\ spare = Empty
  /\ calls = <<>>
  /\ syncs = 0
  /\ start = Start(want)

-----------------------------------------------------------------------------
(* The parts of a sync as the calls they are going to make.                *)

\* The elements of list that are in S, in their order.
Those(list, S) ==
  FlattenSeq([i \in DOMAIN list |-> IF list[i] \in S THEN <<list[i]>> ELSE <<>>])

KeyError == [op |-> "KeyError"]
DeleteCalls(list) ==
  [i \in DOMAIN list |-> [op |-> "delete endpoint", id |-> list[i].id]]
CreateCall(o) == [op |-> "create endpoint", offer |-> o]

\* The endpoints of a region replace those of the region before it.
Finals(w) ==
  {{o \in w.offers : o.region = last[o.key]} :
     last \in {f \in [w.services -> Region] :
                 \A o \in w.offers :
                   \E p \in w.offers : p.key = o.key /\ p.region = f[o.key]}}

\* Of equal services the first in the list with the most endpoints is kept.
Kept(order) ==
  LET Endps(i) == Cardinality(EndpointsOf(order[i])) IN
  {order[i] : i \in {j \in DOMAIN order : \A k \in DOMAIN order :
     services[order[k]] = services[order[j]] =>
       \/ k = j
       \/ Endps(k) < Endps(j)
       \/ Endps(k) = Endps(j) /\ j < k}}

\* The others are deleted with their endpoints.  The endpoint that is taken
\* out of endp_dict each time is the last one of the list: the second time
\* it is not there.
DoubleCalls(order, list) ==
  LET Removal(s) == Append(DeleteCalls(Those(list, EndpointsOf(s))),
                           [op |-> "delete service", id |-> s])
      extra == Those(order, DOMAIN services \ Kept(order))
      all == FlattenSeq([i \in DOMAIN extra |-> Removal(extra[i])])
      Second(i) == /\ all[i].op = "delete endpoint"
                   /\ Cardinality({j \in 1 .. i : all[j].op = all[i].op}) = 2
  IN IF \E i \in DOMAIN all : Second(i)
     THEN SubSeq(all, 1, CHOOSE i \in DOMAIN all : Second(i)) \o <<KeyError>>
     ELSE all

\* Faulty variant: without a look at what is there.
MissingServicesAll == want.services

MissingServices == want.services \ DOMAIN srv_dict

ServiceCalls ==
  {[i \in DOMAIN order |->
      [op |-> IF order[i].name \in DOMAIN spare
              THEN "update service" ELSE "create service",
       key |-> order[i]]] : order \in SetToSeqs(MissingServices)}

RegionCall(r) ==
  IF r \notin DOMAIN regions THEN <<[op |-> "create region", region |-> r]>>
  ELSE IF regions[r] # want.regions[r]
  THEN <<[op |-> "update region", region |-> r]>>
  ELSE <<>>

\* Every region after its parent.
RegionCalls ==
  {FlattenSeq([i \in DOMAIN order |-> RegionCall(order[i])]) :
     order \in {s \in SetToSeqs(DOMAIN want.regions) : \A i \in DOMAIN s :
       want.regions[s[i]].parent \in DOMAIN regions \cup {NoParent}
                                     \cup {s[j] : j \in 1 .. i - 1}}}

Cands(list, o) == Those(list, {e \in ToSet(list) : e.interface = o.interface})
Matches(list, o) == Those(list, {e \in ToSet(list) : e.interface = o.interface /\ e.url = o.url})

\* Faulty variant: an endpoint that matches is deleted with the others.
StaysIfChanged(list, o) ==
  IF Matches(list, o) = <<>> /\ Cands(list, o) # <<>>
  THEN {Head(Cands(list, o)).id} ELSE {}

\* The endpoint that stays for an offer.
Stays(list, o) ==
  IF Matches(list, o) # <<>> THEN {Last(Matches(list, o)).id}
  ELSE IF Cands(list, o) # <<>> THEN {Head(Cands(list, o)).id} ELSE {}

\* Faulty variant: another endpoint in place of a new URL.
OfferCallCreate(list, o) ==
  IF Matches(list, o) = <<>> THEN <<CreateCall(o)>> ELSE <<>>

\* Faulty variant: an endpoint of the interface is enough.
OfferCallNoUrl(list, o) ==
  IF Cands(list, o) = <<>> THEN <<CreateCall(o)>> ELSE <<>>

\* What is updated is enp, by now the last endpoint of the region.
OfferCall(list, o) ==
  IF Cands(list, o) = <<>> THEN <<CreateCall(o)>>
  ELSE IF Matches(list, o) = <<>>
  THEN <<[op |-> "update endpoint", id |-> Last(list).id, url |-> o.url]>>
  ELSE <<>>

\* The calls for the endpoints of a service, all of them in one region.
ListedOf(k) == Those(endps, {e \in ToSet(endps) : seen[e.srv] = k})
OffersOf(k) ==
  {o \in final : o.key = k /\ (ListedOf(k) # <<>> => o.region = Head(ListedOf(k)).region)}
ServiceEndpointCalls(k, offers) ==
  LET list == ListedOf(k)
      own == Those(offers, OffersOf(k))
      staying == UNION {Stays(list, o) : o \in OffersOf(k)}
  IN FlattenSeq([i \in DOMAIN own |-> OfferCall(list, own[i])])
     \o DeleteCalls(Those(list, {e \in ToSet(list) : e.id \notin staying}))

\* A service with endpoints in a second region is a KeyError.
EndpointCalls ==
  LET listed == ToSet(endps) IN
  IF \E e, f \in listed : seen[e.srv] = seen[f.srv] /\ e.region # f.region
  THEN {<<KeyError>>}
  ELSE {FlattenSeq([i \in DOMAIN order |-> ServiceEndpointCalls(order[i], offers)]) :
          order \in SetToSeqs(want.services \cup {seen[e.srv] : e \in listed}),
          offers \in SetToSeqs(final)}

\* A wanted service without endpoints counts as a change each time.
CountsAsChange ==
  \E k \in want.services : /\ \A o \in want.offers : o.key # k
                           /\ \A e \in ToSet(endps) : seen[e.srv] # k

ExtraServiceCalls ==
  {[i \in DOMAIN order |->
      [op |-> "delete service", id |-> srv_dict[order[i]]]] :
     order \in SetToSeqs(DOMAIN srv_dict \ want.services)}

ExtraRegionCalls ==
  {[i \in DOMAIN order |-> [op |-> "delete region", region |-> order[i]]] :
     order \in SetToSeqs(DOMAIN regions \ DOMAIN want.regions)}

-----------------------------------------------------------------------------
(* A sync.                                                                 *)

Ended(how) ==
  /\ phase' = how /\ calls' = <<>>
  /\ seen' = Empty /\ endps' = <<>> /\ srv_dict' = Empty /\ spare' = Empty

\* The lists of the API.
ServiceList(ids) == Those(ids, DOMAIN services)
EndpointList(ids) ==
  LET listed == Those(ids, {e.id : e \in endpoints})
  IN [i \in DOMAIN listed |-> CHOOSE e \in endpoints : e.id = listed[i]]

\* The catalog is listed, double services are found.
Begin(w, d) ==
  /\ phase \in NotRunning /\ syncs < MaxSyncs
  /\ phase' = "double" /\ syncs' = syncs + 1
  /\ want' = w /\ dry' = d /\ changed' = FALSE
  /\ final' \in Finals(w)
  /\ \E ids \in Orders :
       LET order == ServiceList(ids)
           list == EndpointList(ids)
           dbl == DoubleCalls(order, list)
           Named(n) == Those(order, {s \in DOMAIN services : services[s].name = n})
       IN /\ calls' = dbl
          /\ seen' = services
          /\ endps' = IF \E i \in DOMAIN dbl : dbl[i].op = "delete endpoint"
                      THEN Front(list) ELSE list
          /\ srv_dict' = [k \in {services[s] : s \in DOMAIN services} |->
                            CHOOSE s \in Kept(order) : services[s] = k]
          /\ spare' = [n \in {m \in Name : Len(Named(m)) > 1} |-> Last(Named(n))]
  /\ start' = Start(w)
  /\ UNCHANGED catalog

\* A part of the sync is done, what the next one has to call is worked out.
Enter(from, to, plans) ==
  /\ phase = from /\ calls = <<>>
  /\ phase' = to
  /\ calls' \in plans
  /\ changed' = (changed \/ (to = "endpoints" /\ CountsAsChange))
  /\ UNCHANGED <<catalog, listing, args>>

EnterServices == Enter("double", "services", ServiceCalls)
EnterRegions == Enter("services", "regions", RegionCalls)
EnterEndpoints == Enter("regions", "endpoints", EndpointCalls)
EnterExtraServices == Enter("endpoints", "extra services", ExtraServiceCalls)
EnterExtraRegions == Enter("extra services", "extra regions", ExtraRegionCalls)

Return ==
  /\ phase = "extra regions" /\ calls = <<>>
  /\ Ended("returned")
  /\ UNCHANGED <<catalog, changed, args>>

\* With dry_run the first call ends the sync.
DryRunStops ==
  /\ dry /\ calls # <<>> /\ Head(calls) # KeyError
  /\ Ended("returned") /\ changed' = TRUE
  /\ UNCHANGED <<catalog, args>>

\* An error of the sync itself, or of a call: the service cannot be reached,
\* or what is to be changed is not there.
Raise ==
  /\ calls # <<>>
  /\ dry => Head(calls) = KeyError
  /\ Ended("raised")
  /\ UNCHANGED <<catalog, changed, args>>

Calls(op) ==
  /\ ~ dry /\ calls # <<>> /\ Head(calls).op = op
  /\ calls' = Tail(calls) /\ changed' = TRUE
  /\ UNCHANGED <<phase, args>>

IsUsedUp(used, bound) == 1 .. bound \subseteq used
Fresh(used, bound) == CHOOSE i \in 1 .. bound : i \notin used

CreateService ==
  LET key == Head(calls).key
      used == DOMAIN services \cup DOMAIN seen
      id == Fresh(used, MaxServices)
  IN /\ Calls("create service") /\ ~ IsUsedUp(used, MaxServices)
     /\ services' = With(services, id, key)
     /\ srv_dict' = With(srv_dict, key, id)
     /\ UNCHANGED <<endpoints, regions, seen, endps, spare>>

\* The first of several descriptions of a name is overwritten, here and in
\* the listing; its endpoints count as those of the new service.
UpdateService ==
  LET key == Head(calls).key
      id == spare[key.name]
  IN /\ Calls("update service")
     /\ id \in DOMAIN services
     /\ services' = [services EXCEPT ![id] = key]
     /\ seen' = [seen EXCEPT ![id] = key]
     /\ srv_dict' = With([k \in DOMAIN srv_dict \ {seen[id]} |-> srv_dict[k]], key, id)
     /\ UNCHANGED <<endpoints, regions, endps, spare>>

\* Keystone deletes the endpoints of a service with it.
DeleteService ==
  LET id == Head(calls).id IN
  /\ Calls("delete service")
  /\ id \in DOMAIN services
  /\ services' = [s \in DOMAIN services \ {id} |-> services[s]]
  /\ endpoints' = {e \in endpoints : e.srv # id}
  /\ UNCHANGED <<regions, listing>>

\* Create and update.
SetRegion ==
  /\ Calls("create region") \/ Calls("update region")
  /\ regions' = With(regions, Head(calls).region, want.regions[Head(calls).region])
  /\ UNCHANGED <<services, endpoints, listing>>

DeleteRegion ==
  /\ Calls("delete region")
  /\ regions' = [r \in DOMAIN regions \ {Head(calls).region} |-> regions[r]]
  /\ UNCHANGED <<services, endpoints, listing>>

CreateEndpoint ==
  LET o == Head(calls).offer
      used == {e.id : e \in endpoints \cup ToSet(endps)}
  IN /\ Calls("create endpoint") /\ ~ IsUsedUp(used, MaxEndpoints)
     /\ o.key \in DOMAIN srv_dict /\ srv_dict[o.key] \in DOMAIN services
     /\ endpoints' = endpoints \cup
          {[id |-> Fresh(used, MaxEndpoints), srv |-> srv_dict[o.key],
            region |-> o.region, interface |-> o.interface, url |-> o.url]}
     /\ UNCHANGED <<services, regions, listing>>

UpdateEndpoint ==
  /\ Calls("update endpoint")
  /\ \E e \in endpoints :
       /\ e.id = Head(calls).id
       /\ endpoints' = (endpoints \ {e}) \cup {[e EXCEPT !.url = Head(calls).url]}
  /\ UNCHANGED <<services, regions, listing>>

DeleteEndpoint ==
  /\ Calls("delete endpoint")
  /\ \E e \in endpoints : e.id = Head(calls).id /\ endpoints' = endpoints \ {e}
  /\ UNCHANGED <<services, regions, listing>>

Next ==
  \/ \E w \in Wants, d \in BOOLEAN : Begin(w, d)
  \/ EnterServices \/ EnterRegions \/ EnterEndpoints
  \/ EnterExtraServices \/ EnterExtraRegions
  \/ Return \/ DryRunStops \/ Raise
  \/ CreateService \/ UpdateService \/ DeleteService
  \/ SetRegion \/ DeleteRegion
  \/ CreateEndpoint \/ UpdateEndpoint \/ DeleteEndpoint

Spec == Init /\ [][Next]_vars

-----------------------------------------------------------------------------
(* Properties.                                                             *)

CallsIn(p) ==
  CASE p = "double" -> [op : {"delete service"}, id : ServiceId]
                         \cup [op : {"delete endpoint"}, id : 1 .. MaxEndpoints] \cup {KeyError}
    [] p = "services" -> [op : {"create service", "update service"}, key : Key]
    [] p = "regions" -> [op : {"create region", "update region"}, region : Region]
    [] p = "endpoints" -> [op : {"create endpoint"}, offer : Offer]
                            \cup [op : {"update endpoint"}, id : 1 .. MaxEndpoints, url : Url]
                            \cup [op : {"delete endpoint"}, id : 1 .. MaxEndpoints] \cup {KeyError}
    [] p = "extra services" -> [op : {"delete service"}, id : ServiceId]
    [] p = "extra regions" -> [op : {"delete region"}, region : Region]
    [] OTHER -> {}

\* The variables have their types: an endpoint is always of a service that is
\* there and its id its own, every id that is called was listed, and a part of
\* the sync has only its own calls pending.
TypeOK ==
  /\ IsCatalog(services, endpoints, regions)
  /\ phase \in NotRunning \cup Running
  /\ want \in Wants /\ final \subseteq want.offers
  /\ dry \in BOOLEAN /\ changed \in BOOLEAN /\ syncs \in 0 .. MaxSyncs
  /\ IsPartialFcn(seen, ServiceId, Key)
  /\ endps \in Seq(Endpoint)
  /\ \A e \in ToSet(endps) : e.srv \in DOMAIN seen
  /\ \A e, f \in ToSet(endps) : e.id = f.id => e = f
  /\ IsPartialFcn(srv_dict, Key, ServiceId) /\ IsFiniteSet(DOMAIN srv_dict)
  /\ IsPartialFcn(spare, Name, ServiceId)
  /\ \A n \in DOMAIN spare : spare[n] \in DOMAIN seen /\ seen[spare[n]].name = n
  /\ calls \in Seq(CallsIn(phase))

\* A sync that was started on a regular catalog and returns has made it what
\* is wanted, whatever was left there by syncs that failed on the way or
\* were given other services (endpoint_sync as a whole).
SyncReaches ==
  phase = "returned" /\ ~ dry /\ start.regular => Reached(want)

\* A sync that failed at any of its calls leaves a catalog with which the
\* next one for the same services can be relied on, and can fail as well.
RetryWorks ==
  phase = "raised" /\ start.repeatable => Repeatable(want)

\* While a sync changes the catalog, and whether or not it fails on the way,
\* the endpoints that are as wanted stay: what clients use keeps working.
ServingIsKept ==
  start.regular /\ start.unique => start.serving \subseteq endpoints

\* No sync, interrupted or not, makes a second service of one name and
\* description or a second endpoint of one interface.
NoDoubleMade == start.unique => NoDouble

=============================================================================
