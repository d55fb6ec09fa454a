---------------------------- MODULE SlicesProofs ----------------------------
(***************************************************************************)
(* Proofs about Slices: whatever commands run together, for any slices and *)
(* any layout of the address pools the assumptions allow, no two           *)
(* interfaces get the same address.  It needs that offsets stay in the     *)
(* range of a network and that no two machines have the same name; the     *)
(* rest is a lemma on numbers.                                             *)
(***************************************************************************)
EXTENDS Slices, SequenceTheorems, TLAPS

\* No two domains have the same name.
NamesAreUnique ==
  \A d, e \in doms : d.slice = e.slice /\ d.offset = e.offset => d = e

\* Only a command that has begun gets past the start.
HasBegun == \A s \in Slice : pc[s] # "idle" => command[s] >= 1

IInv == TypeOK /\ HasBegun /\ NamesAreUnique

LEMMA InitIInv == Init => IInv
BY BoundAssumption DEF Init, IInv, TypeOK, HasBegun, NamesAreUnique, Phase

LEMMA BeginIInv ==
  ASSUME NEW s \in Slice, NEW n \in Requests \cup {0}, IInv, Begin(s, n)
  PROVE  IInv'
<1> USE BoundAssumption DEF IInv, Begin, Goto, hostVars
<1>1. TypeOK'
  <2>1. {d \in doms : Selects(s, DomainName(d))} \subseteq Machine
    BY DEF TypeOK
  <2>2. listed' \in [Slice -> SUBSET (Machine \cup Network \cup Bmc)]
    BY <2>1 DEF TypeOK
  <2>3. command' \in [Slice -> 0 .. MaxCommands]
    BY DEF TypeOK
  <2>4. /\ doms' \subseteq Machine /\ nets' \subseteq Network
        /\ bmcs' \subseteq Bmc /\ children' \subseteq Machine
        /\ defined' \subseteq children' /\ failed' \subseteq Machine
        /\ kept' \subseteq Machine
    BY DEF TypeOK
  <2>5. /\ pc' \in [Slice -> Phase]
        /\ wanted' \in [Slice -> Requests \cup {0}]
        /\ to_fork' \in [Slice -> SUBSET Offset]
    BY DEF TypeOK, Phase
  <2> QED
    BY <2>2, <2>3, <2>4, <2>5 DEF TypeOK
<1>2. HasBegun'
  BY DEF TypeOK, HasBegun
<1>3. NamesAreUnique'
  BY DEF NamesAreUnique
<1> QED
  BY <1>1, <1>2, <1>3

LEMMA WipeIInv ==
  ASSUME NEW s \in Slice, IInv, WipeSlice(s)
  PROVE  IInv'
<1> USE DEF IInv
<1>1. /\ doms' \subseteq doms /\ nets' \subseteq nets /\ bmcs' \subseteq bmcs
      /\ UNCHANGED <<wanted, command, to_fork, children, defined, failed>>
  BY DEF WipeSlice, WipeDomain, WipeNetwork, WipeBmc, ListNetworks, ListBmcs,
         Wiped, hostVars, cmdVars, childVars
<1>a. kept' \subseteq Machine
  BY DEF TypeOK, WipeSlice, WipeDomain, WipeNetwork, WipeBmc, ListNetworks,
         ListBmcs, Wiped
<1>2. \E p \in Phase : p # "idle" /\ pc' = [pc EXCEPT ![s] = p]
  <2>1. pc' = pc \/ \E p \in Phase : p # "idle" /\ pc' = [pc EXCEPT ![s] = p]
    BY DEF WipeSlice, WipeDomain, WipeNetwork, WipeBmc, ListNetworks,
           ListBmcs, Wiped, Goto, Phase
  <2>2. pc[s] \in Phase /\ pc[s] # "idle" /\ pc = [pc EXCEPT ![s] = pc[s]]
    BY DEF TypeOK, WipeSlice, WipeDomain, WipeNetwork, WipeBmc, ListNetworks,
           ListBmcs, Wiped
  <2> QED
    BY <2>1, <2>2
<1>3. \E l \in SUBSET (Machine \cup Network \cup Bmc) :
        listed' = [listed EXCEPT ![s] = l]
  <2>1. CASE \E x \in listed[s] : listed' = [listed EXCEPT ![s] = @ \ {x}]
    BY <2>1 DEF TypeOK
  <2>2. CASE listed' = [listed EXCEPT ![s] =
                          {n \in nets : Selects(s, NetName(n))}]
    BY <2>2 DEF TypeOK
  <2>3. CASE listed' = [listed EXCEPT ![s] = IF BmcEnabled THEN bmcs ELSE {}]
    BY <2>3 DEF TypeOK
  <2>4. CASE UNCHANGED listed
    <3>1. listed = [listed EXCEPT ![s] = listed[s]]
      BY DEF TypeOK
    <3> QED
      BY <2>4, <3>1 DEF TypeOK
  <2> QED
    BY <2>1, <2>2, <2>3, <2>4
    DEF WipeSlice, WipeDomain, WipeNetwork, WipeBmc, ListNetworks, ListBmcs,
        Wiped, Removed
<1>4. TypeOK'
  BY <1>1, <1>a, <1>2, <1>3 DEF TypeOK
<1>5. HasBegun'
  <2>1. command[s] >= 1
    BY DEF HasBegun, WipeSlice, WipeDomain, WipeNetwork, WipeBmc,
           ListNetworks, ListBmcs, Wiped
  <2> QED
    BY <1>1, <1>2, <2>1 DEF TypeOK, HasBegun
<1>6. NamesAreUnique'
  BY <1>1 DEF NamesAreUnique
<1> QED
  BY <1>4, <1>5, <1>6

LEMMA BuildIInv ==
  ASSUME NEW s \in Slice, IInv, Build(s)
  PROVE  IInv'
<1> USE DEF IInv, hostVars, cmdVars, childVars
<1>1. ASSUME NEW n \in Network, CreateNetwork(s, n)
      PROVE  IInv'
  BY <1>1 DEF CreateNetwork, TypeOK, HasBegun, NamesAreUnique
<1>2. ASSUME StartBoot(s)
      PROVE  IInv'
  <2>1. 2 .. wanted[s] + 1 \subseteq Offset
    <3>1. SubnetMul \in Int /\ SubnetMul >= 4
      BY PoolAssumption
    <3>2. wanted[s] \in Requests \cup {0}
      BY DEF TypeOK
    <3>3. wanted[s] \in 0 .. SubnetMul - 3
      <4>1. \A r \in Requests \cup {0} : r \in 0 .. SubnetMul - 3
        <5>1. ASSUME NEW r \in Requests
              PROVE  r \in 1 .. SubnetMul - 3
          BY RequestAssumption
        <5> QED
          BY <3>1, <5>1
      <4> QED
        BY <3>2, <4>1
    <3>4. \A w \in 0 .. SubnetMul - 3 : 2 .. w + 1 \subseteq 2 .. SubnetMul - 2
      BY <3>1
    <3> QED
      BY <3>3, <3>4 DEF Offset
  <2>2. HasBegun'
    BY <1>2 DEF StartBoot, Goto, TypeOK, HasBegun
  <2> QED
    BY <1>2, <2>1, <2>2
    DEF StartBoot, Goto, TypeOK, Phase, NamesAreUnique
<1>3. ASSUME NEW offset \in to_fork[s], Fork(s, offset)
      PROVE  IInv'
  <2>1. Booted(s, offset) \in Machine
    BY <1>3, BoundAssumption
    DEF Fork, Booted, Machine, Command, TypeOK, HasBegun
  <2>2. HasBegun'
    BY <1>3 DEF Fork, Goto, TypeOK, HasBegun
  <2>3. children' \subseteq Machine /\ defined' \subseteq children'
    BY <1>3, <2>1 DEF Fork, TypeOK
  <2>4. pc' \in [Slice -> Phase] /\ to_fork' \in [Slice -> SUBSET Offset]
    BY <1>3 DEF Fork, Goto, TypeOK, Phase
  <2>5. UNCHANGED <<doms, nets, bmcs, wanted, command, listed, failed, kept>>
    BY <1>3 DEF Fork
  <2> QED
    BY <2>2, <2>3, <2>4, <2>5 DEF TypeOK, NamesAreUnique
<1>4. ASSUME WaitAll(s)
      PROVE  IInv'
  BY <1>4 DEF WaitAll, Goto, TypeOK, Phase, HasBegun, NamesAreUnique
<1> QED
  BY <1>1, <1>2, <1>3, <1>4 DEF Build

LEMMA ChildIInv ==
  ASSUME NEW m \in children, IInv, Define(m) \/ Start(m)
  PROVE  IInv'
<1> USE DEF IInv, cmdVars
<1>0. m \in Machine
  BY DEF TypeOK
<1>1. CASE Define(m)
  <2> USE <1>1 DEF Define
  <2>1. TypeOK'
    BY <1>0 DEF TypeOK
  <2>2. NamesAreUnique'
    BY <1>0 DEF NamesAreUnique, NameTaken
  <2> QED
    BY <2>1, <2>2 DEF HasBegun
<1>2. CASE Start(m)
  <2> USE <1>2 DEF Start
  <2>1. BmcOf(m) \in Bmc
    BY <1>0 DEF BmcOf, Bmc, Machine
  <2>2. bmcs' \subseteq Bmc
    BY <2>1 DEF TypeOK
  <2>3. TypeOK'
    BY <1>0, <2>2 DEF TypeOK
  <2> QED
    BY <2>3 DEF HasBegun, NamesAreUnique
<1> QED
  BY <1>1, <1>2

(***************************************************************************)
(* The inductive invariant holds in every reachable state.                 *)
(***************************************************************************)
THEOREM Inductive == Spec => []IInv
<1>1. ASSUME IInv, [Next]_vars
      PROVE  IInv'
  <2>1. CASE Next
    BY <1>1, <2>1, BeginIInv, WipeIInv, BuildIInv, ChildIInv DEF Next
  <2>2. CASE UNCHANGED vars
    BY <1>1, <2>2
    DEF IInv, TypeOK, HasBegun, NamesAreUnique, vars, hostVars, cmdVars,
        childVars
  <2> QED
    BY <1>1, <2>1, <2>2
<1> QED
  BY InitIInv, <1>1, PTL DEF Spec

(***************************************************************************)
(* Division with remainder is unique.                                      *)
(***************************************************************************)
LEMMA Radix ==
  ASSUME NEW b \in Nat, NEW q \in Nat, NEW r \in 0 .. b - 1,
         NEW p \in Nat, NEW o \in 0 .. b - 1,
         q * b + r = p * b + o
  PROVE  q = p /\ r = o
<1>1. ASSUME NEW x \in Nat, NEW y \in Nat, x < y
      PROVE  x * b + b <= y * b
  <2>1. PICK k \in Nat : y = x + 1 + k
    <3>1. y - x - 1 \in Nat /\ y = x + 1 + (y - x - 1)
      BY <1>1
    <3> QED
      BY <3>1
  <2>2. y * b = x * b + b + k * b
    BY <2>1
  <2>3. k * b \in Nat /\ x * b \in Nat
    OBVIOUS
  <2> QED
    BY <2>2, <2>3
<1>2. q * b \in Nat /\ p * b \in Nat
  OBVIOUS
<1>3. ~(q < p) /\ ~(p < q)
  BY <1>1, <1>2
<1>4. q = p
  BY <1>3
<1> QED
  BY <1>2, <1>4

(***************************************************************************)
(* An address of the pool tells its slice, network and offset.             *)
(***************************************************************************)
LEMMA RelativeIsInjective ==
  ASSUME NEW k \in Nat \ {0},
         NEW s \in Nat, NEW m \in 1 .. SliceNets - 1, NEW i \in Offset,
         NEW t \in Nat, NEW n \in 1 .. SliceNets - 1, NEW j \in Offset,
         Relative(k * (SliceNets * SubnetMul), s, m, i)
           = Relative(k * (SliceNets * SubnetMul), t, n, j)
  PROVE  s = t /\ m = n /\ i = j
<1>1. PICK B \in Nat : B = SubnetMul
  BY PoolAssumption
<1>2. PICK N \in Nat : N = SliceNets
  BY PoolAssumption
<1>3. /\ i \in 0 .. B - 1 /\ j \in 0 .. B - 1
      /\ m \in 0 .. N - 1 /\ n \in 0 .. N - 1
  BY <1>1, <1>2, PoolAssumption DEF Offset
<1>4. s * (k * (N * B)) + B * m + i = t * (k * (N * B)) + B * n + j
  BY <1>1, <1>2 DEF Relative
<1>5. s * (k * (N * B)) + B * m = ((s * k) * N + m) * B
  BY <1>3
<1>6. t * (k * (N * B)) + B * n = ((t * k) * N + n) * B
  BY <1>3
<1>7. s * k \in Nat /\ t * k \in Nat
  OBVIOUS
<1>8. (s * k) * N + m \in Nat /\ (t * k) * N + n \in Nat
  BY <1>3, <1>7
<1>9. (s * k) * N + m = (t * k) * N + n /\ i = j
  BY <1>3, <1>4, <1>5, <1>6, <1>8, Radix
<1>10. s * k = t * k /\ m = n
  BY <1>3, <1>7, <1>9, Radix
<1>11. s = t
  <2>1. 0 \in 0 .. k - 1 /\ s * k + 0 = t * k + 0
    BY <1>7, <1>10
  <2> QED
    BY <2>1, Radix
<1> QED
  BY <1>9, <1>10, <1>11

LEMMA RelativeIsANumber ==
  ASSUME NEW k \in Nat \ {0},
         NEW s \in Nat, NEW m \in 1 .. SliceNets - 1, NEW i \in Offset
  PROVE  Relative(k * (SliceNets * SubnetMul), s, m, i) \in Int
<1>1. SubnetMul \in Nat /\ SliceNets \in Nat /\ m \in Nat /\ i \in Nat
  BY PoolAssumption DEF Offset
<1>2. s * (k * (SliceNets * SubnetMul)) \in Nat /\ SubnetMul * m \in Nat
  BY <1>1
<1> QED
  BY <1>1, <1>2 DEF Relative

LEMMA AddressTells ==
  ASSUME NEW s \in Nat, NEW m \in 1 .. SliceNets - 1, NEW i \in Offset,
         NEW t \in Nat, NEW n \in 1 .. SliceNets - 1, NEW j \in Offset,
         get_addr_for(s, m, i) = get_addr_for(t, n, j)
  PROVE  s = t /\ m = n /\ i = j
<1>1. 1 * (SliceNets * SubnetMul) = SliceNets * SubnetMul
  BY PoolAssumption
<1>2. PICK x \in Int : x = Relative(SliceNets * SubnetMul, s, m, i)
  BY <1>1, RelativeIsANumber
<1>3. PICK y \in Int : y = Relative(SliceNets * SubnetMul, t, n, j)
  BY <1>1, RelativeIsANumber
<1>4. IPV4_START + x = IPV4_START + y /\ IPV4_START \in Nat
  BY <1>2, <1>3, PoolAssumption DEF get_addr_for
<1>5. x = y
  BY <1>4
<1> QED
  BY <1>1, <1>2, <1>3, <1>5, RelativeIsInjective

LEMMA MacTells ==
  ASSUME NEW s \in Nat, NEW m \in 1 .. SliceNets - 1, NEW i \in Offset,
         NEW t \in Nat, NEW n \in 1 .. SliceNets - 1, NEW j \in Offset,
         get_int_mac(s, m, i) = get_int_mac(t, n, j)
  PROVE  s = t /\ m = n /\ i = j
<1>1. MacExtra \in Nat \ {0} /\ MAC_START \in Nat
  BY PoolAssumption
<1>2. PICK x \in Int :
        x = Relative(MacExtra * (SliceNets * SubnetMul), s, m, i)
  BY <1>1, RelativeIsANumber
<1>3. PICK y \in Int :
        y = Relative(MacExtra * (SliceNets * SubnetMul), t, n, j)
  BY <1>1, RelativeIsANumber
<1>4. MAC_START + x = MAC_START + y
  BY <1>2, <1>3 DEF get_int_mac
<1>5. x = y
  BY <1>1, <1>4
<1> QED
  BY <1>1, <1>2, <1>3, <1>5, RelativeIsInjective

LEMMA PortTells ==
  ASSUME NEW s \in Nat, NEW i \in Offset, NEW t \in Nat, NEW j \in Offset,
         bmc_port(s, i) = bmc_port(t, j)
  PROVE  s = t /\ i = j
<1>1. PICK b \in Nat : b = BmcBase
  BY PoolAssumption
<1>2. b + s * 256 + i = b + t * 256 + j
  BY <1>1 DEF bmc_port
<1>3. i \in 0 .. 255 /\ j \in 0 .. 255
  BY PoolAssumption DEF Offset
<1> QED
  BY <1>2, <1>3

LEMMA SlicesAreNumbers == Slice \subseteq Nat
<1>1. 0 .. 99 \subseteq Nat
  OBVIOUS
<1> QED
  BY <1>1, SliceAssumption

LEMMA AddressesFollow == IInv => AddressesAreUnique
<1> SUFFICES ASSUME IInv PROVE AddressesAreUnique
  OBVIOUS
<1>1. ASSUME NEW i \in Interface
      PROVE  /\ i[1] \in doms /\ i[1] \in Machine /\ i[2] \in Net
             /\ i = <<i[1], i[2]>>
             /\ i[1].slice \in Nat /\ i[1].offset \in Offset
             /\ NetId[i[2]] \in 1 .. SliceNets - 1
  <2>1. i[1] \in doms /\ i[2] \in Net /\ i = <<i[1], i[2]>>
    BY <1>1 DEF Interface
  <2>2. i[1] \in Machine
    BY <2>1 DEF IInv, TypeOK
  <2>3. i[1].slice \in Slice /\ i[1].offset \in Offset
    BY <2>2 DEF Machine
  <2>4. i[1].slice \in Nat
    BY <2>3, SlicesAreNumbers
  <2>5. NetId[i[2]] \in 1 .. SliceNets - 1
    BY <2>1, NetIdAssumption
  <2> QED
    BY <2>1, <2>2, <2>3, <2>4, <2>5
<1>2. ASSUME NEW i \in Interface, NEW j \in Interface,
             i[1].slice = j[1].slice, i[1].offset = j[1].offset,
             NetId[i[2]] = NetId[j[2]]
      PROVE  i = j
  <2>1. i[1] = j[1]
    BY <1>1, <1>2 DEF IInv, NamesAreUnique
  <2>2. i[2] = j[2]
    BY <1>1, <1>2, NetIdAssumption
  <2> QED
    BY <1>1, <2>1, <2>2
<1>3. ASSUME NEW i \in Interface, NEW j \in Interface,
             get_addr_for(i[1].slice, NetId[i[2]], i[1].offset)
               = get_addr_for(j[1].slice, NetId[j[2]], j[1].offset)
      PROVE  i = j
  BY <1>1, <1>2, <1>3, AddressTells
<1>4. ASSUME NEW i \in Interface, NEW j \in Interface,
             get_int_mac(i[1].slice, NetId[i[2]], i[1].offset)
               = get_int_mac(j[1].slice, NetId[j[2]], j[1].offset)
      PROVE  i = j
  BY <1>1, <1>2, <1>4, MacTells
<1>5. ASSUME NEW d \in doms, NEW e \in doms,
             bmc_port(d.slice, d.offset) = bmc_port(e.slice, e.offset)
      PROVE  d = e
  <2>1. /\ d.slice \in Slice /\ d.offset \in Offset
        /\ e.slice \in Slice /\ e.offset \in Offset
    BY <1>5 DEF IInv, TypeOK, Machine
  <2>2. d.slice \in Nat /\ e.slice \in Nat
    BY <2>1, SlicesAreNumbers
  <2>3. d.slice = e.slice /\ d.offset = e.offset
    BY <1>5, <2>1, <2>2, PortTells
  <2> QED
    BY <2>3 DEF IInv, NamesAreUnique
<1> QED
  BY <1>3, <1>4, <1>5 DEF AddressesAreUnique

(***************************************************************************)
(* Addresses and ports are unique in every reachable state.                *)
(***************************************************************************)
THEOREM AddressesUnique == Spec => []AddressesAreUnique
BY Inductive, AddressesFollow, PTL

(***************************************************************************)
(* The types are right in every reachable state.                           *)
(***************************************************************************)
THEOREM TypeCorrect == Spec => []TypeOK
<1>1. IInv => TypeOK
  BY DEF IInv
<1> QED
  BY <1>1, Inductive, PTL


-----------------------------------------------------------------------------
(* The commands, for slices whose names can be told apart.                 *)

\* A slice's prefix selects the names of the slice and no others.
NamesTell ==
  \A s \in Slice :
    /\ \A d \in Machine : Selects(s, DomainName(d)) <=> d.slice = s
    /\ \A n \in Network : Selects(s, NetName(n)) <=> n.slice = s

Asked(s) == {Booted(s, offset) : offset \in 2 .. wanted[s] + 1}

\* How far the command for s has come, and what there is of the slice then.
CommandInv(s) ==
  /\ pc[s] = "domains" => /\ OfSlice(s) \subseteq listed[s] \cup kept
                          /\ listed[s] \subseteq {d \in Machine : d.slice = s}
  /\ pc[s] = "networks" => listed[s] \subseteq {n \in Network : n.slice = s}
  /\ pc[s] \in {"networks", "bmcs", "create"} => OfSlice(s) \subseteq kept
  /\ pc[s] \in {"boot", "over"} => OfSlice(s) \subseteq Asked(s) \cup kept
  /\ pc[s] = "boot" => \A m \in Asked(s) : m.offset \in to_fork[s] \/ m \in doms \cup failed \cup children
  /\ pc[s] = "over" => Asked(s) \subseteq doms \cup failed
  /\ to_fork[s] \subseteq 2 .. wanted[s] + 1

\* A process boots a machine of the command that is running, or of one
\* that was given up.
ChildInv ==
  /\ defined \subseteq doms
  /\ \A m \in children : pc[m.slice] \in {"boot", "raised"} /\ m \in Asked(m.slice)

LEMMA AskedMachines ==
  ASSUME NEW s \in Slice, NEW m \in Asked(s)
  PROVE  m.slice = s /\ m = Booted(s, m.offset) /\ m.offset \in 2 .. wanted[s] + 1
BY DEF Asked, Booted

\* What every step of a command for another slice, or of a process, leaves
\* of slice t.
LEMMA OthersKeepCommand ==
  ASSUME TypeOK, NEW t \in Slice, CommandInv(t), pc'[t] = pc[t], wanted'[t] = wanted[t],
         command'[t] = command[t], listed'[t] = listed[t], to_fork'[t] = to_fork[t],
         OfSlice(t)' = OfSlice(t), \A d \in OfSlice(t) : d \in kept => d \in kept',
         \A m \in Asked(t) : m \in failed \cup children => m \in failed' \cup children',
         pc[t] # "boot" => \A m \in Asked(t) : m \in failed => m \in failed'
  PROVE  CommandInv(t)'
<1>1. Asked(t)' = Asked(t)
  BY DEF Asked, Booted
<1>2. \A m \in Asked(t) : m \in doms <=> m \in doms'
  BY AskedMachines DEF OfSlice
<1> QED
  BY <1>1, <1>2 DEF CommandInv

LEMMA BeginCommand ==
  ASSUME NamesTell, IInv, NEW s \in Slice, NEW n \in Requests \cup {0}, Begin(s, n),
         \A t \in Slice : CommandInv(t), ChildInv
  PROVE  (\A t \in Slice : CommandInv(t)') /\ ChildInv'
<1> USE DEF IInv
<1>1. CommandInv(s)'
  <2>1. /\ pc'[s] = "domains" /\ to_fork'[s] = {} /\ doms' = doms
        /\ listed'[s] = {d \in doms : Selects(s, DomainName(d))}
    BY DEF Begin, Goto, TypeOK, hostVars
  <2>2. listed'[s] = {d \in doms : d.slice = s} /\ doms \subseteq Machine
    BY <2>1 DEF NamesTell, TypeOK
  <2>3. OfSlice(s)' = listed'[s]
    BY <2>1, <2>2 DEF OfSlice
  <2> QED
    BY <2>1, <2>2, <2>3 DEF CommandInv
<1>2. ASSUME NEW t \in Slice \ {s}
      PROVE  CommandInv(t)'
  <2>1. /\ pc'[t] = pc[t] /\ wanted'[t] = wanted[t] /\ command'[t] = command[t]
        /\ listed'[t] = listed[t] /\ to_fork'[t] = to_fork[t] /\ doms' = doms
        /\ children' = children /\ failed' = {m \in failed : m.slice # s}
        /\ kept' = {m \in kept : m.slice # s}
    BY DEF Begin, Goto, TypeOK, hostVars
  <2>2. \A m \in Asked(t) : m \in failed => m \in failed'
    BY <2>1, AskedMachines
  <2>3. OfSlice(t)' = OfSlice(t) /\ \A d \in OfSlice(t) : d \in kept => d \in kept'
    BY <2>1 DEF OfSlice
  <2> QED
    BY <2>1, <2>2, <2>3, OthersKeepCommand
<1>3. ChildInv'
  <2>1. /\ \A m \in children : m.slice \in Slice /\ m.slice # s
        /\ children' = children /\ defined' = defined /\ doms' = doms
    BY DEF Begin, TypeOK, Machine, hostVars
  <2>2. ASSUME NEW m \in children
        PROVE  pc'[m.slice] \in {"boot", "raised"} /\ m \in Asked(m.slice)'
    <3>1. /\ pc'[m.slice] = pc[m.slice] /\ wanted'[m.slice] = wanted[m.slice]
          /\ command'[m.slice] = command[m.slice]
      BY <2>1 DEF Begin, Goto, TypeOK
    <3> QED
      BY <3>1 DEF ChildInv, Asked, Booted
  <2> QED
    BY <2>1, <2>2 DEF ChildInv
<1> QED
  BY <1>1, <1>2, <1>3

\* What the steps of a command do to the processes: nothing, but for Fork.
LEMMA ChildrenKept ==
  ASSUME IInv, ChildInv, NEW s \in Slice, UNCHANGED <<wanted, command, children, defined>>,
         defined \subseteq doms',
         \A t \in Slice \ {s} : pc'[t] = pc[t],
         pc'[s] \in {"boot", "raised"} \/ (\A m \in children : m.slice # s)
  PROVE  ChildInv'
<1>1. \A m \in children : m.slice \in Slice
  BY DEF IInv, TypeOK, Machine
<1>2. \A t : Asked(t)' = Asked(t)
  BY DEF Asked, Booted
<1> QED
  BY <1>1, <1>2 DEF ChildInv

LEMMA WipeCommand ==
  ASSUME NamesTell, IInv, NEW s \in Slice, WipeSlice(s), \A t \in Slice : CommandInv(t), ChildInv
  PROVE  /\ (\A t \in Slice : CommandInv(t)') /\ ChildInv'
         /\ \A d \in doms \ doms' : pc[d.slice] = "domains"
         /\ \A n \in nets \ nets' : pc[n.slice] = "networks"
<1> USE DEF IInv
<1>1. /\ UNCHANGED <<wanted, command, to_fork, children, defined, failed>>
      /\ pc[s] \in {"domains", "networks", "bmcs"}
      /\ \A t \in Slice \ {s} : pc'[t] = pc[t] /\ listed'[t] = listed[t]
      /\ pc' \in [Slice -> Phase]
  BY DEF WipeSlice, WipeDomain, WipeNetwork, WipeBmc, ListNetworks, ListBmcs, Wiped, Goto, Removed,
         TypeOK, Phase, hostVars, cmdVars, childVars
<1>2. /\ \A d \in doms \ doms' : pc[s] = "domains" /\ d.slice = s
      /\ doms' \subseteq doms
  BY DEF WipeSlice, WipeDomain, WipeNetwork, WipeBmc, ListNetworks, ListBmcs, Wiped, CommandInv, hostVars
<1>a. kept \subseteq kept'
  BY DEF WipeSlice, WipeDomain, WipeNetwork, WipeBmc, ListNetworks, ListBmcs, Wiped
<1>3. \A n \in nets \ nets' : pc[s] = "networks" /\ n.slice = s
  BY DEF WipeSlice, WipeDomain, WipeNetwork, WipeBmc, ListNetworks, ListBmcs, Wiped, CommandInv, hostVars
<1>4. \A m \in children : m.slice # s
  BY <1>1 DEF ChildInv
<1>5. ASSUME NEW t \in Slice \ {s}
      PROVE  CommandInv(t)'
  <2>1. OfSlice(t)' = OfSlice(t)
    BY <1>2 DEF OfSlice
  <2> QED
    BY <1>1, <1>a, <2>1, OthersKeepCommand
<1>6. Asked(s)' = Asked(s)
  BY <1>1 DEF Asked, Booted
<1>7. CommandInv(s)'
  <2>1. to_fork'[s] \subseteq 2 .. wanted'[s] + 1
    BY <1>1 DEF CommandInv
  <2>2. CASE pc'[s] = "raised"
    BY <2>1, <2>2 DEF CommandInv
  <2>3. ASSUME NEW d \in listed[s], WipeDomain(s, d), pc'[s] # "raised"
        PROVE  CommandInv(s)'
    <3>1. pc[s] = "domains" /\ listed'[s] = listed[s] \ {d}
      BY <2>3 DEF WipeDomain, Removed, TypeOK
    <3>a. pc'[s] = "domains" /\ (doms' = doms \ {d} \/ (doms' = doms /\ d \in kept'))
      <4>1. CASE UNCHANGED pc /\ doms' = doms \ {d}
        BY <3>1, <4>1
      <4>2. CASE UNCHANGED <<pc, doms>> /\ kept' = kept \cup {d}
        BY <3>1, <4>2
      <4>3. CASE Goto(s, "raised")
        BY <2>3, <4>3 DEF Goto, TypeOK
      <4> QED
        BY <2>3, <4>1, <4>2, <4>3 DEF WipeDomain
    <3>2. OfSlice(s)' \subseteq listed'[s] \cup kept'
      BY <1>a, <3>1, <3>a DEF OfSlice, CommandInv
    <3> QED
      BY <2>1, <3>1, <3>a, <3>2 DEF CommandInv
  <2>4. CASE ListNetworks(s)
    <3>1. /\ pc[s] = "domains" /\ listed[s] = {} /\ pc'[s] = "networks" /\ doms' = doms
          /\ listed'[s] = {n \in nets : Selects(s, NetName(n))}
      BY <2>4 DEF ListNetworks, Goto, TypeOK, hostVars
    <3>2. listed'[s] \subseteq {n \in Network : n.slice = s}
      BY <3>1 DEF NamesTell, TypeOK
    <3>3. OfSlice(s)' \subseteq kept'
      BY <1>a, <3>1 DEF CommandInv, OfSlice
    <3> QED
      BY <2>1, <3>1, <3>2, <3>3 DEF CommandInv
  <2>5. ASSUME NEW n \in listed[s], WipeNetwork(s, n), pc'[s] # "raised"
        PROVE  CommandInv(s)'
    <3>1. pc[s] = "networks" /\ pc'[s] = "networks" /\ listed'[s] = listed[s] \ {n} /\ doms' = doms
      BY <2>5 DEF WipeNetwork, Goto, Removed, TypeOK
    <3> QED
      BY <1>a, <2>1, <3>1 DEF CommandInv, OfSlice
  <2>6. CASE ListBmcs(s)
    <3>1. pc[s] = "networks" /\ pc'[s] = "bmcs" /\ doms' = doms
      BY <2>6 DEF ListBmcs, Goto, TypeOK, hostVars
    <3> QED
      BY <1>a, <2>1, <3>1 DEF CommandInv, OfSlice
  <2>7. ASSUME NEW b \in listed[s], WipeBmc(s, b), pc'[s] # "raised"
        PROVE  CommandInv(s)'
    <3>1. pc[s] = "bmcs" /\ pc'[s] = "bmcs" /\ doms' = doms
      BY <2>7 DEF WipeBmc, Goto, TypeOK
    <3> QED
      BY <1>a, <2>1, <3>1 DEF CommandInv, OfSlice
  <2>8. CASE Wiped(s)
    <3>1. /\ pc[s] = "bmcs" /\ doms' = doms /\ pc'[s] = IF wanted[s] = 0 THEN "over" ELSE "create"
      BY <2>8 DEF Wiped, Goto, TypeOK, hostVars
    <3>2. OfSlice(s)' \subseteq kept'
      BY <1>a, <3>1 DEF CommandInv, OfSlice
    <3>3. wanted[s] = 0 => Asked(s)' = {}
      BY <1>6 DEF Asked
    <3> QED
      BY <2>1, <3>1, <3>2, <3>3 DEF CommandInv
  <2> QED
    BY <2>2, <2>3, <2>4, <2>5, <2>6, <2>7, <2>8 DEF WipeSlice
<1>8. ChildInv'
  <2>1. defined \subseteq doms'
    <3>1. \A m \in defined : m \in doms /\ m.slice # s
      BY <1>4 DEF ChildInv, TypeOK
    <3> QED
      BY <1>2, <3>1
  <2> QED
    BY <1>1, <1>4, <2>1, ChildrenKept
<1> QED
  BY <1>2, <1>3, <1>5, <1>7, <1>8

LEMMA BuildCommand ==
  ASSUME IInv, NEW s \in Slice, Build(s), \A t \in Slice : CommandInv(t), ChildInv
  PROVE  (\A t \in Slice : CommandInv(t)') /\ ChildInv'
<1> USE DEF IInv
<1>1. /\ UNCHANGED <<wanted, command, doms, defined, failed, kept>>
      /\ children \subseteq children'
      /\ \A t \in Slice \ {s} : pc'[t] = pc[t] /\ listed'[t] = listed[t] /\ to_fork'[t] = to_fork[t]
  BY DEF Build, CreateNetwork, StartBoot, Fork, WaitAll, Goto, TypeOK, hostVars, cmdVars, childVars
<1>2. ASSUME NEW t \in Slice \ {s}
      PROVE  CommandInv(t)'
  <2>1. OfSlice(t)' = OfSlice(t)
    BY <1>1 DEF OfSlice
  <2> QED
    BY <1>1, <2>1, OthersKeepCommand
<1>3. Asked(s)' = Asked(s) /\ OfSlice(s)' = OfSlice(s)
  BY <1>1 DEF Asked, Booted, OfSlice
<1>4. ASSUME NEW n \in Network, CreateNetwork(s, n)
      PROVE  CommandInv(s)' /\ ChildInv'
  <2>1. UNCHANGED <<doms, pc, wanted, command, listed, to_fork, children, defined, failed, kept>>
    BY <1>4 DEF CreateNetwork, cmdVars, childVars
  <2> QED
    BY <2>1 DEF CommandInv, ChildInv, Asked, Booted, OfSlice
<1>5. ASSUME StartBoot(s)
      PROVE  CommandInv(s)' /\ ChildInv'
  <2>1. /\ pc[s] = "create" /\ pc'[s] = "boot" /\ to_fork'[s] = 2 .. wanted[s] + 1
        /\ UNCHANGED <<wanted, command, doms, children, defined, failed>>
    BY <1>5 DEF StartBoot, Goto, TypeOK, hostVars, cmdVars, childVars
  <2>2. OfSlice(s) \subseteq kept
    BY <2>1 DEF CommandInv
  <2>3. \A m \in Asked(s) : m.offset \in to_fork'[s]
    BY <2>1, AskedMachines
  <2>4. CommandInv(s)'
    BY <1>1, <1>3, <2>1, <2>2, <2>3 DEF CommandInv
  <2>5. ChildInv'
    BY <1>1, <2>1, ChildrenKept DEF ChildInv
  <2> QED
    BY <2>4, <2>5
<1>6. ASSUME NEW offset \in to_fork[s], Fork(s, offset)
      PROVE  CommandInv(s)' /\ ChildInv'
  <2>1. pc[s] = "boot" /\ to_fork'[s] = to_fork[s] \ {offset}
    BY <1>6 DEF Fork, TypeOK
  <2>2. Booted(s, offset) \in Asked(s) /\ Booted(s, offset).slice = s
    BY DEF CommandInv, Asked, Booted
  <2>3. CASE children' = children \cup {Booted(s, offset)} /\ UNCHANGED pc
    <3>1. ASSUME NEW m \in Asked(s)
          PROVE  m.offset \in to_fork'[s] \/ m \in doms \cup failed \cup children'
      <4>1. m.offset \in to_fork[s] \/ m \in doms \cup failed \cup children
        BY <2>1 DEF CommandInv
      <4>2. m.offset = offset => m = Booted(s, offset)
        BY AskedMachines
      <4> QED
        BY <2>1, <2>3, <4>1, <4>2
    <3>2. CommandInv(s)'
      BY <1>1, <1>3, <2>1, <2>3, <3>1 DEF CommandInv
    <3>3. \A t : Asked(t)' = Asked(t)
      BY <1>1 DEF Asked, Booted
    <3>4. ChildInv'
      BY <1>1, <2>1, <2>2, <2>3, <3>3 DEF ChildInv
    <3> QED
      BY <3>2, <3>4
  <2>4. CASE pc' = [pc EXCEPT ![s] = "raised"] /\ UNCHANGED children
    <3>1. pc'[s] = "raised"
      BY <2>4 DEF TypeOK
    <3>2. CommandInv(s)'
      BY <1>1, <2>1, <3>1 DEF CommandInv
    <3>3. ChildInv'
      BY <1>1, <2>4, <3>1, ChildrenKept DEF ChildInv
    <3> QED
      BY <3>2, <3>3
  <2> QED
    BY <1>6, <2>3, <2>4 DEF Fork, Goto
<1>7. ASSUME WaitAll(s)
      PROVE  CommandInv(s)' /\ ChildInv'
  <2>1. /\ pc[s] = "boot" /\ pc'[s] = "over" /\ to_fork[s] = {} /\ \A m \in children : m.slice # s
        /\ UNCHANGED <<to_fork, children>>
    BY <1>7 DEF WaitAll, Goto, TypeOK, childVars
  <2>2. Asked(s) \subseteq doms \cup failed
    BY <2>1, AskedMachines DEF CommandInv
  <2>3. CommandInv(s)'
    BY <1>1, <1>3, <2>1, <2>2 DEF CommandInv
  <2>4. ChildInv'
    BY <1>1, <2>1, ChildrenKept DEF ChildInv
  <2> QED
    BY <2>3, <2>4
<1> QED
  BY <1>2, <1>4, <1>5, <1>6, <1>7 DEF Build

LEMMA ChildCommand ==
  ASSUME IInv, NEW c \in children, Define(c) \/ Start(c), \A t \in Slice : CommandInv(t), ChildInv
  PROVE  (\A t \in Slice : CommandInv(t)') /\ ChildInv'
<1> USE DEF IInv
<1>1. UNCHANGED <<nets, pc, wanted, command, listed, to_fork, kept>> /\ doms \subseteq doms'
  BY DEF Define, Start, cmdVars
<1>2. c.slice \in Slice /\ c \in Asked(c.slice) /\ pc[c.slice] \in {"boot", "raised"}
  BY DEF ChildInv, TypeOK, Machine
<1>3. \A t : Asked(t)' = Asked(t)
  BY <1>1 DEF Asked, Booted
<1>4. /\ doms' \subseteq doms \cup {c} /\ failed \subseteq failed' /\ children' \subseteq children
      /\ \A m \in children : m \in children' \cup failed' \cup doms'
  BY DEF Define, Start, ChildInv
<1>5. ASSUME NEW t \in Slice
      PROVE  CommandInv(t)'
  <2>1. OfSlice(t) \subseteq OfSlice(t)' /\ OfSlice(t)' \subseteq OfSlice(t) \cup {d \in {c} : d.slice = t}
    BY <1>1, <1>4 DEF OfSlice
  <2>2. CASE pc[t] \in {"boot", "raised"}
    <3>1. OfSlice(t)' \subseteq Asked(t) \cup kept \/ pc[t] = "raised"
      BY <1>2, <2>1, <2>2 DEF CommandInv
    <3> QED
      BY <1>1, <1>3, <1>4, <2>2, <3>1 DEF CommandInv
  <2>3. CASE pc[t] \notin {"boot", "raised"}
    <3>1. OfSlice(t)' = OfSlice(t)
      BY <1>2, <2>1, <2>3
    <3> QED
      BY <1>1, <1>3, <1>4, <2>3, <3>1 DEF CommandInv
  <2> QED
    BY <2>2, <2>3
<1>6. ChildInv'
  <2>1. defined' \subseteq doms'
    BY DEF Define, Start, ChildInv
  <2> QED
    BY <1>1, <1>3, <1>4, <2>1 DEF ChildInv
<1> QED
  BY <1>5, <1>6

CommandsInv == IInv /\ (\A s \in Slice : CommandInv(s)) /\ ChildInv

LEMMA CommandsInductive ==
  ASSUME NamesTell
  PROVE  Spec => []CommandsInv
<1>1. Init => CommandsInv
  <2> SUFFICES ASSUME Init PROVE CommandsInv
    OBVIOUS
  <2>1. \A s \in Slice : CommandInv(s)
    BY DEF Init, CommandInv
  <2> QED
    BY <2>1, InitIInv DEF Init, CommandsInv, ChildInv
<1>2. CommandsInv /\ [Next]_vars => CommandsInv'
  <2> SUFFICES ASSUME CommandsInv, [Next]_vars PROVE CommandsInv'
    OBVIOUS
  <2>1. CASE UNCHANGED vars
    BY <2>1
    DEF vars, hostVars, cmdVars, childVars, CommandsInv, IInv, TypeOK, HasBegun, NamesAreUnique,
        CommandInv, ChildInv, Asked, Booted, OfSlice
  <2>2. CASE Next
    BY <2>2, BeginIInv, WipeIInv, BuildIInv, ChildIInv, BeginCommand, WipeCommand, BuildCommand,
       ChildCommand DEF Next, CommandsInv
  <2> QED
    BY <2>1, <2>2
<1> QED
  BY <1>1, <1>2, PTL DEF Spec

(***************************************************************************)
(* Where the names can be told apart, a command removes machines and       *)
(* networks of its own slice only.                                         *)
(***************************************************************************)
THEOREM SlicesStay ==
  ASSUME NamesTell
  PROVE  Spec => StaysInItsSlice
<1>1. CommandsInv /\ [Next]_vars =>
        [/\ \A d \in doms \ doms' : pc[d.slice] = "domains"
         /\ \A n \in nets \ nets' : pc[n.slice] = "networks"]_vars
  <2> SUFFICES ASSUME CommandsInv, Next
               PROVE  /\ \A d \in doms \ doms' : pc[d.slice] = "domains"
                      /\ \A n \in nets \ nets' : pc[n.slice] = "networks"
    OBVIOUS
  <2>1. CASE \E s \in Slice : WipeSlice(s)
    BY <2>1, WipeCommand DEF CommandsInv
  <2>2. CASE (\E s \in Slice, n \in Requests \cup {0} : Begin(s, n)) \/ (\E s \in Slice : Build(s))
    BY <2>2 DEF Begin, Build, CreateNetwork, StartBoot, Fork, WaitAll, hostVars
  <2>3. CASE \E m \in children : Define(m) \/ Start(m)
    BY <2>3 DEF Define, Start
  <2> QED
    BY <2>1, <2>2, <2>3 DEF Next
<1> QED
  BY <1>1, CommandsInductive, PTL DEF Spec, StaysInItsSlice

(***************************************************************************)
(* Where the names can be told apart, a command that is through leaves     *)
(* the machines it asked for, but for those reported as failed, and of     *)
(* those that were there before only what the hypervisor did not give up.  *)
(***************************************************************************)
THEOREM CommandsDeliver ==
  ASSUME NamesTell
  PROVE  Spec => []CommandDelivers
<1>1. CommandsInv => CommandDelivers
  <2> SUFFICES ASSUME CommandsInv, NEW s \in Slice, pc[s] = "over"
               PROVE  OfSlice(s) \ kept \subseteq Asked(s) /\ Asked(s) \ OfSlice(s) \subseteq failed
    BY DEF CommandDelivers, Asked
  <2>1. OfSlice(s) \subseteq Asked(s) \cup kept /\ Asked(s) \subseteq doms \cup failed
    BY DEF CommandsInv, CommandInv
  <2> QED
    BY <2>1, AskedMachines DEF OfSlice
<1> QED
  BY <1>1, CommandsInductive, PTL

-----------------------------------------------------------------------------
(* When they can: slice numbers of one digit.                              *)

LEMMA OneDigitPrefix ==
  ASSUME NEW m \in 0 .. 9, NEW n \in 0 .. 9
  PROVE  IsPrefix(<<m>>, <<n>> \o <<NoDigit>>) <=> m = n
<1> DEFINE x == <<n>> \o <<NoDigit>>
<1>1. <<n>> \in Seq(Nat) /\ <<NoDigit>> \in Seq(Nat) /\ <<m>> \in Seq(Nat)
  BY DEF NoDigit
<1>2. Len(x) = 2 /\ x[1] = n /\ x \in Seq(Nat)
  BY <1>1
<1> HIDE DEF x
<1> DEFINE y == <<m>>
           z == SubSeq(x, 1, 1)
<1>3. Len(y) = 1 /\ y[1] = m /\ SubSeq(y, 1, 1) = y /\ y \in Seq(Nat)
  <2>1. y \in Seq(Nat) /\ Len(y) = 1 /\ y[1] = m
    BY <1>1
  <2> QED
    BY <2>1, SubSeqFull
<1>4. z \in Seq(Nat) /\ Len(z) = 1 /\ z[1] = n
  BY <1>2
<1> HIDE DEF y, z
<1>5. y = z <=> m = n
  BY <1>3, <1>4, SeqEqual
<1>6. IsPrefix(y, x) <=> y = z
  <2>1. IsPrefix(y, x) <=> Len(y) <= Len(x) /\ SubSeq(y, 1, Len(y)) = SubSeq(x, 1, Len(y))
    BY DEF IsPrefix
  <2> QED
    BY <1>2, <1>3, <2>1 DEF z
<1> QED
  BY <1>5, <1>6 DEF x, y

LEMMA OneDigit == Slice \subseteq 0 .. 9 => NamesTell
<1> SUFFICES ASSUME Slice \subseteq 0 .. 9 PROVE NamesTell
  OBVIOUS
<1>1. \A s \in Slice : s \in 0 .. 9 /\ Digits(s, 10) = <<s>> /\ Digits(s, 16) = <<s>>
  BY DEF Digits
<1>2. \A d \in Machine : d.slice \in Slice /\ DomainName(d) = <<d.slice>> \o <<NoDigit>>
  BY <1>1 DEF Machine, DomainName
<1>3. \A n \in Network : n.slice \in Slice /\ NetName(n) = <<n.slice>> \o <<NoDigit>>
  BY <1>1 DEF Network, NetName
<1>4. ASSUME NEW s \in Slice, NEW d \in Machine
      PROVE  Selects(s, DomainName(d)) <=> d.slice = s
  <2>1. Selects(s, DomainName(d)) <=> IsPrefix(<<s>>, <<d.slice>> \o <<NoDigit>>)
    BY <1>1, <1>2 DEF Selects
  <2> QED
    BY <1>1, <1>2, <2>1, OneDigitPrefix
<1>5. ASSUME NEW s \in Slice, NEW n \in Network
      PROVE  Selects(s, NetName(n)) <=> n.slice = s
  <2>1. Selects(s, NetName(n)) <=> IsPrefix(<<s>>, <<n.slice>> \o <<NoDigit>>)
    BY <1>1, <1>3 DEF Selects
  <2> QED
    BY <1>1, <1>3, <2>1, OneDigitPrefix
<1> QED
  BY <1>4, <1>5 DEF NamesTell

(***************************************************************************)
(* With at most ten slices, numbered from 0, the commands of virtbs keep   *)
(* to their slices and deliver.  The run SlicesWipe shows a larger number  *)
(* for which they do not.                                                  *)
(***************************************************************************)
THEOREM TenSlices == Slice \subseteq 0 .. 9 => (Spec => []CommandDelivers /\ StaysInItsSlice)
<1> SUFFICES ASSUME Slice \subseteq 0 .. 9 PROVE Spec => []CommandDelivers /\ StaysInItsSlice
  OBVIOUS
<1>1. NamesTell
  BY OneDigit
<1>2. Spec => []CommandDelivers
  BY <1>1, CommandsDeliver
<1>3. Spec => StaysInItsSlice
  BY <1>1, SlicesStay
<1> QED
  BY <1>2, <1>3
=============================================================================
