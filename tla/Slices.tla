------------------------------- MODULE Slices -------------------------------
(***************************************************************************)
(* Build slices: the commands cycle and wipe of virtbs/vbs.py.             *)
(*                                                                         *)
(* A slice is a number.  cycle removes what is left of the slice, creates  *)
(* its networks, forks a process per machine that defines and boots it,    *)
(* and waits for them; wipe only removes.  Commands for different slices   *)
(* run at the same time on the same hypervisor, and what belongs to a      *)
(* slice is known by its name only: machines are called                    *)
(* bs<slice, hexadecimal>-<type>-<offset>, networks bs<slice><network>.    *)
(*                                                                         *)
(* The operator gives the next command for a slice when the machines of    *)
(* the one before are through.                                             *)
(***************************************************************************)
EXTENDS Naturals, FiniteSets, Sequences, SequencesExt

CONSTANTS
  Slice,        \* the slice numbers in use
  Net,          \* the networks of the machine types
  NetId,        \* NAME_TO_ID
  Requests,     \* how many machines a cycle may ask for
  MaxCommands,  \* bound: commands per slice
  BmcEnabled,   \* VIRTBMC_ENABLED
  MAC_START, IPV4_START, BmcBase,  \* where the address pools start
  SubnetMul,    \* IPV4_SUBNET_MUL, MAC_SUBNET_MUL: addresses of a network
  SliceNets,    \* IPV4_SLICE_MUL in networks
  MacExtra      \* MAC_SLICE_MUL in IPV4_SLICE_MULs

\* at most two digits, also as hexadecimal number
ASSUME SliceAssumption == Slice \subseteq 0 .. 99
ASSUME NetIdAssumption ==
  /\ NetId \in [Net -> 1 .. SliceNets - 1]
  /\ \A m, n \in Net : NetId[m] = NetId[n] => m = n
ASSUME PoolAssumption ==
  /\ SubnetMul \in 4 .. 256
  /\ SliceNets \in Nat \ {0}
  /\ MacExtra \in Nat \ {0}
  /\ MAC_START \in Nat /\ IPV4_START \in Nat /\ BmcBase \in Nat
\* "max offset is reserved for brodacast"
ASSUME RequestAssumption == Requests \subseteq 1 .. SubnetMul - 3
ASSUME BoundAssumption == MaxCommands \in Nat /\ BmcEnabled \in BOOLEAN

Offset == 2 .. SubnetMul - 2
Command == 1 .. MaxCommands
\* A machine of the nth command of its slice; its name has no n.
Machine == [slice: Slice, offset: Offset, n: Command]
Network == [slice: Slice, net: Net]
Bmc == [slice: Slice, offset: Offset]

VARIABLES
  doms,      \* the domains that are defined, with what their names tell
  nets,      \* the networks
  bmcs,      \* the virtual BMCs
  pc,        \* pc[s]: where the command for slice s is
  wanted,    \* wanted[s]: the number of machines of a cycle, 0 for a wipe
  command,   \* command[s]: how many commands there were
  listed,    \* listed[s]: what was listed, has the prefix and was not
             \* removed yet
  to_fork,   \* to_fork[s]: offsets of the machines to be booted
  children,  \* the processes booting a machine, as that machine
  defined,   \* those of them that have defined it
  failed,    \* machines of the running commands whose process failed
  kept       \* machines the running commands could not remove (history, for
             \* the properties: the code does not know of them)

hostVars == <<doms, nets, bmcs>>
cmdVars == <<wanted, command>>
childVars == <<children, defined, failed>>
vars == <<hostVars, pc, cmdVars, listed, to_fork, childVars, kept>>

Phase == {"idle", "domains", "networks", "bmcs", "create", "boot", "over",
          "raised"}

TypeOK ==
  /\ doms \subseteq Machine
  /\ nets \subseteq Network
  /\ bmcs \subseteq Bmc
  /\ pc \in [Slice -> Phase]
  /\ wanted \in [Slice -> Requests \cup {0}]
  /\ command \in [Slice -> 0 .. MaxCommands]
  /\ listed \in [Slice -> SUBSET (Machine \cup Network \cup Bmc)]
  /\ to_fork \in [Slice -> SUBSET Offset]
  /\ children \subseteq Machine
  /\ defined \subseteq children
  /\ failed \subseteq Machine
  /\ kept \subseteq Machine

Init ==
  /\ doms = {} /\ nets = {} /\ bmcs = {}
  /\ pc = [s \in Slice |-> "idle"]
  /\ wanted = [s \in Slice |-> 0]
  /\ command = [s \in Slice |-> 0]
  /\ listed = [s \in Slice |-> {}]
  /\ to_fork = [s \in Slice |-> {}]
  /\ children = {} /\ defined = {} /\ failed = {} /\ kept = {}

-----------------------------------------------------------------------------
(* Names and addresses.                                                    *)

\* The digits of a number of at most two digits.
Digits(n, base) ==
  IF n < base THEN <<n>> ELSE <<n \div base, n % base>>

NoDigit == 16  \* the character after the slice number

\* Faulty variant: the prefix of any slice.
SelectsAny(s, name) == TRUE

\* name.startswith('bs' + str(build_slice)), the common 'bs' left out
Selects(s, name) == IsPrefix(Digits(s, 10), name)

DomainName(d) == Digits(d.slice, 16) \o <<NoDigit>>
NetName(n) == Digits(n.slice, 10) \o <<NoDigit>>

\* Faulty variant: the network is left out.
RelativeNoNet(slice_mul, s, net_id, offset) == s * slice_mul + offset

Relative(slice_mul, s, net_id, offset) ==
  s * slice_mul + SubnetMul * net_id + offset

get_addr_for(s, net_id, offset) ==
  IPV4_START + Relative(SliceNets * SubnetMul, s, net_id, offset)

get_int_mac(s, net_id, offset) ==
  MAC_START + Relative(MacExtra * (SliceNets * SubnetMul), s, net_id, offset)

bmc_port(s, offset) == BmcBase + s * 256 + offset

-----------------------------------------------------------------------------
(* wipe_slice.  Machines, networks and BMCs are listed, and those listed   *)
(* removed one after the other.                                            *)

Goto(s, phase) == pc' = [pc EXCEPT ![s] = phase]

Begin(s, n) ==
  /\ pc[s] \in {"idle", "over", "raised"}
  /\ \A m \in children : m.slice # s
  /\ command[s] < MaxCommands
  /\ wanted' = [wanted EXCEPT ![s] = n]
  /\ command' = [command EXCEPT ![s] = @ + 1]
  /\ listed' = [listed EXCEPT ![s] = {d \in doms : Selects(s, DomainName(d))}]
  /\ to_fork' = [to_fork EXCEPT ![s] = {}]
  /\ failed' = {m \in failed : m.slice # s}
  /\ kept' = {m \in kept : m.slice # s}
  /\ Goto(s, "domains")
  /\ UNCHANGED <<hostVars, children, defined>>

Removed(s, x) == listed' = [listed EXCEPT ![s] = @ \ {x}]

\* wipe_domain_by_uuid, with its disks.  The errors of destroy and undefine
\* are dropped: the machine may stay, and nobody hears of it.
WipeDomain(s, d) ==
  /\ pc[s] = "domains"
  /\ d \in listed[s]
  /\ Removed(s, d)
  /\ \/ /\ d \in doms
        /\ \/ doms' = doms \ {d} /\ UNCHANGED kept
           \/ kept' = kept \cup {d} /\ UNCHANGED doms
        /\ UNCHANGED pc
     \/ /\ d \notin doms  \* the lookup raises
        /\ Goto(s, "raised")
        /\ UNCHANGED <<doms, kept>>
  /\ UNCHANGED <<nets, bmcs, cmdVars, to_fork, childVars>>

ListNetworks(s) ==
  /\ pc[s] = "domains"
  /\ listed[s] = {}
  /\ listed' = [listed EXCEPT ![s] = {n \in nets : Selects(s, NetName(n))}]
  /\ Goto(s, "networks")
  /\ UNCHANGED <<hostVars, cmdVars, to_fork, childVars, kept>>

WipeNetwork(s, n) ==
  /\ pc[s] = "networks"
  /\ n \in listed[s]
  /\ Removed(s, n)
  /\ \/ /\ n \in nets
        /\ nets' = nets \ {n}
        /\ UNCHANGED pc
     \/ /\ n \notin nets  \* destroy raises, and undefine after it
        /\ Goto(s, "raised")
        /\ UNCHANGED nets
  /\ UNCHANGED <<doms, bmcs, cmdVars, to_fork, childVars, kept>>

ListBmcs(s) ==
  /\ pc[s] = "networks"
  /\ listed[s] = {}
  /\ listed' = [listed EXCEPT ![s] = IF BmcEnabled THEN bmcs ELSE {}]
  /\ Goto(s, "bmcs")
  /\ UNCHANGED <<hostVars, cmdVars, to_fork, childVars, kept>>

\* The delete stands behind the test of the name, not under it: every BMC
\* of the host goes.
WipeBmc(s, b) ==
  /\ pc[s] = "bmcs"
  /\ b \in listed[s]
  /\ Removed(s, b)
  /\ \/ /\ b \in bmcs
        /\ bmcs' = bmcs \ {b}
        /\ UNCHANGED pc
     \/ /\ b \notin bmcs
        /\ Goto(s, "raised")
        /\ UNCHANGED bmcs
  /\ UNCHANGED <<doms, nets, cmdVars, to_fork, childVars, kept>>

Wiped(s) ==
  /\ pc[s] = "bmcs"
  /\ listed[s] = {}
  /\ Goto(s, IF wanted[s] = 0 THEN "over" ELSE "create")
  /\ UNCHANGED <<hostVars, cmdVars, listed, to_fork, childVars, kept>>

-----------------------------------------------------------------------------
(* create_networks, boot_vms                                               *)

Missing(s) == {n \in Network : n.slice = s /\ n \notin nets}

CreateNetwork(s, n) ==  \* its name is free: the slice was just wiped
  /\ pc[s] = "create"
  /\ n \in Missing(s)
  /\ nets' = nets \cup {n}
  /\ UNCHANGED <<doms, bmcs, pc, cmdVars, listed, to_fork, childVars, kept>>

\* Faulty variant: the offset of the router is given to a machine.
StartBootAtOne(s) ==
  /\ pc[s] = "create"
  /\ Missing(s) = {}
  /\ to_fork' = [to_fork EXCEPT ![s] = 1 .. wanted[s]]
  /\ Goto(s, "boot")
  /\ UNCHANGED <<hostVars, cmdVars, listed, childVars, kept>>

StartBoot(s) ==
  /\ pc[s] = "create"
  /\ Missing(s) = {}
  /\ to_fork' = [to_fork EXCEPT ![s] = 2 .. wanted[s] + 1]
  /\ Goto(s, "boot")
  /\ UNCHANGED <<hostVars, cmdVars, listed, childVars, kept>>

Booted(s, offset) == [slice |-> s, offset |-> offset, n |-> command[s]]

\* The image of the machine is fetched or built, which may raise, and a
\* process is forked.
Fork(s, offset) ==
  /\ pc[s] = "boot"
  /\ offset \in to_fork[s]
  /\ \A o \in to_fork[s] : offset <= o
  /\ to_fork' = [to_fork EXCEPT ![s] = @ \ {offset}]
  /\ \/ /\ children' = children \cup {Booted(s, offset)}
        /\ UNCHANGED pc
     \/ /\ Goto(s, "raised")
        /\ UNCHANGED children
  /\ UNCHANGED <<hostVars, cmdVars, listed, defined, failed, kept>>

NameTaken(m) == \E d \in doms : d.slice = m.slice /\ d.offset = m.offset

\* Faulty variant: a second domain of the same name is accepted.
DefineAny(m) ==
  /\ m \in children \ defined
  /\ doms' = doms \cup {m}
  /\ defined' = defined \cup {m}
  /\ UNCHANGED <<nets, bmcs, pc, cmdVars, listed, to_fork, children, failed,
                 kept>>

\* bootvm: the domain is defined, unless its name is taken or something in
\* front of it fails (disks, config drive).
Define(m) ==
  /\ m \in children \ defined
  /\ \/ /\ ~NameTaken(m)
        /\ doms' = doms \cup {m}
        /\ defined' = defined \cup {m}
        /\ UNCHANGED <<children, failed>>
     \/ /\ children' = children \ {m}
        /\ failed' = failed \cup {m}
        /\ UNCHANGED <<doms, defined>>
  /\ UNCHANGED <<nets, bmcs, pc, cmdVars, listed, to_fork, kept>>

BmcOf(m) == [slice |-> m.slice, offset |-> m.offset]

\* The domain is started and gets a BMC; the process ends.
Start(m) ==
  /\ m \in defined
  /\ children' = children \ {m}
  /\ defined' = defined \ {m}
  /\ \/ /\ bmcs' = IF BmcEnabled THEN bmcs \cup {BmcOf(m)} ELSE bmcs
        /\ UNCHANGED failed
     \/ /\ failed' = failed \cup {m}
        /\ \/ UNCHANGED bmcs
           \/ BmcEnabled /\ bmcs' = bmcs \cup {BmcOf(m)}
  /\ UNCHANGED <<doms, nets, pc, cmdVars, listed, to_fork, kept>>

\* Faulty variant: nobody waits for the processes.
WaitNone(s) ==
  /\ pc[s] = "boot"
  /\ to_fork[s] = {}
  /\ Goto(s, "over")
  /\ UNCHANGED <<hostVars, cmdVars, listed, to_fork, childVars, kept>>

\* All processes are waited for; a failed one is only reported.
WaitAll(s) ==
  /\ pc[s] = "boot"
  /\ to_fork[s] = {}
  /\ \A m \in children : m.slice # s
  /\ Goto(s, "over")
  /\ UNCHANGED <<hostVars, cmdVars, listed, to_fork, childVars, kept>>

-----------------------------------------------------------------------------

WipeSlice(s) ==
  \/ \E x \in listed[s] :
       WipeDomain(s, x) \/ WipeNetwork(s, x) \/ WipeBmc(s, x)
  \/ ListNetworks(s) \/ ListBmcs(s) \/ Wiped(s)

Build(s) ==
  \/ \E n \in Network : CreateNetwork(s, n)
  \/ StartBoot(s)
  \/ \E offset \in to_fork[s] : Fork(s, offset)
  \/ WaitAll(s)

Next ==
  \/ \E s \in Slice : \/ \E n \in Requests \cup {0} : Begin(s, n)
                      \/ WipeSlice(s) \/ Build(s)
  \/ \E m \in children : Define(m) \/ Start(m)

Spec == Init /\ [][Next]_vars

-----------------------------------------------------------------------------
(* Properties.                                                             *)

Interface == doms \X Net
OfSlice(s) == {d \in doms : d.slice = s}

(***************************************************************************)
(* No two interfaces on the host have the same address, and no two         *)
(* machines the same BMC port, whichever slices are up together.           *)
(***************************************************************************)

AddressesAreUnique ==
  /\ \A i, j \in Interface :
       \/ get_addr_for(i[1].slice, NetId[i[2]], i[1].offset)
            = get_addr_for(j[1].slice, NetId[j[2]], j[1].offset)
       \/ get_int_mac(i[1].slice, NetId[i[2]], i[1].offset)
            = get_int_mac(j[1].slice, NetId[j[2]], j[1].offset)
       => i = j
  /\ \A d, e \in doms :
       bmc_port(d.slice, d.offset) = bmc_port(e.slice, e.offset) => d = e

(***************************************************************************)
(* A command only removes machines and networks of its own slice: they     *)
(* go only while that slice is being wiped.                                *)
(***************************************************************************)
StaysInItsSlice ==
  [][/\ \A d \in doms \ doms' : pc[d.slice] = "domains"
     /\ \A n \in nets \ nets' : pc[n.slice] = "networks"]_vars

(***************************************************************************)
(* When a command is through, the slice has the machines that it asked     *)
(* for, or it has reported which are missing, and no others but those the  *)
(* hypervisor did not give up when the command wiped the slice.            *)
(***************************************************************************)
CommandDelivers ==
  \A s \in Slice : pc[s] = "over" =>
    LET asked == {Booted(s, offset) : offset \in 2 .. wanted[s] + 1}
    IN  /\ OfSlice(s) \ kept \subseteq asked
        /\ asked \ OfSlice(s) \subseteq failed

=============================================================================
