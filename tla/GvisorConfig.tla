----------------------------- MODULE GvisorConfig -----------------------------
(***************************************************************************)
(* The network's configuration: Create gives the leases without a MAC      *)
(* address a random one, then buildGvisorConfig turns the leases into DHCP *)
(* leases and DNS zones and the port forwards into forwards, or refuses.   *)
(*                                                                         *)
(* The plan is the input and any plan is allowed: an attribute may be the  *)
(* empty string, a lease may come twice. Maps of the code are functions    *)
(* whose value is None where the map has no entry. Addresses and names are  *)
(* compared as the strings they are.                                       *)
(***************************************************************************)
EXTENDS Naturals, Sequences

CONSTANTS
    Mac, Ip, Name, Host, Vm,
    MaxLeases, MaxForwards, \* bounds on the blocks of a plan
    Blank,                  \* the empty string
    Unset,                  \* an attribute that is null or unknown
    None

ASSUME BoundsAssumption == MaxLeases \in Nat /\ MaxForwards \in Nat
ASSUME DistinctAssumption ==
    /\ None \notin Mac \cup Ip \cup Vm
    /\ Unset \notin Mac \cup Ip \cup Name \cup {Blank}

VARIABLES
    leases,     \* plan.Leases
    forwards,   \* plan.PortForwards
    domains,    \* plan.DNSSearchDomains can be converted
    step,
    at,         \* the index of the loop in progress
    static,     \* config.DHCPStaticLeases
    byName,     \* dnsByName
    forward     \* config.Forwards

plan == <<leases, forwards, domains>>
config == <<static, byName, forward>>
vars == <<plan, step, at, config>>

Lease == [name : Name \cup {Blank}, ip : Ip \cup {Blank},
          mac : Mac \cup {Blank, Unset}]
Forward == [host : Host, vm : Vm]
UpTo(S, n) == UNION {[1 .. k -> S] : k \in 0 .. n}

TypeOK ==
    /\ leases \in Seq(Lease) /\ Len(leases) <= MaxLeases
    /\ forwards \in Seq(Forward) /\ Len(forwards) <= MaxForwards
    /\ domains \in BOOLEAN
    /\ step \in {"macs", "leases", "forwards", "domains", "built", "refused"}
    /\ at \in Nat \ {0}
    /\ static \in [Ip -> Mac \cup {None}]
    /\ byName \in [Name -> Ip \cup {None}]
    /\ forward \in [Host -> Vm \cup {None}]

Init ==
    /\ leases \in UpTo(Lease, MaxLeases)
    /\ forwards \in UpTo(Forward, MaxForwards)
    /\ domains \in BOOLEAN
    /\ step = "macs"
    /\ at = 1
    /\ static = [ip \in Ip |-> None]
    /\ byName = [name \in Name |-> None]
    /\ forward = [host \in Host |-> None]

-----------------------------------------------------------------------------
\* A loop that has come to its end is followed by the next step.
Ends(seq, next) ==
    /\ at > Len(seq)
    /\ step' = next
    /\ at' = 1
    /\ UNCHANGED <<plan, config>>

\* A random address is drawn without a look at the others.
Draw ==
    /\ step = "macs"
    /\ at <= Len(leases)
    /\ \E mac \in Mac :
          leases' = [leases EXCEPT
                        ![at].mac = IF @ = Unset THEN mac ELSE @]
    /\ at' = at + 1
    /\ UNCHANGED <<forwards, domains, step, config>>

\* Deviation: the MAC address is not looked at.
IncompleteName(l) == Blank \in {l.ip, l.name}

Incomplete(l) == Blank \in {l.mac, l.ip, l.name}

\* Deviation: the MAC address is not looked up.
IpTaken(l) == \E ip \in Ip : ip = l.ip /\ static[ip] \notin {None, l.mac}

\* The address is mapped to another MAC, or the MAC to any address: a lease
\* that repeats both is caught by the second test.
Taken(l) ==
    \E ip \in Ip : \/ ip = l.ip /\ static[ip] \notin {None, l.mac}
                   \/ static[ip] = l.mac

\* Deviation: a lease that cannot be taken is left out.
SkipLease ==
    /\ step = "leases"
    /\ at <= Len(leases)
    /\ Incomplete(leases[at]) \/ Taken(leases[at])
    /\ at' = at + 1
    /\ UNCHANGED <<plan, step, config>>

RefuseLease ==
    /\ step = "leases"
    /\ at <= Len(leases)
    /\ Incomplete(leases[at]) \/ Taken(leases[at])
    /\ step' = "refused"
    /\ UNCHANGED <<plan, at, config>>

\* Deviation: a name that is known keeps its first address.
AddLeaseOnce ==
    /\ step = "leases"
    /\ at <= Len(leases)
    /\ LET l == leases[at] IN
       /\ ~Incomplete(l)
       /\ ~Taken(l)
       /\ static' = [static EXCEPT ![l.ip] = l.mac]
       /\ byName' = [byName EXCEPT ![l.name] = IF @ = None THEN l.ip ELSE @]
    /\ at' = at + 1
    /\ UNCHANGED <<plan, step, forward>>

\* A name that came before is given the new address.
AddLease ==
    /\ step = "leases"
    /\ at <= Len(leases)
    /\ LET l == leases[at] IN
       /\ ~Incomplete(l)
       /\ ~Taken(l)
       /\ static' = [static EXCEPT ![l.ip] = l.mac]
       /\ byName' = [byName EXCEPT ![l.name] = l.ip]
    /\ at' = at + 1
    /\ UNCHANGED <<plan, step, forward>>

\* The last forward of a host address is the one that stays.
AddForward ==
    /\ step = "forwards"
    /\ at <= Len(forwards)
    /\ forward' = [forward EXCEPT ![forwards[at].host] = forwards[at].vm]
    /\ at' = at + 1
    /\ UNCHANGED <<plan, step, static, byName>>

Finish ==
    /\ step = "domains"
    /\ step' = IF domains THEN "built" ELSE "refused"
    /\ UNCHANGED <<plan, at, config>>

Next ==
    \/ Draw \/ RefuseLease \/ AddLease \/ AddForward \/ Finish
    \/ step = "macs" /\ Ends(leases, "leases")
    \/ step = "leases" /\ Ends(leases, "forwards")
    \/ step = "forwards" /\ Ends(forwards, "domains")

Spec == Init /\ [][Next]_vars

-----------------------------------------------------------------------------
(* Properties, against the plan with its addresses drawn.                  *)

Clash(i, j) ==
    i # j /\ (leases[i].ip = leases[j].ip \/ leases[i].mac = leases[j].mac)

Acceptable ==
    /\ \A i \in DOMAIN leases : ~Incomplete(leases[i])
    /\ \A i, j \in DOMAIN leases : ~Clash(i, j)

\* buildGvisorConfig accepts a plan exactly when its leases are complete and
\* no two of them share an address or a MAC, in whatever order they come and
\* however the addresses were drawn.
AcceptsAcceptable ==
    /\ step = "built" => Acceptable /\ domains
    /\ step = "refused" => ~Acceptable \/ ~domains

Last(seq, i) == \A j \in DOMAIN seq : j > i => seq[j] # seq[i]

\* The configuration of an accepted plan is the plan's and has nothing else:
\* a DHCP lease for each lease, and for each name and each host address what
\* the plan says of it last.
ConfigMatchesPlan ==
    LET names == [i \in DOMAIN leases |-> leases[i].name]
        hosts == [i \in DOMAIN forwards |-> forwards[i].host]
    IN  step = "built"
        => /\ \A i \in DOMAIN leases : static[leases[i].ip] = leases[i].mac
           /\ \A i \in DOMAIN leases :
                 Last(names, i) => byName[names[i]] = leases[i].ip
           /\ \A i \in DOMAIN forwards :
                 Last(hosts, i) => forward[hosts[i]] = forwards[i].vm
           /\ \A ip \in Ip : static[ip] # None
                 => \E i \in DOMAIN leases : leases[i].ip = ip
           /\ \A n \in Name : byName[n] # None
                 => \E i \in DOMAIN leases : names[i] = n
           /\ \A h \in Host : forward[h] # None
                 => \E i \in DOMAIN forwards : hosts[i] = h

\* No two DHCP leases give out one MAC, and every name leads to an address that
\* DHCP gives out, at every moment of the construction.
LeasesInjective ==
    /\ \A a, b \in Ip : static[a] = static[b] /\ static[a] # None => a = b
    /\ \A n \in Name : byName[n] # None => static[byName[n]] # None

\* What the comment on networkLeaseModel says: every lease becomes a DHCP lease
\* and a DNS name for its address.
EveryLeaseExpanded ==
    step = "built"
        => \A i \in DOMAIN leases : /\ static[leases[i].ip] = leases[i].mac
                                    /\ byName[leases[i].name] = leases[i].ip
=============================================================================
