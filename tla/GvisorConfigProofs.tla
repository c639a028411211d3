-------------------------- MODULE GvisorConfigProofs --------------------------
(***************************************************************************)
(* Proofs about GvisorConfig, for any number of leases and forwards and any *)
(* addresses and names.                                                    *)
(***************************************************************************)
EXTENDS GvisorConfig, TLAPS

(***************************************************************************)
(* The invariants of the loops: what the maps hold is what the leases and  *)
(* the forwards before the index say.                                      *)
(***************************************************************************)
Folded == {i \in DOMAIN leases : step = "leases" => i < at}

Forwarded ==
    {i \in DOMAIN forwards :
        step \in {"domains", "built"} \/ (step = "forwards" /\ i < at)}

MacInv ==
    \A i \in DOMAIN leases :
        (step = "macs" => i < at) => leases[i].mac # Unset

EmptyInv ==
    step = "macs" => /\ static = [ip \in Ip |-> None]
                     /\ byName = [name \in Name |-> None]
                     /\ forward = [host \in Host |-> None]

LeaseInv ==
    step \notin {"macs", "refused"}
        => /\ \A i \in Folded : /\ ~Incomplete(leases[i])
                                /\ static[leases[i].ip] = leases[i].mac
           /\ \A i, j \in Folded : ~Clash(i, j)
           /\ \A ip \in Ip : static[ip] # None
                 => \E i \in Folded : leases[i].ip = ip

NameInv ==
    step \notin {"macs", "refused"}
        => /\ \A i \in Folded :
                 (\A j \in Folded : j > i => leases[j].name # leases[i].name)
                    => byName[leases[i].name] = leases[i].ip
           /\ \A n \in Name : byName[n] # None
                 => \E i \in Folded : leases[i].name = n

ForwardInv ==
    step # "refused"
        => /\ \A i \in Forwarded :
                 (\A j \in Forwarded :
                     j > i => forwards[j].host # forwards[i].host)
                    => forward[forwards[i].host] = forwards[i].vm
           /\ \A h \in Host : forward[h] # None
                 => \E i \in Forwarded : forwards[i].host = h

DecisionInv ==
    /\ step = "built" => domains
    /\ step = "refused" => ~Acceptable \/ ~domains

IInv ==
    /\ MacInv
    /\ EmptyInv
    /\ LeaseInv
    /\ NameInv
    /\ ForwardInv
    /\ DecisionInv
    /\ LeasesInjective

-----------------------------------------------------------------------------
\* The plans of the initial states are sequences.
LEMMA UpToIsSeq ==
    ASSUME NEW S, NEW n \in Nat, NEW seq \in UpTo(S, n)
    PROVE  seq \in Seq(S) /\ Len(seq) <= n
<1>1. PICK k \in 0 .. n : seq \in [1 .. k -> S]
  BY DEF UpTo
<1>2. k \in Nat
  BY <1>1
<1> QED
  BY <1>1, <1>2

LEMMA InitHolds == Init => TypeOK /\ IInv
<1> SUFFICES ASSUME Init PROVE TypeOK /\ IInv
  OBVIOUS
<1>1. TypeOK
  <2>1. leases \in Seq(Lease) /\ Len(leases) <= MaxLeases
    BY UpToIsSeq, BoundsAssumption DEF Init
  <2>2. forwards \in Seq(Forward) /\ Len(forwards) <= MaxForwards
    BY UpToIsSeq, BoundsAssumption DEF Init
  <2> QED
    BY <2>1, <2>2 DEF Init, TypeOK
<1>2. MacInv
  <2>1. DOMAIN leases = 1 .. Len(leases) /\ Len(leases) \in Nat
    BY <1>1 DEF TypeOK
  <2> QED
    BY <2>1 DEF Init, MacInv
<1>3. EmptyInv /\ LeaseInv /\ NameInv /\ ForwardInv /\ DecisionInv
  BY DEF Init, EmptyInv, LeaseInv, NameInv, ForwardInv, Forwarded, DecisionInv
<1>4. LeasesInjective
  BY DEF Init, LeasesInjective
<1> QED
  BY <1>1, <1>2, <1>3, <1>4 DEF IInv

\* A lease that is complete and has an address is made of the maps' values.
LEMMA LeaseFacts ==
    ASSUME TypeOK, MacInv, step = "leases", at <= Len(leases)
    PROVE  /\ at \in DOMAIN leases
           /\ leases[at] \in Lease
           /\ ~Incomplete(leases[at])
                 => /\ leases[at].ip \in Ip /\ leases[at].name \in Name
                    /\ leases[at].mac \in Mac /\ leases[at].mac # None
<1>1. at \in DOMAIN leases /\ leases[at] \in Lease
  BY DEF TypeOK
<1>2. leases[at].mac # Unset
  BY <1>1 DEF MacInv
<1> QED
  BY <1>1, <1>2, DistinctAssumption DEF Lease, Incomplete

LEMMA TypeStep == TypeOK /\ MacInv /\ [Next]_vars => TypeOK'
<1> SUFFICES ASSUME TypeOK, MacInv, [Next]_vars PROVE TypeOK'
  OBVIOUS
<1> USE DEF plan, config
<1>1. CASE Draw
  <2>1. PICK mac \in Mac :
           leases' = [leases EXCEPT ![at].mac = IF @ = Unset THEN mac ELSE @]
    BY <1>1 DEF Draw
  <2>2. at \in DOMAIN leases /\ leases[at] \in Lease
    BY <1>1 DEF Draw, TypeOK
  <2>3. leases' \in Seq(Lease) /\ Len(leases') = Len(leases)
    <3>1. [leases[at] EXCEPT !.mac = IF @ = Unset THEN mac ELSE @] \in Lease
      BY <2>2 DEF Lease
    <3> QED
      BY <2>1, <2>2, <3>1 DEF TypeOK
  <2>4. domains' \in BOOLEAN
    BY <1>1 DEF Draw, TypeOK
  <2> QED
    BY <1>1, <2>3, <2>4 DEF Draw, TypeOK
<1>2. CASE RefuseLease
  <2>1. domains' \in BOOLEAN
    BY <1>2 DEF RefuseLease, TypeOK
  <2> QED
    BY <1>2, <2>1 DEF RefuseLease, TypeOK
<1>3. CASE AddLease
  <2>1. domains' \in BOOLEAN
    BY <1>3 DEF AddLease, TypeOK
  <2>2. step = "leases" /\ at <= Len(leases) /\ ~Incomplete(leases[at])
    BY <1>3 DEF AddLease
  <2>3. /\ leases[at].ip \in Ip /\ leases[at].name \in Name
        /\ leases[at].mac \in Mac
    BY <2>2, LeaseFacts
  <2> QED
    BY <1>3, <2>1, <2>3 DEF AddLease, TypeOK
<1>4. CASE AddForward
  <2>1. domains' \in BOOLEAN
    BY <1>4 DEF AddForward, TypeOK
  <2>2. forwards[at] \in Forward
    BY <1>4 DEF AddForward, TypeOK
  <2> QED
    BY <1>4, <2>1, <2>2 DEF AddForward, TypeOK, Forward
<1>5. CASE Finish
  <2>1. domains' \in BOOLEAN
    BY <1>5 DEF Finish, TypeOK
  <2> QED
    BY <1>5, <2>1 DEF Finish, TypeOK
<1>6. ASSUME NEW seq, NEW next \in {"leases", "forwards", "domains"},
             Ends(seq, next)
      PROVE  TypeOK'
  <2>1. domains' \in BOOLEAN
    BY <1>6 DEF Ends, TypeOK
  <2> QED
    BY <1>6, <2>1 DEF Ends, TypeOK
<1>7. CASE UNCHANGED vars
  <2>1. domains' \in BOOLEAN
    BY <1>7 DEF vars, TypeOK
  <2> QED
    BY <1>7, <2>1 DEF vars, TypeOK
<1> QED
  BY <1>1, <1>2, <1>3, <1>4, <1>5, <1>6, <1>7 DEF Next
-----------------------------------------------------------------------------
(* The invariant is preserved, action by action.                           *)

LEMMA Domains ==
    ASSUME TypeOK
    PROVE  /\ DOMAIN leases = 1 .. Len(leases) /\ Len(leases) \in Nat
           /\ DOMAIN forwards = 1 .. Len(forwards) /\ Len(forwards) \in Nat
           /\ at \in Nat \ {0}
  BY DEF TypeOK

LEMMA DrawStep == ASSUME TypeOK, IInv, Draw PROVE IInv'
<1>1. PICK mac \in Mac :
         leases' = [leases EXCEPT ![at].mac = IF @ = Unset THEN mac ELSE @]
  BY DEF Draw
<1>2. step = "macs" /\ step' = "macs" /\ at' = at + 1
  BY DEF Draw
<1>3. static' = static /\ byName' = byName /\ forward' = forward
      /\ forwards' = forwards
  BY DEF Draw, config
<1>4. MacInv'
  <2> SUFFICES ASSUME NEW i \in DOMAIN leases, i < at + 1
               PROVE  leases'[i].mac # Unset
    BY <1>1, <1>2 DEF MacInv
  <2>1. leases[i] \in Lease /\ mac # Unset
    BY DistinctAssumption DEF TypeOK
  <2>2. CASE i = at
    <3>1. leases'[i].mac = IF leases[i].mac = Unset THEN mac ELSE leases[i].mac
      BY <1>1, <2>1, <2>2 DEF Lease
    <3> QED
      BY <3>1, <2>1
  <2>3. CASE i # at
    <3>1. i < at /\ leases'[i] = leases[i]
      BY <1>1, <2>3, Domains
    <3> QED
      BY <3>1, <1>2 DEF IInv, MacInv
  <2> QED
    BY <2>2, <2>3
<1>5. EmptyInv' /\ LeaseInv' /\ NameInv' /\ DecisionInv'
  BY <1>2, <1>3 DEF IInv, EmptyInv, LeaseInv, NameInv, DecisionInv
<1>6. ForwardInv'
  BY <1>2, <1>3 DEF IInv, ForwardInv, Forwarded
<1>7. LeasesInjective'
  BY <1>3 DEF IInv, LeasesInjective
<1> QED
  BY <1>4, <1>5, <1>6, <1>7 DEF IInv

\* What the end of a loop keeps.
LEMMA EndsKeeps ==
    ASSUME IInv, NEW seq, NEW next, next \notin {"macs", "built", "refused"},
           Ends(seq, next), step = "macs" => at > Len(leases), TypeOK
    PROVE  MacInv' /\ EmptyInv' /\ DecisionInv' /\ LeasesInjective'
<1> USE DEF Ends, plan, config, IInv
<1>1. MacInv'
  BY Domains DEF MacInv
<1>2. EmptyInv' /\ DecisionInv'
  BY DEF EmptyInv, DecisionInv
<1>3. LeasesInjective'
  BY DEF LeasesInjective
<1> QED
  BY <1>1, <1>2, <1>3

LEMMA MacsEnd ==
    ASSUME TypeOK, IInv, step = "macs", Ends(leases, "leases") PROVE IInv'
<1>1. Folded' = {} /\ Forwarded' = {}
  BY Domains DEF Ends, plan, Folded, Forwarded
<1>2. LeaseInv' /\ NameInv' /\ ForwardInv'
  BY <1>1 DEF Ends, config, IInv, EmptyInv, LeaseInv, NameInv, ForwardInv
<1>3. at > Len(leases)
  BY DEF Ends
<1> QED
  BY <1>2, <1>3, EndsKeeps DEF IInv

LEMMA LeasesEnd ==
    ASSUME TypeOK, IInv, step = "leases", Ends(leases, "forwards") PROVE IInv'
<1>1. Folded' = Folded /\ Forwarded' = {} /\ Forwarded = {}
  BY Domains DEF Ends, plan, Folded, Forwarded
<1>2. LeaseInv'
  BY <1>1 DEF Ends, plan, config, IInv, LeaseInv, Clash, Incomplete
<1>3. NameInv'
  BY <1>1 DEF Ends, plan, config, IInv, NameInv
<1>4. ForwardInv'
  BY <1>1 DEF Ends, plan, config, IInv, ForwardInv
<1> QED
  BY <1>2, <1>3, <1>4, EndsKeeps DEF IInv

LEMMA ForwardsEnd ==
    ASSUME TypeOK, IInv, step = "forwards", Ends(forwards, "domains")
    PROVE  IInv'
<1>1. Folded' = Folded /\ Forwarded' = Forwarded
  BY Domains DEF Ends, plan, Folded, Forwarded
<1>2. LeaseInv'
  BY <1>1 DEF Ends, plan, config, IInv, LeaseInv, Clash, Incomplete
<1>3. NameInv'
  BY <1>1 DEF Ends, plan, config, IInv, NameInv
<1>4. ForwardInv'
  BY <1>1 DEF Ends, plan, config, IInv, ForwardInv
<1> QED
  BY <1>2, <1>3, <1>4, EndsKeeps DEF IInv

\* A lease that is taken clashes with one before it.
LEMMA TakenMeansClash ==
    ASSUME TypeOK, IInv, step = "leases", at <= Len(leases),
           ~Incomplete(leases[at]), Taken(leases[at])
    PROVE  \E i \in Folded : Clash(i, at)
<1>1. PICK ip \in Ip : \/ /\ ip = leases[at].ip
                          /\ static[ip] \notin {None, leases[at].mac}
                       \/ static[ip] = leases[at].mac
  BY DEF Taken
<1>2. static[ip] # None
  BY <1>1, LeaseFacts DEF IInv
<1>3. PICK i \in Folded : leases[i].ip = ip /\ static[ip] = leases[i].mac
  BY <1>2 DEF IInv, LeaseInv
<1>4. i # at
  BY <1>3, Domains DEF Folded
<1> QED
  BY <1>1, <1>3, <1>4 DEF Clash

LEMMA RefuseStep == ASSUME TypeOK, IInv, RefuseLease PROVE IInv'
<1> USE DEF RefuseLease, plan, config
<1>1. ~Acceptable
  <2>1. at \in DOMAIN leases
    BY LeaseFacts DEF IInv
  <2>2. CASE Incomplete(leases[at])
    BY <2>1, <2>2 DEF Acceptable
  <2>3. CASE ~Incomplete(leases[at]) /\ Taken(leases[at])
    <3>1. \E i \in Folded : Clash(i, at)
      BY <2>3, TakenMeansClash
    <3> QED
      BY <2>1, <3>1 DEF Acceptable, Folded
  <2> QED
    BY <2>2, <2>3
<1>2. DecisionInv'
  BY <1>1 DEF DecisionInv, Acceptable, Clash, Incomplete
<1>3. MacInv' /\ LeasesInjective'
  BY DEF IInv, MacInv, LeasesInjective
<1> QED
  BY <1>2, <1>3 DEF IInv, EmptyInv, LeaseInv, NameInv, ForwardInv

LEMMA AddLeaseStep == ASSUME TypeOK, IInv, AddLease PROVE IInv'
<1> DEFINE l == leases[at]
<1>1. step = "leases" /\ at <= Len(leases) /\ ~Incomplete(l) /\ ~Taken(l)
  BY DEF AddLease
<1>2. /\ at \in DOMAIN leases
      /\ l.ip \in Ip /\ l.name \in Name /\ l.mac \in Mac /\ l.mac # None
  BY <1>1, LeaseFacts DEF IInv
<1>3. /\ step' = step /\ at' = at + 1 /\ leases' = leases
      /\ forwards' = forwards /\ domains' = domains /\ forward' = forward
  BY DEF AddLease, plan
<1>4. /\ static'[l.ip] = l.mac
      /\ \A ip \in Ip \ {l.ip} : static'[ip] = static[ip]
      /\ byName'[l.name] = l.ip
      /\ \A n \in Name \ {l.name} : byName'[n] = byName[n]
  BY <1>2 DEF AddLease, TypeOK
<1>5. Folded' = Folded \cup {at} /\ at \notin Folded /\ at' \notin Folded
  BY <1>1, <1>2, <1>3, Domains DEF Folded
<1>6. static[l.ip] = None /\ \A ip \in Ip : static[ip] # l.mac
  BY <1>1, <1>2 DEF Taken
<1>7. ASSUME NEW i \in Folded
      PROVE  /\ leases[i].ip \in Ip /\ leases[i].name \in Name
             /\ leases[i].mac = static[leases[i].ip] /\ leases[i].mac # None
             /\ leases[i].ip # l.ip /\ leases[i].mac # l.mac
  <2>1. i \in DOMAIN leases /\ ~Incomplete(leases[i])
        /\ static[leases[i].ip] = leases[i].mac /\ leases[i].mac # Unset
    BY <1>1 DEF IInv, LeaseInv, MacInv, Folded
  <2>2. leases[i] \in Lease
    BY <2>1 DEF TypeOK
  <2>3. /\ leases[i].ip \in Ip /\ leases[i].name \in Name
        /\ leases[i].mac \in Mac
    BY <2>1, <2>2 DEF Lease, Incomplete
  <2> QED
    BY <2>1, <2>3, <1>6, DistinctAssumption
<1>8. MacInv' /\ EmptyInv' /\ DecisionInv'
  BY <1>1, <1>3 DEF IInv, MacInv, EmptyInv, DecisionInv
<1>9. LeaseInv'
  <2>1. \A i \in Folded' : /\ ~Incomplete(leases[i])
                           /\ static'[leases[i].ip] = leases[i].mac
    <3>1. ASSUME NEW i \in Folded
          PROVE  /\ ~Incomplete(leases[i])
                 /\ static'[leases[i].ip] = leases[i].mac
      <4>1. static'[leases[i].ip] = static[leases[i].ip]
        BY <1>4, <1>7
      <4> QED
        BY <4>1, <1>1, <1>7 DEF IInv, LeaseInv
    <3> QED
      BY <3>1, <1>1, <1>4, <1>5
  <2>2. \A i, j \in Folded' : ~Clash(i, j)
    <3>1. \A i, j \in Folded : ~Clash(i, j)
      BY <1>1 DEF IInv, LeaseInv
    <3>2. \A i \in Folded : ~Clash(i, at) /\ ~Clash(at, i)
      BY <1>7 DEF Clash
    <3>3. ~Clash(at, at)
      BY DEF Clash
    <3> QED
      BY <3>1, <3>2, <3>3, <1>5
  <2>3. ASSUME NEW ip \in Ip, static'[ip] # None
        PROVE  \E i \in Folded' : leases[i].ip = ip
    <3>1. CASE ip = l.ip
      BY <3>1, <1>5
    <3>2. CASE ip # l.ip
      BY <3>2, <2>3, <1>1, <1>4, <1>5 DEF IInv, LeaseInv
    <3> QED
      BY <3>1, <3>2
  <2> QED
    BY <2>1, <2>2, <2>3, <1>3 DEF LeaseInv, Clash, Incomplete
<1>10. NameInv'
  <2>1. ASSUME NEW i \in Folded',
               \A j \in Folded' : j > i => leases[j].name # leases[i].name
        PROVE  byName'[leases[i].name] = leases[i].ip
    <3>1. CASE i = at
      BY <3>1, <1>4
    <3>2. CASE i # at
      <4>1. i \in Folded /\ i < at
        BY <3>2, <1>1, <1>5 DEF Folded
      <4>2. leases[i].name # l.name
        BY <4>1, <2>1, <1>2, <1>5, Domains DEF Folded
      <4>3. byName[leases[i].name] = leases[i].ip
        BY <4>1, <2>1, <1>1, <1>5 DEF IInv, NameInv
      <4> QED
        BY <4>1, <4>2, <4>3, <1>4, <1>7
    <3> QED
      BY <3>1, <3>2
  <2>2. ASSUME NEW n \in Name, byName'[n] # None
        PROVE  \E i \in Folded' : leases[i].name = n
    <3>1. CASE n = l.name
      BY <3>1, <1>5
    <3>2. CASE n # l.name
      BY <3>2, <2>2, <1>1, <1>4, <1>5 DEF IInv, NameInv
    <3> QED
      BY <3>1, <3>2
  <2> QED
    BY <2>1, <2>2, <1>3 DEF NameInv
<1>11. ForwardInv'
  BY <1>1, <1>3 DEF IInv, ForwardInv, Forwarded
<1>12. LeasesInjective'
  <2>1. ASSUME NEW a \in Ip, NEW b \in Ip, static'[a] = static'[b],
               static'[a] # None
        PROVE  a = b
    BY <2>1, <1>4, <1>6 DEF IInv, LeasesInjective
  <2>2. ASSUME NEW n \in Name, byName'[n] # None PROVE static'[byName'[n]] # None
    <3>1. CASE n = l.name
      BY <3>1, <1>2, <1>4
    <3>2. CASE n # l.name
      <4>1. byName'[n] = byName[n] /\ byName[n] \in Ip
        BY <3>2, <2>2, <1>4 DEF TypeOK
      <4>2. static[byName[n]] # None
        BY <4>1, <2>2 DEF IInv, LeasesInjective
      <4> QED
        BY <4>1, <4>2, <1>2, <1>4
    <3> QED
      BY <3>1, <3>2
  <2> QED
    BY <2>1, <2>2 DEF LeasesInjective
<1> QED
  BY <1>8, <1>9, <1>10, <1>11, <1>12 DEF IInv
LEMMA ForwardHosts ==
    ASSUME TypeOK, NEW i \in DOMAIN forwards
    PROVE  forwards[i].host \in Host
<1>1. forwards[i] \in Forward
  BY DEF TypeOK
<1> QED
  BY <1>1 DEF Forward

LEMMA AddForwardStep == ASSUME TypeOK, IInv, AddForward PROVE IInv'
<1> DEFINE f == forwards[at]
<1>1. step = "forwards" /\ step' = "forwards" /\ at' = at + 1
  BY DEF AddForward
<1>2. at \in DOMAIN forwards /\ f.host \in Host
  <2>1. at \in DOMAIN forwards
    BY Domains DEF AddForward
  <2> QED
    BY <2>1, ForwardHosts
<1>3. /\ leases' = leases /\ forwards' = forwards /\ domains' = domains
      /\ static' = static /\ byName' = byName
  BY DEF AddForward, plan
<1>4. /\ forward'[f.host] = f.vm
      /\ \A h \in Host \ {f.host} : forward'[h] = forward[h]
  BY <1>2 DEF AddForward, TypeOK
<1>5. Forwarded' = Forwarded \cup {at} /\ Folded' = Folded
  BY <1>1, <1>2, <1>3, Domains DEF Forwarded, Folded
<1>6. MacInv' /\ EmptyInv' /\ DecisionInv' /\ LeasesInjective'
  BY <1>1, <1>3 DEF IInv, MacInv, EmptyInv, DecisionInv, LeasesInjective
<1>7. LeaseInv'
  BY <1>1, <1>3, <1>5 DEF IInv, LeaseInv, Clash, Incomplete
<1>8. NameInv'
  BY <1>1, <1>3, <1>5 DEF IInv, NameInv
<1>9. ForwardInv'
  <2>1. ASSUME NEW i \in Forwarded',
               \A j \in Forwarded' : j > i => forwards[j].host # forwards[i].host
        PROVE  forward'[forwards[i].host] = forwards[i].vm
    <3>1. CASE i = at
      BY <3>1, <1>4
    <3>2. CASE i # at
      <4>1. i \in Forwarded /\ i < at /\ forwards[i].host \in Host
        BY <3>2, <1>1, <1>5, ForwardHosts DEF Forwarded
      <4>2. forwards[i].host # f.host
        BY <4>1, <2>1, <1>2, <1>5, Domains DEF Forwarded
      <4>3. forward[forwards[i].host] = forwards[i].vm
        BY <4>1, <2>1, <1>1, <1>5 DEF IInv, ForwardInv
      <4> QED
        BY <4>1, <4>2, <4>3, <1>4
    <3> QED
      BY <3>1, <3>2
  <2>2. ASSUME NEW h \in Host, forward'[h] # None
        PROVE  \E i \in Forwarded' : forwards[i].host = h
    <3>1. CASE h = f.host
      BY <3>1, <1>5
    <3>2. CASE h # f.host
      BY <3>2, <2>2, <1>1, <1>4, <1>5 DEF IInv, ForwardInv
    <3> QED
      BY <3>1, <3>2
  <2> QED
    BY <2>1, <2>2, <1>3 DEF ForwardInv
<1> QED
  BY <1>6, <1>7, <1>8, <1>9 DEF IInv

LEMMA FinishStep == ASSUME TypeOK, IInv, Finish PROVE IInv'
<1>1. /\ step = "domains" /\ step' = IF domains THEN "built" ELSE "refused"
      /\ leases' = leases /\ forwards' = forwards /\ domains' = domains
      /\ at' = at
      /\ static' = static /\ byName' = byName /\ forward' = forward
  BY DEF Finish, plan, config
<1>2. MacInv' /\ EmptyInv' /\ DecisionInv' /\ LeasesInjective'
  BY <1>1 DEF IInv, MacInv, EmptyInv, DecisionInv, LeasesInjective
<1>3. Folded' = Folded
  BY <1>1 DEF Folded
<1>4. LeaseInv' /\ NameInv'
  BY <1>1, <1>3 DEF IInv, LeaseInv, NameInv, Clash, Incomplete
<1>5. ForwardInv'
  BY <1>1 DEF IInv, ForwardInv, Forwarded
<1> QED
  BY <1>2, <1>4, <1>5 DEF IInv

LEMMA StutterStep == IInv /\ UNCHANGED vars => IInv'
<1> USE DEF vars, plan, config
<1>1. IInv /\ UNCHANGED vars => MacInv' /\ EmptyInv' /\ LeasesInjective'
  BY DEF IInv, MacInv, EmptyInv, LeasesInjective
<1>2. IInv /\ UNCHANGED vars => LeaseInv' /\ NameInv'
  BY DEF IInv, LeaseInv, NameInv, Folded, Clash, Incomplete
<1>3. IInv /\ UNCHANGED vars => ForwardInv' /\ DecisionInv'
  BY DEF IInv, ForwardInv, Forwarded, DecisionInv, Acceptable, Clash,
     Incomplete
<1> QED
  BY <1>1, <1>2, <1>3 DEF IInv

LEMMA Inductive == Spec => [](TypeOK /\ IInv)
<1>1. TypeOK /\ IInv /\ [Next]_vars => IInv'
  BY DrawStep, RefuseStep, AddLeaseStep, AddForwardStep, FinishStep,
     StutterStep, MacsEnd, LeasesEnd, ForwardsEnd DEF Next
<1>2. TypeOK /\ IInv /\ [Next]_vars => (TypeOK /\ IInv)'
  BY <1>1, TypeStep DEF IInv
<1> QED
  BY <1>2, InitHolds, PTL DEF Spec

-----------------------------------------------------------------------------
(* The theorems.                                                           *)

\* The maps hold addresses only: no empty and no missing attribute gets there.
THEOREM TypeCorrect == Spec => []TypeOK
  BY Inductive, PTL

\* A plan is accepted if and only if its leases are complete and distinct.
THEOREM AcceptedPlansAreDistinct == Spec => []AcceptsAcceptable
<1>1. TypeOK /\ IInv => AcceptsAcceptable
  <2> SUFFICES ASSUME IInv, step = "built" PROVE Acceptable /\ domains
    BY DEF IInv, DecisionInv, AcceptsAcceptable
  <2>1. Folded = DOMAIN leases
    BY DEF Folded
  <2> QED
    BY <2>1 DEF IInv, LeaseInv, DecisionInv, Acceptable
<1> QED
  BY <1>1, Inductive, PTL

\* The configuration is the plan's, for a plan of any length.
THEOREM ConfigIsThePlans == Spec => []ConfigMatchesPlan
<1>1. TypeOK /\ IInv => ConfigMatchesPlan
  <2> SUFFICES ASSUME IInv, step = "built" PROVE ConfigMatchesPlan
    BY DEF ConfigMatchesPlan
  <2>1. Folded = DOMAIN leases /\ Forwarded = DOMAIN forwards
    BY DEF Folded, Forwarded
  <2>2. /\ \A i \in DOMAIN leases : static[leases[i].ip] = leases[i].mac
        /\ \A ip \in Ip : static[ip] # None
              => \E i \in DOMAIN leases : leases[i].ip = ip
    BY <2>1 DEF IInv, LeaseInv
  <2>3. /\ \A i \in DOMAIN leases :
              (\A j \in DOMAIN leases :
                  j > i => leases[j].name # leases[i].name)
                => byName[leases[i].name] = leases[i].ip
        /\ \A n \in Name : byName[n] # None
              => \E i \in DOMAIN leases : leases[i].name = n
    BY <2>1 DEF IInv, NameInv
  <2>4. /\ \A i \in DOMAIN forwards :
              (\A j \in DOMAIN forwards :
                  j > i => forwards[j].host # forwards[i].host)
                => forward[forwards[i].host] = forwards[i].vm
        /\ \A h \in Host : forward[h] # None
              => \E i \in DOMAIN forwards : forwards[i].host = h
    BY <2>1 DEF IInv, ForwardInv
  <2> QED
    BY <2>2, <2>3, <2>4 DEF ConfigMatchesPlan, Last
<1> QED
  BY <1>1, Inductive, PTL

\* A MAC address is leased one address and a name leads to a leased one.
THEOREM LeasesAreInjective == Spec => []LeasesInjective
<1>1. TypeOK /\ IInv => LeasesInjective
  BY DEF IInv
<1> QED
  BY <1>1, Inductive, PTL

(* The comment on networkLeaseModel, that every lease becomes a DHCP lease  *)
(* and a DNS name, is true of an accepted plan exactly when no two leases   *)
(* have one hostname.                                                      *)
DistinctNames ==
    \A i, j \in DOMAIN leases : i # j => leases[i].name # leases[j].name

THEOREM ExpandedIfNamesDiffer ==
    Spec => [](step = "built" => (EveryLeaseExpanded <=> DistinctNames))
<1>1. TypeOK /\ AcceptsAcceptable /\ ConfigMatchesPlan /\ step = "built"
        => (EveryLeaseExpanded <=> DistinctNames)
  <2> SUFFICES ASSUME TypeOK, AcceptsAcceptable, ConfigMatchesPlan,
                      step = "built"
               PROVE  EveryLeaseExpanded <=> DistinctNames
    OBVIOUS
  <2> DEFINE names == [i \in DOMAIN leases |-> leases[i].name]
  <2>0. DOMAIN leases \subseteq Nat
    BY DEF TypeOK, Lease
  <2>1. \A i, j \in DOMAIN leases : i # j => leases[i].ip # leases[j].ip
    BY DEF AcceptsAcceptable, Acceptable, Clash
  <2>2. /\ \A i \in DOMAIN leases : static[leases[i].ip] = leases[i].mac
        /\ \A i \in DOMAIN leases :
              Last(names, i) => byName[names[i]] = leases[i].ip
    BY DEF ConfigMatchesPlan
  <2>3. ASSUME EveryLeaseExpanded PROVE DistinctNames
    BY <2>1, <2>3 DEF EveryLeaseExpanded, DistinctNames
  <2>4. ASSUME DistinctNames PROVE EveryLeaseExpanded
    <3>1. ASSUME NEW i \in DOMAIN leases
          PROVE  byName[leases[i].name] = leases[i].ip
      <4>1. \A j \in DOMAIN leases : names[j] = leases[j].name
        OBVIOUS
      <4>2. DOMAIN names = DOMAIN leases
        OBVIOUS
      <4> HIDE DEF names
      <4>3. Last(names, i)
        BY <2>0, <2>4, <4>1, <4>2 DEF Last, DistinctNames
      <4> QED
        BY <2>2, <4>1, <4>3
    <3> QED
      BY <2>2, <3>1 DEF EveryLeaseExpanded
  <2> QED
    BY <2>3, <2>4
<1> QED
  BY <1>1, TypeCorrect, AcceptedPlansAreDistinct, ConfigIsThePlans, PTL
=============================================================================
