----------------------------- MODULE NvmeProofs -----------------------------
(***************************************************************************)
(* What holds of the requests of the NVMe/RDMA host driver and of the      *)
(* target's configfs tree for any requests, regions, ports, hosts and      *)
(* namespaces: EndsWhenUnused of RdmaRequest and ConfigConsistent of       *)
(* NvmetConfig.                                                            *)
(***************************************************************************)
EXTENDS RdmaRequest, NvmetConfig, FiniteSetTheorems, TLAPS

-----------------------------------------------------------------------------
(* The configfs tree: links and permissions *)

linkPart == <<ports, subsystems, enabled, links, allowed, any_host>>

Linking(p) == \E s \in Subsys : <<p, s>> \in links
Listing(s) == \E h \in Host : <<s, h>> \in allowed

(* Links leave from ports that exist: configfs removes no port with links. *)
LinkInv ==
    /\ ports \subseteq Port /\ subsystems \subseteq Subsys
    /\ enabled \in [Port -> BOOLEAN] /\ any_host \in [Subsys -> BOOLEAN]
    /\ \A p \in Port : Linking(p) => p \in ports
    /\ \A p \in ports : enabled[p] <=> Linking(p)
    /\ \A s \in subsystems : any_host[s] => ~Listing(s)

(* A switch of a port or a subsystem is thrown, the others stay. *)
LEMMA Thrown ==
    ASSUME NEW S, NEW f \in [S -> BOOLEAN], NEW x \in S, NEW b \in BOOLEAN, NEW g,
           g = [f EXCEPT ![x] = b]
    PROVE  g \in [S -> BOOLEAN] /\ g[x] = b /\ \A y \in S \ {x} : g[y] = f[y]
  BY SMTT(30)

(* Every step keeps links, ports and permissions in agreement. *)
LEMMA LinkNext == LinkInv /\ ConfigNext => LinkInv'
<1> SUFFICES ASSUME LinkInv, ConfigNext PROVE LinkInv'
  OBVIOUS
<1>1. CASE UNCHANGED linkPart
  BY <1>1, Zenon DEF linkPart, LinkInv, Linking, Listing
<1>2. ASSUME NEW p \in Port, PortsMake(p) PROVE LinkInv'
  <2>1. /\ p \notin ports /\ ports' = ports \cup {p}
        /\ UNCHANGED <<subsystems, links, allowed, any_host>>
    BY <1>2 DEF PortsMake
  <2>2. /\ enabled' \in [Port -> BOOLEAN] /\ enabled'[p] = FALSE
        /\ \A r \in Port \ {p} : enabled'[r] = enabled[r]
    BY <1>2, Thrown DEF PortsMake, LinkInv
  <2>3. \A r : (Linking(r)' <=> Linking(r)) /\ (Listing(r)' <=> Listing(r))
    BY <2>1 DEF Linking, Listing
  <2>4. \A r \in ports' : enabled'[r] <=> Linking(r)
    BY <2>1, <2>2 DEF LinkInv
  <2> QED
    BY <2>1, <2>2, <2>3, <2>4 DEF LinkInv
<1>3. ASSUME NEW p \in Port, PortRelease(p) PROVE LinkInv'
  <2>1. /\ ports' = ports \ {p} /\ ~Linking(p)
        /\ UNCHANGED <<subsystems, links, allowed, enabled, any_host>>
    BY <1>3 DEF PortRelease, portv, Linking
  <2>2. \A r : (Linking(r)' <=> Linking(r)) /\ (Listing(r)' <=> Listing(r))
    BY <2>1 DEF Linking, Listing
  <2> QED
    BY <2>1, <2>2 DEF LinkInv
<1>4. ASSUME NEW s \in Subsys, SubsysMake(s) PROVE LinkInv'
  <2>1. /\ subsystems' = subsystems \cup {s}
        /\ UNCHANGED <<ports, links, allowed, enabled>>
    BY <1>4 DEF SubsysMake, portv
  <2>2. /\ any_host' \in [Subsys -> BOOLEAN] /\ any_host'[s] = FALSE
        /\ \A r \in Subsys \ {s} : any_host'[r] = any_host[r]
    BY <1>4, Thrown DEF SubsysMake, LinkInv
  <2>3. \A r : (Linking(r)' <=> Linking(r)) /\ (Listing(r)' <=> Listing(r))
    BY <2>1 DEF Linking, Listing
  <2>4. \A r \in subsystems' : any_host'[r] => ~Listing(r)
    BY <2>1, <2>2 DEF LinkInv
  <2> QED
    BY <2>1, <2>2, <2>3, <2>4 DEF LinkInv
<1>5. ASSUME NEW s \in Subsys, SubsysRelease(s) PROVE LinkInv'
  <2>1. /\ subsystems' = subsystems \ {s}
        /\ UNCHANGED <<ports, links, allowed, enabled, any_host>>
    BY <1>5 DEF SubsysRelease, portv
  <2>2. \A r : (Linking(r)' <=> Linking(r)) /\ (Listing(r)' <=> Listing(r))
    BY <2>1 DEF Linking, Listing
  <2> QED
    BY <2>1, <2>2 DEF LinkInv
<1>6. ASSUME NEW p \in Port, NEW s \in Subsys, PortSubsysAllowLink(p, s) PROVE LinkInv'
  <2>1. /\ p \in ports /\ links' = links \cup {<<p, s>>}
        /\ UNCHANGED <<ports, subsystems, allowed, any_host>>
        /\ \/ Linking(p) /\ enabled' = enabled
           \/ enabled' = [enabled EXCEPT ![p] = TRUE]
    BY <1>6 DEF PortSubsysAllowLink, dirs, Linking
  <2>2. Linking(p)' /\ \A r \in Port \ {p} : Linking(r)' <=> Linking(r)
    BY <2>1 DEF Linking
  <2>3. \A r : Listing(r)' <=> Listing(r)
    BY <2>1 DEF Listing
  <2>4. /\ enabled' \in [Port -> BOOLEAN] /\ enabled'[p]
        /\ \A r \in Port \ {p} : enabled'[r] = enabled[r]
    <3>1. CASE Linking(p) /\ enabled' = enabled
      BY <2>1, <3>1 DEF LinkInv
    <3>2. CASE enabled' = [enabled EXCEPT ![p] = TRUE]
      BY <3>2, Thrown DEF LinkInv
    <3> QED
      BY <2>1, <3>1, <3>2
  <2> QED
    BY <2>1, <2>2, <2>3, <2>4 DEF LinkInv
<1>7. ASSUME NEW p \in Port, NEW s \in Subsys, PortSubsysDropLink(p, s) PROVE LinkInv'
  <2>1. /\ <<p, s>> \in links /\ links' = links \ {<<p, s>>}
        /\ UNCHANGED <<ports, subsystems, allowed, any_host>>
    BY <1>7 DEF PortSubsysDropLink, dirs
  <2>2. \A r \in Port \ {p} : Linking(r)' <=> Linking(r)
    BY <2>1 DEF Linking
  <2>3. (Linking(p)' => Linking(p)) /\ \A r : Listing(r)' <=> Listing(r)
    BY <2>1 DEF Linking, Listing
  <2>4. /\ enabled' \in [Port -> BOOLEAN] /\ enabled'[p] = Linking(p)'
        /\ \A r \in Port \ {p} : enabled'[r] = enabled[r]
    BY <1>7, Thrown DEF PortSubsysDropLink, LinkInv, Linking
  <2> QED
    BY <2>1, <2>2, <2>3, <2>4 DEF LinkInv
<1>8. ASSUME NEW s \in Subsys, NEW h \in Host, AllowedHostsAllowLink(s, h) PROVE LinkInv'
  <2>1. /\ ~any_host[s] /\ allowed' = allowed \cup {<<s, h>>}
        /\ UNCHANGED <<ports, subsystems, enabled, links, any_host>>
    BY <1>8 DEF AllowedHostsAllowLink, dirs, portv
  <2>2. /\ \A r \in Subsys \ {s} : Listing(r)' <=> Listing(r)
        /\ \A r : Linking(r)' <=> Linking(r)
    BY <2>1 DEF Linking, Listing
  <2> QED
    BY <2>1, <2>2 DEF LinkInv
<1>9. ASSUME NEW s \in Subsys, NEW h \in Host, AllowedHostsDropLink(s, h) PROVE LinkInv'
  <2>1. /\ allowed' = allowed \ {<<s, h>>}
        /\ UNCHANGED <<ports, subsystems, enabled, links, any_host>>
    BY <1>9 DEF AllowedHostsDropLink, dirs, portv
  <2>2. (\A r : Listing(r)' => Listing(r)) /\ \A r : Linking(r)' <=> Linking(r)
    BY <2>1, Zenon DEF Linking, Listing
  <2> QED
    BY <2>1, <2>2 DEF LinkInv
<1>10. ASSUME NEW s \in Subsys, AllowAnyHostStore(s) PROVE LinkInv'
  <2>1. UNCHANGED <<ports, subsystems, enabled, links, allowed>>
    BY <1>10 DEF AllowAnyHostStore, dirs, portv
  <2>2. PICK v \in BOOLEAN : (v => ~Listing(s)) /\ any_host' = [any_host EXCEPT ![s] = v]
    BY <1>10, Zenon DEF AllowAnyHostStore, Listing
  <2>3. /\ any_host' \in [Subsys -> BOOLEAN] /\ any_host'[s] = v
        /\ \A r \in Subsys \ {s} : any_host'[r] = any_host[r]
    BY <2>2, Thrown DEF LinkInv
  <2>4. \A r : (Linking(r)' <=> Linking(r)) /\ (Listing(r)' <=> Listing(r))
    BY <2>1 DEF Linking, Listing
  <2> QED
    BY <2>1, <2>2, <2>3, <2>4 DEF LinkInv
<1> QED
  BY <1>1, <1>2, <1>3, <1>4, <1>5, <1>6, <1>7, <1>8, <1>9, <1>10, Zenon
     DEF ConfigNext, HostsMake, HostRelease, StoreTest, StoreWrite, NsMake, NsRelease, NsStore,
         NsEnableStore, NsAnaGrpidStore, AnaGroupsMake, AnaGroupRelease, AnaStateStore,
         linkPart, dirs, portv

-----------------------------------------------------------------------------
(* The configfs tree: ANA groups *)

anaPart == <<ns, ana_enabled, groups>>

NsRec == [s : Subsys \cup {"none"}, enabled : BOOLEAN, grp : Group, path : Addr \cup {"none"}]

In(g) == {n \in Ns : ns[n] # NoNs /\ ns[n].grp = g}
Dirs(g) == {p \in Port : <<p, g>> \in groups}
Always(g) == IF g = 1 THEN 1 ELSE 0

(* A namespace that exists has a subsystem; every group counts its own. *)
AnaInv ==
    /\ ana_enabled \in [Group -> Int] /\ ns \in [Ns -> NsRec]
    /\ \A n \in Ns : ns[n] = NoNs \/ ns[n].s \in Subsys
    /\ \A g \in Group : ana_enabled[g] = Always(g) + Cardinality(In(g)) + Cardinality(Dirs(g))

(* The namespaces and the directories of a group are finitely many. *)
LEMMA GroupFinite ==
    ASSUME NEW g
    PROVE  /\ IsFiniteSet(In(g)) /\ Cardinality(In(g)) \in Nat
           /\ IsFiniteSet(Dirs(g)) /\ Cardinality(Dirs(g)) \in Nat
<1>1. In(g) \subseteq Ns /\ Dirs(g) \subseteq Port
  BY DEF In, Dirs
<1> QED
  BY <1>1, ConfigAssumption, FS_Subset, FS_CardinalityType

(* Records of namespaces that exist have a subsystem; *)
LEMMA NsRecords ==
    /\ NoNs \in NsRec /\ NoNs.grp = 1
    /\ \A r \in NsRec : r.s \in Subsys => r # NoNs
    /\ \A r \in NsRec : r.grp \in Group
<1>1. NoNs \in NsRec /\ NoNs.grp = 1 /\ NoNs.s = "none"
  BY ConfigAssumption DEF NoNs, NsRec
<1>2. \A r \in NsRec : r.grp \in Group
  BY DEF NsRec
<1> QED
  BY <1>1, <1>2, ConfigAssumption
(* a new one is in the default group, *)
LEMMA NsNew ==
    ASSUME NEW s \in Subsys, NEW r, r = [NoNs EXCEPT !.s = s]
    PROVE  r \in NsRec /\ r.s = s /\ r.grp = 1
  BY ConfigAssumption, Zenon DEF NoNs, NsRec
(* one may move to another group, *)
LEMMA NsMoved ==
    ASSUME NEW x \in NsRec, NEW g \in Group, NEW r, r = [x EXCEPT !.grp = g]
    PROVE  r \in NsRec /\ r.s = x.s /\ r.grp = g
  BY DEF NsRec
(* and other attributes leave group and subsystem alone. *)
LEMMA NsSet ==
    ASSUME NEW x \in NsRec, NEW r,
           \/ \E a \in Addr : r = [x EXCEPT !.path = a]
           \/ r = [x EXCEPT !.enabled = TRUE]
           \/ r = [x EXCEPT !.enabled = FALSE]
    PROVE  r \in NsRec /\ r.s = x.s /\ r.grp = x.grp
<1>1. CASE \E a \in Addr : r = [x EXCEPT !.path = a]
  BY <1>1 DEF NsRec
<1>2. CASE r = [x EXCEPT !.enabled = TRUE]
  BY <1>2, Zenon DEF NsRec
<1>3. CASE r = [x EXCEPT !.enabled = FALSE]
  BY <1>3, Zenon DEF NsRec
<1> QED
  BY <1>1, <1>2, <1>3

(* A namespace gets the record r; the groups see it come and go. *)
LEMMA NsPut ==
    ASSUME AnaInv, NEW n \in Ns, NEW r \in NsRec, r = NoNs \/ r.s \in Subsys,
           ns' = [ns EXCEPT ![n] = r]
    PROVE  /\ ns' \in [Ns -> NsRec]
           /\ \A m \in Ns : ns'[m] = NoNs \/ ns'[m].s \in Subsys
           /\ \A g : (r # NoNs /\ r.grp = g) => In(g)' = In(g) \cup {n}
           /\ \A g : ~(r # NoNs /\ r.grp = g) => In(g)' = In(g) \ {n}
           /\ \A g : n \in In(g) <=> (ns[n] # NoNs /\ ns[n].grp = g)
<1>1. ns' \in [Ns -> NsRec] /\ ns'[n] = r /\ \A m \in Ns \ {n} : ns'[m] = ns[m]
  BY DEF AnaInv
<1> QED
  BY <1>1 DEF AnaInv, In

(* What that does to the size of a group. *)
LEMMA InCount ==
    ASSUME NEW g, NEW n
    PROVE  /\ Cardinality(In(g) \cup {n}) =
                IF n \in In(g) THEN Cardinality(In(g)) ELSE Cardinality(In(g)) + 1
           /\ Cardinality(In(g) \ {n}) =
                IF n \in In(g) THEN Cardinality(In(g)) - 1 ELSE Cardinality(In(g))
  BY GroupFinite, FS_AddElement, FS_RemoveElement, Zenon

(* Every step keeps the counts of the ANA groups right. *)
LEMMA AnaNext == AnaInv /\ ConfigNext => AnaInv'
<1> SUFFICES ASSUME AnaInv, ConfigNext PROVE AnaInv'
  OBVIOUS
<1> USE ConfigAssumption
<1>1. CASE UNCHANGED anaPart
  BY <1>1 DEF anaPart, AnaInv, In, Dirs
<1>2. ASSUME NEW n \in Ns, NEW s \in Subsys, NsMake(n, s) PROVE AnaInv'
  <2> DEFINE r == [NoNs EXCEPT !.s = s]
  <2>1. r \in NsRec /\ r.s = s /\ r.grp = 1
    BY NsNew, Zenon
  <2> HIDE DEF r
  <2>2. /\ ns[n] = NoNs /\ ns' = [ns EXCEPT ![n] = r] /\ groups' = groups
        /\ ana_enabled' = [ana_enabled EXCEPT ![1] = @ + 1]
    BY <1>2 DEF NsMake, r
  <2>3. r # NoNs
    BY <2>1, NsRecords
  <2>4. /\ ns' \in [Ns -> NsRec] /\ \A m \in Ns : ns'[m] = NoNs \/ ns'[m].s \in Subsys
        /\ In(1)' = In(1) \cup {n} /\ \A g \in Group \ {1} : In(g)' = In(g) \ {n}
        /\ \A g : n \notin In(g)
    BY <2>1, <2>2, <2>3, NsPut, Zenon
  <2>5. /\ Cardinality(In(1)') = Cardinality(In(1)) + 1
        /\ \A g \in Group \ {1} : Cardinality(In(g)') = Cardinality(In(g))
    BY <2>4, InCount, Zenon
  <2>6. \A g : Dirs(g)' = Dirs(g)
    BY <2>2 DEF Dirs
  <2>7. /\ ana_enabled' \in [Group -> Int] /\ ana_enabled'[1] = ana_enabled[1] + 1
        /\ \A g \in Group \ {1} : ana_enabled'[g] = ana_enabled[g]
    BY <2>2 DEF AnaInv
  <2>8. \A g : Cardinality(In(g)) \in Nat /\ Cardinality(Dirs(g)) \in Nat /\ Always(g) \in Nat
    BY GroupFinite DEF Always
  <2>9. \A g \in Group : ana_enabled'[g] = Always(g) + Cardinality(In(g)') + Cardinality(Dirs(g)')
    BY <2>5, <2>6, <2>7, <2>8 DEF AnaInv
  <2> QED
    BY <2>4, <2>7, <2>9 DEF AnaInv, Always
<1>3. ASSUME NEW n \in Ns, NsRelease(n) PROVE AnaInv'
  <2>1. PICK h \in Group : h = ns[n].grp
    BY NsRecords, Zenon DEF AnaInv
  <2>2. /\ ns[n] # NoNs /\ ns' = [ns EXCEPT ![n] = NoNs] /\ groups' = groups
        /\ ana_enabled' = [ana_enabled EXCEPT ![h] = @ - 1]
    BY <1>3, <2>1 DEF NsRelease
  <2>3. \A g : n \in In(g) <=> g = h
    BY <2>1, <2>2 DEF In
  <2>4. /\ ns' \in [Ns -> NsRec] /\ \A m \in Ns : ns'[m] = NoNs \/ ns'[m].s \in Subsys
        /\ \A g : In(g)' = In(g) \ {n}
    BY <2>2, NsPut, NsRecords, Zenon
  <2>5. /\ Cardinality(In(h)') = Cardinality(In(h)) - 1
        /\ \A g \in Group \ {h} : Cardinality(In(g)') = Cardinality(In(g))
    BY <2>3, <2>4, InCount, Zenon
  <2>6. \A g : Dirs(g)' = Dirs(g)
    BY <2>2 DEF Dirs
  <2>7. /\ ana_enabled' \in [Group -> Int] /\ ana_enabled'[h] = ana_enabled[h] - 1
        /\ \A g \in Group \ {h} : ana_enabled'[g] = ana_enabled[g]
    BY <2>1, <2>2 DEF AnaInv
  <2>8. \A g : Cardinality(In(g)) \in Nat /\ Cardinality(Dirs(g)) \in Nat /\ Always(g) \in Nat
    BY GroupFinite DEF Always
  <2>9. \A g \in Group : ana_enabled'[g] = Always(g) + Cardinality(In(g)') + Cardinality(Dirs(g)')
    BY <2>1, <2>5, <2>6, <2>7, <2>8 DEF AnaInv
  <2> QED
    BY <2>4, <2>7, <2>9 DEF AnaInv, Always
<1>4. ASSUME NEW n \in Ns, NsStore(n) \/ NsEnableStore(n) PROVE AnaInv'
  <2>1. PICK r : /\ \/ \E a \in Addr : r = [ns[n] EXCEPT !.path = a]
                    \/ r = [ns[n] EXCEPT !.enabled = TRUE]
                    \/ r = [ns[n] EXCEPT !.enabled = FALSE]
                 /\ ns' = [ns EXCEPT ![n] = r]
    BY <1>4, Zenon DEF NsStore, NsEnableStore
  <2>2. ns[n] # NoNs /\ UNCHANGED <<ana_enabled, groups>>
    BY <1>4 DEF NsStore, NsEnableStore, anav
  <2>3. r \in NsRec /\ r.s = ns[n].s /\ r.grp = ns[n].grp
    BY <2>1, NsSet DEF AnaInv
  <2>4. r.s \in Subsys /\ r # NoNs
    BY <2>2, <2>3, NsRecords DEF AnaInv
  <2>5. /\ ns' \in [Ns -> NsRec] /\ \A m \in Ns : ns'[m] = NoNs \/ ns'[m].s \in Subsys
        /\ \A g : In(g)' = In(g)
    <3>1. /\ ns' \in [Ns -> NsRec] /\ \A m \in Ns : ns'[m] = NoNs \/ ns'[m].s \in Subsys
          /\ \A g : r.grp = g => In(g)' = In(g) \cup {n}
          /\ \A g : r.grp # g => In(g)' = In(g) \ {n}
          /\ \A g : n \in In(g) <=> r.grp = g
      BY <2>1, <2>2, <2>3, <2>4, NsPut, Zenon
    <3>2. ASSUME NEW g PROVE In(g)' = In(g)
      <4>1. CASE r.grp = g
        <5>1. In(g)' = In(g) \cup {n} /\ n \in In(g)
          BY <3>1, <4>1
        <5> QED
          BY <5>1
      <4>2. CASE r.grp # g
        <5>1. In(g)' = In(g) \ {n} /\ n \notin In(g)
          BY <3>1, <4>2
        <5> QED
          BY <5>1
      <4> QED
        BY <4>1, <4>2
    <3> QED
      BY <3>1, <3>2
  <2>6. \A g : Dirs(g)' = Dirs(g)
    BY <2>2 DEF Dirs
  <2> QED
    BY <2>2, <2>5, <2>6 DEF AnaInv, Always
<1>5. ASSUME NEW n \in Ns, NsAnaGrpidStore(n) PROVE AnaInv'
  <2>1. PICK g \in Group :
           /\ ns' = [ns EXCEPT ![n].grp = g]
           /\ ana_enabled' = [[ana_enabled EXCEPT ![g] = @ + 1] EXCEPT ![ns[n].grp] = @ - 1]
    BY <1>5, Zenon DEF NsAnaGrpidStore
  <2> DEFINE h == ns[n].grp
             r == [ns[n] EXCEPT !.grp = g]
             up == [ana_enabled EXCEPT ![g] = @ + 1]
  <2>2. h \in Group /\ ns[n] \in NsRec
    BY NsRecords DEF AnaInv
  <2>3. r \in NsRec /\ r.s = ns[n].s /\ r.grp = g
    BY <2>2, NsMoved
  <2>4. ns' = [ns EXCEPT ![n] = r] /\ ana_enabled' = [up EXCEPT ![h] = @ - 1]
    BY <2>1
  <2>5. ns[n] # NoNs /\ groups' = groups
    BY <1>5 DEF NsAnaGrpidStore
  <2>6. \A f : n \in In(f) <=> f = h
    BY <2>5 DEF In
  <2>7. up \in [Group -> Int] /\ up[g] = ana_enabled[g] + 1
        /\ \A f \in Group \ {g} : up[f] = ana_enabled[f]
    BY DEF AnaInv
  <2> HIDE DEF h, r, up
  <2>8. r.s \in Subsys /\ r # NoNs
    BY <2>3, <2>5, NsRecords DEF AnaInv
  <2>9. /\ ns' \in [Ns -> NsRec] /\ \A m \in Ns : ns'[m] = NoNs \/ ns'[m].s \in Subsys
        /\ In(g)' = In(g) \cup {n} /\ \A f \in Group \ {g} : In(f)' = In(f) \ {n}
    BY <2>3, <2>4, <2>8, NsPut, Zenon
  <2>10. /\ ana_enabled' \in [Group -> Int] /\ ana_enabled'[h] = up[h] - 1
         /\ \A f \in Group \ {h} : ana_enabled'[f] = up[f]
    BY <2>2, <2>4, <2>7
  <2>11. \A f \in Group : ana_enabled'[f] - ana_enabled[f]
                            = Cardinality(In(f)') - Cardinality(In(f))
    <3>1. ASSUME NEW f \in Group
          PROVE  ana_enabled'[f] - ana_enabled[f] = Cardinality(In(f)') - Cardinality(In(f))
      <4>1. Cardinality(In(f)) \in Nat /\ ana_enabled[f] \in Int
        BY GroupFinite DEF AnaInv
      <4>2. CASE f = g /\ f = h
        <5>1. ana_enabled'[f] = ana_enabled[f]
          BY <2>7, <2>10, <4>1, <4>2
        <5>2. Cardinality(In(f)') = Cardinality(In(f))
          BY <2>6, <2>9, <4>2, InCount, Zenon
        <5> QED
          BY <4>1, <5>1, <5>2
      <4>3. CASE f = g /\ f # h
        <5>1. ana_enabled'[f] = ana_enabled[f] + 1
          BY <2>7, <2>10, <4>1, <4>3
        <5>2. Cardinality(In(f)') = Cardinality(In(f)) + 1
          BY <2>6, <2>9, <4>3, InCount
        <5> QED
          BY <4>1, <5>1, <5>2
      <4>4. CASE f # g /\ f = h
        <5>1. ana_enabled'[f] = ana_enabled[f] - 1
          BY <2>7, <2>10, <4>1, <4>4
        <5>2. Cardinality(In(f)') = Cardinality(In(f)) - 1
          BY <2>6, <2>9, <4>4, InCount
        <5> QED
          BY <4>1, <5>1, <5>2
      <4>5. CASE f # g /\ f # h
        <5>1. ana_enabled'[f] = ana_enabled[f]
          BY <2>7, <2>10, <4>1, <4>5
        <5>2. In(f)' = In(f) \ {n} /\ n \notin In(f)
          BY <2>6, <2>9, <4>5
        <5>3. Cardinality(In(f)') = Cardinality(In(f))
          BY <5>2, InCount
        <5> QED
          BY <4>1, <5>1, <5>3
      <4> QED
        BY <4>2, <4>3, <4>4, <4>5
    <3> QED
      BY <3>1
  <2>12. \A f : Dirs(f)' = Dirs(f) /\ In(f) \in SUBSET Ns /\ In(f)' \in SUBSET Ns
    BY <2>5 DEF Dirs, In
  <2>13. \A f : /\ Cardinality(In(f)) \in Nat /\ Cardinality(Dirs(f)) \in Nat /\ Always(f) \in Nat
                /\ Cardinality(In(f)') \in Nat
    BY <2>12, GroupFinite, FS_Subset, FS_CardinalityType DEF Always
  <2>14. \A f \in Group : ana_enabled'[f] = Always(f) + Cardinality(In(f)') + Cardinality(Dirs(f)')
    BY <2>10, <2>11, <2>12, <2>13 DEF AnaInv
  <2> QED
    BY <2>9, <2>10, <2>14 DEF AnaInv, Always
<1>6. ASSUME NEW p \in Port, NEW g \in Group, AnaGroupsMake(p, g) PROVE AnaInv'
  <2>1. /\ <<p, g>> \notin groups /\ groups' = groups \cup {<<p, g>>} /\ ns' = ns
        /\ ana_enabled' = [ana_enabled EXCEPT ![g] = @ + 1]
    BY <1>6 DEF AnaGroupsMake
  <2>2. /\ Dirs(g)' = Dirs(g) \cup {p} /\ p \notin Dirs(g)
        /\ \A f \in Group \ {g} : Dirs(f)' = Dirs(f)
        /\ \A f : In(f)' = In(f)
    BY <2>1 DEF Dirs, In
  <2>3. Cardinality(Dirs(g)') = Cardinality(Dirs(g)) + 1
    BY <2>2, GroupFinite, FS_AddElement, Zenon
  <2>4. /\ ana_enabled' \in [Group -> Int] /\ ana_enabled'[g] = ana_enabled[g] + 1
        /\ \A f \in Group \ {g} : ana_enabled'[f] = ana_enabled[f]
    BY <2>1 DEF AnaInv
  <2>5. \A f : Cardinality(In(f)) \in Nat /\ Cardinality(Dirs(f)) \in Nat /\ Always(f) \in Nat
    BY GroupFinite DEF Always
  <2>6. \A f \in Group : ana_enabled'[f] = Always(f) + Cardinality(In(f)') + Cardinality(Dirs(f)')
    <3>1. ana_enabled'[g] = Always(g) + Cardinality(In(g)') + Cardinality(Dirs(g)')
      BY <2>2, <2>3, <2>4, <2>5 DEF AnaInv
    <3>2. ASSUME NEW f \in Group \ {g}
          PROVE  ana_enabled'[f] = Always(f) + Cardinality(In(f)') + Cardinality(Dirs(f)')
      BY <2>2, <2>4 DEF AnaInv
    <3> QED
      BY <3>1, <3>2
  <2> QED
    BY <2>1, <2>4, <2>6 DEF AnaInv, Always
<1>7. ASSUME NEW p \in Port, NEW g \in Group, AnaGroupRelease(p, g) PROVE AnaInv'
  <2>1. /\ <<p, g>> \in groups /\ groups' = groups \ {<<p, g>>} /\ ns' = ns
        /\ ana_enabled' = [ana_enabled EXCEPT ![g] = @ - 1]
    BY <1>7 DEF AnaGroupRelease
  <2>2. /\ Dirs(g)' = Dirs(g) \ {p} /\ p \in Dirs(g)
        /\ \A f \in Group \ {g} : Dirs(f)' = Dirs(f)
        /\ \A f : In(f)' = In(f)
    BY <2>1 DEF Dirs, In
  <2>3. Cardinality(Dirs(g)') = Cardinality(Dirs(g)) - 1
    BY <2>2, GroupFinite, FS_RemoveElement, Zenon
  <2>4. /\ ana_enabled' \in [Group -> Int] /\ ana_enabled'[g] = ana_enabled[g] - 1
        /\ \A f \in Group \ {g} : ana_enabled'[f] = ana_enabled[f]
    BY <2>1 DEF AnaInv
  <2>5. \A f : Cardinality(In(f)) \in Nat /\ Cardinality(Dirs(f)) \in Nat /\ Always(f) \in Nat
    BY GroupFinite DEF Always
  <2>6. \A f \in Group : ana_enabled'[f] = Always(f) + Cardinality(In(f)') + Cardinality(Dirs(f)')
    <3>1. ana_enabled'[g] = Always(g) + Cardinality(In(g)') + Cardinality(Dirs(g)')
      BY <2>2, <2>3, <2>4, <2>5 DEF AnaInv
    <3>2. ASSUME NEW f \in Group \ {g}
          PROVE  ana_enabled'[f] = Always(f) + Cardinality(In(f)') + Cardinality(Dirs(f)')
      BY <2>2, <2>4 DEF AnaInv
    <3> QED
      BY <3>1, <3>2
  <2> QED
    BY <2>1, <2>4, <2>6 DEF AnaInv, Always
<1> QED
  BY <1>1, <1>2, <1>3, <1>4, <1>5, <1>6, <1>7, Zenon
     DEF ConfigNext, PortsMake, PortRelease, StoreTest, SubsysMake, SubsysRelease,
         AllowAnyHostStore, HostsMake, HostRelease, StoreWrite, PortSubsysAllowLink,
         PortSubsysDropLink, AllowedHostsAllowLink, AllowedHostsDropLink, AnaStateStore,
         anaPart, anav

(* The tree starts empty. *)
LEMMA ConfigStarts == ConfigInit => LinkInv /\ AnaInv
<1> SUFFICES ASSUME ConfigInit PROVE LinkInv /\ AnaInv
  OBVIOUS
<1>1. LinkInv
  BY DEF ConfigInit, LinkInv, Linking, Listing
<1>2. \A g : In(g) = {} /\ Dirs(g) = {}
  BY DEF ConfigInit, In, Dirs
<1>3. \A g \in Group : ana_enabled[g] = Always(g) /\ Always(g) \in Nat
  BY DEF ConfigInit, Always
<1>4. \A g \in Group : Cardinality(In(g)) = 0 /\ Cardinality(Dirs(g)) = 0
  BY <1>2, FS_EmptySet
<1>5. ana_enabled \in [Group -> Int] /\ ns \in [Ns -> NsRec] /\ \A n \in Ns : ns[n] = NoNs
  BY NsRecords DEF ConfigInit
<1>6. \A g \in Group : ana_enabled[g] = Always(g) + Cardinality(In(g)) + Cardinality(Dirs(g))
  BY <1>3, <1>4
<1> QED
  BY <1>1, <1>5, <1>6 DEF AnaInv

(* Whatever is made, linked, moved and removed in the configfs tree, in    *)
(* whatever order: ports serve while they are linked, open subsystems list *)
(* no hosts, and nvmet_ana_group_enabled counts what is in a group; for    *)
(* any ports, subsystems, hosts, namespaces and groups.                    *)
THEOREM ConfigCorrect == ConfigSpec => []ConfigConsistent
<1>1. LinkInv /\ AnaInv /\ UNCHANGED configVars => (LinkInv /\ AnaInv)'
  <2> SUFFICES ASSUME LinkInv, AnaInv, UNCHANGED configVars PROVE LinkInv' /\ AnaInv'
    OBVIOUS
  <2>1. UNCHANGED linkPart /\ UNCHANGED anaPart
    BY DEF configVars, dirs, portv, anav, linkPart, anaPart
  <2>2. LinkInv'
    BY <2>1, Zenon DEF linkPart, LinkInv, Linking, Listing
  <2>3. AnaInv'
    BY <2>1 DEF anaPart, AnaInv, In, Dirs
  <2> QED
    BY <2>2, <2>3
<1>2. LinkInv /\ AnaInv => ConfigConsistent
  BY Zenon DEF LinkInv, AnaInv, Linking, Listing, In, Dirs, Always, ConfigConsistent
<1> QED
  BY ConfigStarts, LinkNext, AnaNext, <1>1, <1>2, PTL DEF ConfigSpec

-----------------------------------------------------------------------------
(* Requests and memory regions *)

Types ==
    /\ TypeOK
    /\ wr \in [Req -> SUBSET {"send", "inv"}]
    /\ answer \in [Req -> {"none", "owed", "plain", "invalidated"}] /\ ends \in [Req -> Nat]

\* A region belongs to the pool or to one request.
Owned(r) ==
    /\ mr[r] \notin pool /\ \A s \in Req \ {r} : mr[r] # None => mr[s] # mr[r]
    /\ st[r] \in {"idle", "failed"} => mr[r] = None
EndsOnce(r) == ends[r] <= 1 /\ (st[r] = "started" => ends[r] = 0)

\* While the completion of the SEND and the answer, or the invalidation it leads to,
\* are both to come, ref counts them both.
Waiting(r) ==
    /\ ref[r] \in {1, 2}
    /\ "send" \in wr[r] /\ (answer[r] # "none" \/ "inv" \in wr[r] \/ mr[r] \in valid)
          => ref[r] = 2
    /\ answer[r] # "none" => "inv" \notin wr[r]
    /\ answer[r] = "invalidated" => mr[r] \notin valid
Over(r) == wr[r] = {} /\ answer[r] = "none" /\ mr[r] \notin valid
Local(r) ==
    /\ queue = "drained" => wr[r] = {} /\ answer[r] = "none"
    /\ queue # "drained" => IF st[r] = "started" THEN Waiting(r) ELSE Over(r)

IInv ==
    /\ Types /\ (queue # "drained" => pool \cap valid = {})
    /\ \A r \in Req : Owned(r) /\ EndsOnce(r) /\ Local(r)

(* The types are kept. *)
LEMMA TypesNext == IInv /\ [Next]_vars => Types'
  <1> SUFFICES ASSUME IInv, [Next]_vars PROVE Types'
    OBVIOUS
  <1> USE DEF Types, TypeOK
  <1>0. Types
    BY DEF IInv
  <1>1. CASE UNCHANGED vars
    BY <1>0, <1>1 DEF vars, hca
  <1>2. ASSUME NEW r \in Req, QueueRq(r) PROVE Types'
    BY <1>0, <1>2 DEF QueueRq
  <1>3. ASSUME NEW r \in Req, QueueRqFails(r) PROVE Types'
    BY <1>0, <1>3 DEF QueueRqFails, hca
  <1>4. ASSUME NEW r \in Req, Respond(r) PROVE Types'
    BY <1>0, <1>4 DEF Respond
  <1>5. ASSUME NEW r \in Req, DecAndEnd(r), ref[r] \in {1, 2}
        PROVE  /\ st' \in [Req -> {"idle", "started", "ended", "failed"}]
               /\ ref' \in [Req -> 0 .. 2] /\ ends' \in [Req -> Nat]
    BY <1>0, <1>5 DEF DecAndEnd
  <1>6. \A r \in Req : queue # "drained" /\ (wr[r] # {} \/ answer[r] # "none")
                          => ref[r] \in {1, 2}
    BY DEF IInv, Local, Waiting, Over
  <1>7. ASSUME NEW r \in Req, SendDone(r) PROVE Types'
    BY <1>0, <1>5, <1>6, <1>7 DEF SendDone, Error, Recover
  <1>8. ASSUME NEW r \in Req, RecvDone(r) PROVE Types'
    BY <1>0, <1>5, <1>6, <1>8 DEF RecvDone, Error, Recover
  <1>9. ASSUME NEW r \in Req, InvRkeyDone(r) PROVE Types'
    BY <1>0, <1>5, <1>6, <1>9 DEF InvRkeyDone, Error, Recover
  <1>10. ASSUME NEW r \in Req, CompleteRq(r) PROVE Types'
    BY <1>0, <1>10 DEF CompleteRq, hca
  <1>11. ASSUME NEW r \in Req, CancelRequest(r) PROVE Types'
    BY <1>0, <1>11 DEF CancelRequest, hca
  <1>12. CASE WrError \/ StopQueue \/ Reconnect
    BY <1>0, <1>12 DEF WrError, StopQueue, Reconnect, Error, Recover, hca
  <1> QED
    BY <1>1, <1>2, <1>3, <1>4, <1>7, <1>8, <1>9, <1>10, <1>11, <1>12 DEF Next

(* Regions keep their owners, and those in the pool are invalid. *)
LEMMA OwnedNext ==
    IInv /\ [Next]_vars => (\A r \in Req : Owned(r)') /\ (queue' # "drained" => pool' \cap valid' = {})
  <1> SUFFICES ASSUME IInv, [Next]_vars
               PROVE  (\A r \in Req : Owned(r)') /\ (queue' # "drained" => pool' \cap valid' = {})
    OBVIOUS
  <1>0. /\ Types /\ \A r \in Req : Owned(r)
        /\ queue # "drained" => pool \cap valid = {}
    BY DEF IInv
  <1> USE DEF Owned, Types, TypeOK
  <1>1. CASE UNCHANGED vars
    BY <1>0, <1>1 DEF vars, hca
  <1>2. ASSUME NEW r \in Req, QueueRq(r)
        PROVE  (\A s \in Req : Owned(s)') /\ (queue' # "drained" => pool' \cap valid' = {})
    BY <1>0, <1>2, RegionAssumption DEF QueueRq
  <1>3. ASSUME NEW r \in Req, CompleteRq(r)
        PROVE  (\A s \in Req : Owned(s)') /\ (queue' # "drained" => pool' \cap valid' = {})
    <2>1. queue # "drained" => mr[r] \notin valid
      BY <1>3 DEF CompleteRq, IInv, Local, Over
    <2> QED
      BY <1>0, <1>3, <2>1, RegionAssumption DEF CompleteRq, hca
  <1>4. CASE Reconnect
    BY <1>0, <1>4, RegionAssumption DEF Reconnect
  <1>5. ASSUME mr' = mr, pool' = pool, valid' \subseteq valid,
               queue' # "drained" => queue # "drained",
               \A s \in Req : st'[s] \in {"idle", "failed"} => st[s] \in {"idle", "failed"}
        PROVE  (\A s \in Req : Owned(s)') /\ (queue' # "drained" => pool' \cap valid' = {})
    BY <1>0, <1>5, SMTT(30)
  <1>6. ASSUME NEW r \in Req, QueueRqFails(r) \/ Respond(r) \/ CancelRequest(r)
        PROVE  (\A s \in Req : Owned(s)') /\ (queue' # "drained" => pool' \cap valid' = {})
    BY <1>0, <1>5, <1>6, SMTT(30) DEF QueueRqFails, Respond, CancelRequest, hca
  <1>7. ASSUME NEW r \in Req, SendDone(r) \/ RecvDone(r) \/ InvRkeyDone(r)
        PROVE  (\A s \in Req : Owned(s)') /\ (queue' # "drained" => pool' \cap valid' = {})
    BY <1>0, <1>5, <1>7, SMTT(30) DEF SendDone, RecvDone, InvRkeyDone, DecAndEnd, Error, Recover
  <1>8. CASE WrError \/ StopQueue
    BY <1>0, <1>5, <1>8, SMTT(30) DEF WrError, StopQueue, Error, Recover, hca
  <1> QED
    BY <1>1, <1>2, <1>3, <1>4, <1>6, <1>7, <1>8, Zenon DEF Next

(* A step that leaves a request alone, and makes no region valid it has, leaves it as *)
(* it was.                                                                            *)
LEMMA Untouched ==
    ASSUME IInv, NEW s \in Req, st'[s] = st[s], ref'[s] = ref[s], mr'[s] = mr[s],
           wr'[s] = wr[s], answer'[s] = answer[s], ends'[s] = ends[s],
           queue' = "drained" <=> queue = "drained", mr[s] \in valid' => mr[s] \in valid
    PROVE  EndsOnce(s)' /\ Local(s)'
  BY SMTT(30) DEF IInv, EndsOnce, Local, Waiting, Over

(* Completions: a request ends with the last of them, and then nothing is posted. *)
LEMMA Completes ==
    ASSUME IInv, NEW r \in Req, SendDone(r) \/ RecvDone(r) \/ InvRkeyDone(r)
    PROVE  EndsOnce(r)' /\ Local(r)'
  <1>0. Types /\ EndsOnce(r) /\ queue # "drained" /\ st[r] = "started" /\ Waiting(r)
    BY SMTT(30) DEF IInv, Local, Over, SendDone, RecvDone, InvRkeyDone
  <1>1. queue' # "drained" /\ mr' = mr
    BY <1>0 DEF SendDone, RecvDone, InvRkeyDone, Error, Recover
  <1>2. ASSUME DecAndEnd(r)
        PROVE  /\ ref[r] = 2 => ref'[r] = 1 /\ st'[r] = "started" /\ ends'[r] = 0
               /\ ref[r] = 1 => st'[r] = "ended" /\ ends'[r] = 1
    BY <1>0, <1>2 DEF DecAndEnd, Types, TypeOK, EndsOnce
  <1> USE DEF EndsOnce, Local
  <1>3. CASE SendDone(r)
    <2>1. /\ wr'[r] = wr[r] \ {"send"} /\ answer' = answer /\ valid' = valid /\ "send" \in wr[r]
      BY <1>0, <1>3, SMTT(30) DEF SendDone, Types
    <2>2. CASE DecAndEnd(r)
      <3>1. ref[r] = 1 => Over(r)'
        BY <1>0, <1>1, <2>1, SMTT(30) DEF Waiting, Over, Types
      <3>2. ref[r] = 2 => Waiting(r)'
        BY <1>0, <1>1, <1>2, <2>1, <2>2, SMTT(30) DEF Waiting
      <3> QED
        BY <1>0, <1>1, <1>2, <2>2, <3>1, <3>2, SMTT(30) DEF Waiting
    <2>3. CASE UNCHANGED <<st, ref, ends>>
      BY <1>0, <1>1, <2>1, <2>3 DEF Waiting
    <2> QED
      BY <1>3, <2>2, <2>3, Zenon DEF SendDone
  <1>4. CASE RecvDone(r)
    <2>1. answer'[r] = "none" /\ answer[r] \in {"plain", "invalidated"} /\ valid' = valid
      BY <1>0, <1>4, Zenon DEF RecvDone, Types
    <2>2. CASE DecAndEnd(r) /\ wr' = wr /\ (answer[r] = "invalidated" \/ mr[r] = None)
      <3>1. mr[r] \notin valid
        BY <1>0, <2>2, RegionAssumption DEF Waiting, Types, TypeOK
      <3>2. ref[r] = 1 => Over(r)'
        <4>1. wr[r] \subseteq {"send", "inv"}
          BY <1>0, Zenon DEF Types
        <4>2. ref[r] = 1 => "send" \notin wr[r] /\ "inv" \notin wr[r]
          BY <1>0, <2>1, SMTT(30) DEF Waiting
        <4>3. ref[r] = 1 => wr'[r] = {}
          BY <2>2, <4>1, <4>2, SMTT(30)
        <4> QED
          BY <1>1, <2>1, <3>1, <4>3, Zenon DEF Over
      <3>3. ref[r] = 2 => Waiting(r)'
        BY <1>0, <1>1, <1>2, <2>1, <2>2, <3>1 DEF Waiting
      <3> QED
        BY <1>0, <1>1, <1>2, <2>2, <3>2, <3>3, SMTT(30) DEF Waiting
    <2>3. CASE UNCHANGED <<st, ref, ends>> /\ (wr' = wr \/ wr'[r] = wr[r] \cup {"inv"})
      BY <1>0, <1>1, <2>1, <2>3, SMTT(30) DEF Waiting
    <2> QED
      BY <1>0, <1>4, <2>2, <2>3, Zenon DEF RecvDone, Types
  <1>5. CASE InvRkeyDone(r)
    <2>1. wr'[r] = wr[r] \ {"inv"} /\ answer' = answer /\ "inv" \in wr[r] /\ answer[r] = "none"
      BY <1>0, <1>5, Zenon DEF InvRkeyDone, Waiting, Types
    <2>2. CASE DecAndEnd(r) /\ valid' = valid \ {mr[r]}
      <3>1. ref[r] = 1 => Over(r)'
        BY <1>0, <1>1, <2>1, <2>2 DEF Waiting, Over, Types
      <3>2. ref[r] = 2 => Waiting(r)'
        BY <1>0, <1>1, <1>2, <2>1, <2>2, Zenon DEF Waiting
      <3> QED
        BY <1>0, <1>1, <1>2, <2>2, <3>1, <3>2, SMTT(30) DEF Waiting
    <2>3. CASE UNCHANGED <<st, ref, ends, valid>>
      BY <1>0, <1>1, <2>1, <2>3, Zenon DEF Waiting
    <2> QED
      BY <1>5, <2>2, <2>3 DEF InvRkeyDone
  <1> QED
    BY <1>3, <1>4, <1>5, SMTT(30)

(* Every step keeps what is known of each request. *)
LEMMA LocalNext == IInv /\ [Next]_vars => \A s \in Req : EndsOnce(s)' /\ Local(s)'
  <1> SUFFICES ASSUME IInv, [Next]_vars, NEW s \in Req PROVE EndsOnce(s)' /\ Local(s)'
    OBVIOUS
  <1>0. Types /\ \A r \in Req : Owned(r) /\ EndsOnce(r) /\ Local(r)
    BY DEF IInv
  <1> USE DEF Types, TypeOK
  <1>1. CASE UNCHANGED vars
    BY <1>1, Untouched, Zenon DEF vars, hca
  <1>2. ASSUME NEW r \in Req, SendDone(r) \/ RecvDone(r) \/ InvRkeyDone(r)
        PROVE  EndsOnce(s)' /\ Local(s)'
    <2>1. CASE s # r
      <3>1. /\ st'[s] = st[s] /\ ref'[s] = ref[s] /\ ends'[s] = ends[s] /\ mr'[s] = mr[s]
            /\ wr'[s] = wr[s] /\ answer'[s] = answer[s] /\ valid' \subseteq valid
        BY <1>0, <1>2, <2>1 DEF SendDone, RecvDone, InvRkeyDone, DecAndEnd
      <3>2. queue' = "drained" <=> queue = "drained"
        BY <1>2, Zenon DEF SendDone, RecvDone, InvRkeyDone, Error, Recover
      <3> QED
        BY <3>1, <3>2, Untouched, Zenon
    <2> QED
      BY <1>2, <2>1, Completes, SMTT(30)
  <1>3. ASSUME NEW r \in Req, QueueRq(r) PROVE EndsOnce(s)' /\ Local(s)'
    <2>1. CASE s # r
      <3>1. /\ st'[s] = st[s] /\ ref'[s] = ref[s] /\ ends'[s] = ends[s] /\ mr'[s] = mr[s]
            /\ wr'[s] = wr[s] /\ answer'[s] = answer[s] /\ queue' = queue
        BY <1>0, <1>3, <2>1, SMTT(30) DEF QueueRq
      <3>2. mr[s] \in valid' => mr[s] \in valid
        BY <1>0, <1>3, SMTT(30) DEF QueueRq, Owned
      <3> QED
        BY <3>1, <3>2, Untouched, Zenon
    <2>2. CASE s = r
      BY <1>0, <1>3, <2>2, SMTT(30) DEF QueueRq, EndsOnce, Local, Waiting
    <2> QED
      BY <2>1, <2>2, SMTT(30)
  <1>4. ASSUME NEW r \in Req, QueueRqFails(r) PROVE EndsOnce(s)' /\ Local(s)'
    BY <1>0, <1>4, SMTT(30) DEF QueueRqFails, hca, EndsOnce, Local, Waiting, Over
  <1>5. ASSUME NEW r \in Req, Respond(r) PROVE EndsOnce(s)' /\ Local(s)'
    <2>1. CASE s # r
      BY <1>0, <1>5, <2>1, Untouched, SMTT(30) DEF Respond
    <2>2. CASE s = r
      BY <1>0, <1>5, <2>2, SMTT(30) DEF Respond, EndsOnce, Local, Waiting, Over
    <2> QED
      BY <2>1, <2>2, Zenon
  <1>6. ASSUME NEW r \in Req, CompleteRq(r) PROVE EndsOnce(s)' /\ Local(s)'
    <2>1. None \notin valid
      BY <1>0, RegionAssumption, SMTT(30)
    <2> QED
      BY <1>0, <1>6, <2>1 DEF CompleteRq, hca, EndsOnce, Local, Waiting, Over
  <1>7. ASSUME NEW r \in Req, CancelRequest(r) PROVE EndsOnce(s)' /\ Local(s)'
    BY <1>0, <1>7, SMTT(30) DEF CancelRequest, hca, EndsOnce, Local
  <1>8. CASE WrError
    BY <1>8, Untouched DEF WrError, Error, Recover, hca
  <1>9. CASE StopQueue
    BY <1>0, <1>9, SMTT(30) DEF StopQueue, EndsOnce, Local
  <1>10. CASE Reconnect
    BY <1>0, <1>10 DEF Reconnect, EndsOnce, Local, Over
  <1> QED
    BY <1>1, <1>2, <1>3, <1>4, <1>5, <1>6, <1>7, <1>8, <1>9, <1>10 DEF Next

(* nvme_end_request is called once for a request, and when it is, neither its    *)
(* work requests nor its memory region can be used by the adapter or the target: *)
(* whichever completion comes last, whichever fails, and whoever invalidates.    *)
THEOREM EndsCorrect == Spec => [](TypeOK /\ EndsWhenUnused)
  <1>1. Init => IInv
    BY RegionAssumption DEF Init, IInv, Types, TypeOK, Owned, EndsOnce, Local, Over
  <1>2. IInv /\ [Next]_vars => IInv'
    BY TypesNext, OwnedNext, LocalNext, SMTT(30) DEF IInv
  <1>3. IInv => TypeOK /\ EndsWhenUnused
    BY DEF IInv, Types, EndsOnce, Local, Over, EndsWhenUnused
  <1> QED
    BY <1>1, <1>2, <1>3, PTL DEF Spec
=============================================================================
