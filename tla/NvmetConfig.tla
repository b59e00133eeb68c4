---------------------------- MODULE NvmetConfig ----------------------------
(***************************************************************************)
(* The configfs tree of the target (target/configfs.c): administrators     *)
(* make and remove ports, subsystems, hosts, namespaces and ANA groups,    *)
(* link them and write their attributes, several of them at a time.        *)
(* nvmet_config_sem makes linking atomic; the attributes of a port are     *)
(* written without it, after a test of port->enabled.  nvmet_enable_port   *)
(* and nvmet_ns_enable, _alloc and _free are external, from their use.     *)
(***************************************************************************)
EXTENDS Integers, FiniteSets

CONSTANTS
    Port, Subsys, Host, Ns,
    Group,          \* ANA group ids; 1 is NVMET_DEFAULT_ANA_GRPID
    Addr,           \* values of an address attribute
    MaxWrites       \* bound: attributes written

ASSUME ConfigAssumption ==
    /\ IsFiniteSet(Port) /\ IsFiniteSet(Ns) /\ "none" \notin Subsys
    /\ Group \subseteq Nat /\ 1 \in Group /\ MaxWrites \in Nat

VARIABLES
    ports, subsystems, hosts,   \* directories that exist
    enabled,        \* enabled[p]: port->enabled
    addr, served,   \* attributes of a port; what its transport was started with
    writer,         \* a store between its test and its write, or <<>>
    links,          \* pairs <<port, subsystem>>
    allowed,        \* pairs <<subsystem, host>>
    any_host,       \* any_host[s]: allow_any_host
    ns,             \* namespaces: record of those that exist
    groups,         \* pairs <<port, group>> made by hand
    ana_enabled,    \* nvmet_ana_group_enabled
    ana_state, writes

dirs == <<ports, subsystems, hosts>>
portv == <<enabled, addr, served, writer>>
anav == <<groups, ana_enabled, ana_state>>
configVars == <<dirs, portv, links, allowed, any_host, ns, anav, writes>>

NoNs == [s |-> "none", enabled |-> FALSE, grp |-> 1, path |-> "none"]

ConfigInit ==
    /\ ports = {} /\ subsystems = {} /\ hosts = {}
    /\ enabled = [p \in Port |-> FALSE] /\ addr = [p \in Port |-> "unset"]
    /\ served = [p \in Port |-> "unset"] /\ writer = <<>>
    /\ links = {} /\ allowed = {} /\ any_host = [s \in Subsys |-> FALSE]
    /\ ns = [n \in Ns |-> NoNs] /\ groups = {} /\ writes = 0
    /\ ana_enabled = [g \in Group |-> IF g = 1 THEN 1 ELSE 0]
    /\ ana_state = [p \in Port |-> [g \in Group |-> "inaccessible"]]

Write == writes < MaxWrites /\ writes' = writes + 1

-----------------------------------------------------------------------------
(* Directories: configfs removes one only when it is empty and not linked *)

\* nvmet_ports_make and nvmet_port_release.
PortsMake(p) ==
    /\ p \notin ports /\ ports' = ports \cup {p}
    /\ enabled' = [enabled EXCEPT ![p] = FALSE] /\ addr' = [addr EXCEPT ![p] = "unset"]
    /\ ana_state' = [ana_state EXCEPT ![p] =
                        [g \in Group |-> IF g = 1 THEN "optimized" ELSE "inaccessible"]]
    /\ UNCHANGED <<subsystems, hosts, served, writer, links, allowed, any_host, ns, groups,
                   ana_enabled, writes>>
PortRelease(p) ==
    /\ p \in ports /\ writer = <<>>
    /\ ~(\E s \in Subsys : <<p, s>> \in links) /\ ~(\E g \in Group : <<p, g>> \in groups)
    /\ ports' = ports \ {p}
    /\ UNCHANGED <<subsystems, hosts, portv, links, allowed, any_host, ns, anav, writes>>
\* nvmet_subsys_make and nvmet_subsys_release, nvmet_hosts_make_group and
\* nvmet_host_release.
SubsysMake(s) ==
    /\ s \notin subsystems /\ subsystems' = subsystems \cup {s}
    /\ any_host' = [any_host EXCEPT ![s] = FALSE]
    /\ UNCHANGED <<ports, hosts, portv, links, allowed, ns, anav, writes>>
SubsysRelease(s) ==
    /\ s \in subsystems /\ ~(\E p \in Port : <<p, s>> \in links)
    /\ ~(\E h \in Host : <<s, h>> \in allowed) /\ ~(\E n \in Ns : ns[n].s = s)
    /\ subsystems' = subsystems \ {s}
    /\ UNCHANGED <<ports, hosts, portv, links, allowed, any_host, ns, anav, writes>>
HostsMake(h) ==
    /\ h \notin hosts /\ hosts' = hosts \cup {h}
    /\ UNCHANGED <<ports, subsystems, portv, links, allowed, any_host, ns, anav, writes>>
HostRelease(h) ==
    /\ h \in hosts /\ ~(\E s \in Subsys : <<s, h>> \in allowed) /\ hosts' = hosts \ {h}
    /\ UNCHANGED <<ports, subsystems, portv, links, allowed, any_host, ns, anav, writes>>

-----------------------------------------------------------------------------
(* Attributes of a port: address, port id, TREQ, transport, inline size *)

\* The test, then the write: nothing keeps the port disabled in between.
StoreTest(p) ==
    /\ p \in ports /\ ~enabled[p] /\ writer = <<>> /\ Write
    /\ \E a \in Addr : writer' = <<p, a>>
    /\ UNCHANGED <<dirs, enabled, addr, served, links, allowed, any_host, ns, anav>>
StoreWrite ==
    /\ writer # <<>> /\ addr' = [addr EXCEPT ![writer[1]] = writer[2]] /\ writer' = <<>>
    /\ UNCHANGED <<dirs, enabled, served, links, allowed, any_host, ns, anav, writes>>

-----------------------------------------------------------------------------
(* Links *)

\* nvmet_port_subsys_allow_link: the first link enables the port, which may
\* fail, for one because no address was set.
PortSubsysAllowLink(p, s) ==
    /\ p \in ports /\ s \in subsystems /\ <<p, s>> \notin links
    /\ \/ /\ \E t \in Subsys : <<p, t>> \in links
          /\ UNCHANGED <<enabled, served>>
       \/ /\ ~(\E t \in Subsys : <<p, t>> \in links) /\ addr[p] # "unset"
          /\ enabled' = [enabled EXCEPT ![p] = TRUE] /\ served' = [served EXCEPT ![p] = addr[p]]
    /\ links' = links \cup {<<p, s>>}
    /\ UNCHANGED <<dirs, addr, writer, allowed, any_host, ns, anav, writes>>
\* nvmet_port_subsys_drop_link: the last one disables it.
PortSubsysDropLink(p, s) ==
    /\ <<p, s>> \in links /\ links' = links \ {<<p, s>>}
    /\ enabled' = [enabled EXCEPT ![p] = \E t \in Subsys : <<p, t>> \in links']
    /\ UNCHANGED <<dirs, addr, served, writer, allowed, any_host, ns, anav, writes>>

\* nvmet_allowed_hosts_allow_link and _drop_link, allow_any_host.
AllowedHostsAllowLink(s, h) ==
    /\ s \in subsystems /\ h \in hosts /\ <<s, h>> \notin allowed /\ ~any_host[s]
    /\ allowed' = allowed \cup {<<s, h>>}
    /\ UNCHANGED <<dirs, portv, links, any_host, ns, anav, writes>>
AllowedHostsDropLink(s, h) ==
    /\ <<s, h>> \in allowed /\ allowed' = allowed \ {<<s, h>>}
    /\ UNCHANGED <<dirs, portv, links, any_host, ns, anav, writes>>
AllowAnyHostStore(s) ==
    /\ s \in subsystems
    /\ \E v \in {TRUE, FALSE} :
          /\ v # any_host[s] /\ (v => ~(\E h \in Host : <<s, h>> \in allowed))
          /\ any_host' = [any_host EXCEPT ![s] = v]
    /\ UNCHANGED <<dirs, portv, links, allowed, ns, anav, writes>>

-----------------------------------------------------------------------------
(* Namespaces and ANA groups *)

\* nvmet_ns_make and nvmet_ns_release.
NsMake(n, s) ==
    /\ s \in subsystems /\ ns[n] = NoNs
    /\ ns' = [ns EXCEPT ![n] = [NoNs EXCEPT !.s = s]]
    /\ ana_enabled' = [ana_enabled EXCEPT ![1] = @ + 1]
    /\ UNCHANGED <<dirs, portv, links, allowed, any_host, groups, ana_state, writes>>
NsRelease(n) ==
    /\ ns[n] # NoNs /\ ns' = [ns EXCEPT ![n] = NoNs]
    /\ ana_enabled' = [ana_enabled EXCEPT ![ns[n].grp] = @ - 1]
    /\ UNCHANGED <<dirs, portv, links, allowed, any_host, groups, ana_state, writes>>
\* device_path, uuid, nguid, p2pmem and buffered_io: under the lock of the
\* subsystem, refused while the namespace is enabled.
NsStore(n) ==
    /\ ns[n] # NoNs /\ ~ns[n].enabled /\ Write
    /\ \E a \in Addr : ns' = [ns EXCEPT ![n].path = a]
    /\ UNCHANGED <<dirs, portv, links, allowed, any_host, anav>>
\* enable: without a path it fails.
NsEnableStore(n) ==
    /\ ns[n] # NoNs
    /\ \/ ~ns[n].enabled /\ ns[n].path # "none" /\ ns' = [ns EXCEPT ![n].enabled = TRUE]
       \/ ns[n].enabled /\ ns' = [ns EXCEPT ![n].enabled = FALSE]
    /\ UNCHANGED <<dirs, portv, links, allowed, any_host, anav, writes>>
\* Mutant: the old group keeps its count.
NsAnaGrpidStore_Leaks(n) ==
    /\ ns[n] # NoNs /\ Write
    /\ \E g \in Group :
          /\ ns' = [ns EXCEPT ![n].grp = g]
          /\ ana_enabled' = [ana_enabled EXCEPT ![g] = @ + 1]
    /\ UNCHANGED <<dirs, portv, links, allowed, any_host, groups, ana_state>>
NsAnaGrpidStore(n) ==
    /\ ns[n] # NoNs /\ Write
    /\ \E g \in Group :
          /\ ns' = [ns EXCEPT ![n].grp = g]
          /\ LET up == [ana_enabled EXCEPT ![g] = @ + 1]
             IN ana_enabled' = [up EXCEPT ![ns[n].grp] = @ - 1]
    /\ UNCHANGED <<dirs, portv, links, allowed, any_host, groups, ana_state>>

\* nvmet_ana_groups_make_group, nvmet_ana_group_release, ana_state.
AnaGroupsMake(p, g) ==
    /\ p \in ports /\ g > 1 /\ <<p, g>> \notin groups
    /\ groups' = groups \cup {<<p, g>>}
    /\ ana_enabled' = [ana_enabled EXCEPT ![g] = @ + 1]
    /\ UNCHANGED <<dirs, portv, links, allowed, any_host, ns, ana_state, writes>>
AnaGroupRelease(p, g) ==
    /\ <<p, g>> \in groups /\ groups' = groups \ {<<p, g>>}
    /\ ana_enabled' = [ana_enabled EXCEPT ![g] = @ - 1]
    /\ ana_state' = [ana_state EXCEPT ![p][g] = "inaccessible"]
    /\ UNCHANGED <<dirs, portv, links, allowed, any_host, ns, writes>>
AnaStateStore(p, g) ==
    /\ p \in ports /\ (g = 1 \/ <<p, g>> \in groups) /\ Write
    /\ \E v \in {"optimized", "inaccessible"} : ana_state' = [ana_state EXCEPT ![p][g] = v]
    /\ UNCHANGED <<dirs, portv, links, allowed, any_host, ns, groups, ana_enabled>>

ConfigNext ==
    \/ \E p \in Port : PortsMake(p) \/ PortRelease(p) \/ StoreTest(p)
    \/ \E s \in Subsys : SubsysMake(s) \/ SubsysRelease(s) \/ AllowAnyHostStore(s)
    \/ \E h \in Host : HostsMake(h) \/ HostRelease(h)
    \/ StoreWrite
    \/ \E p \in Port, s \in Subsys : PortSubsysAllowLink(p, s) \/ PortSubsysDropLink(p, s)
    \/ \E s \in Subsys, h \in Host : AllowedHostsAllowLink(s, h) \/ AllowedHostsDropLink(s, h)
    \/ \E n \in Ns : NsRelease(n) \/ NsStore(n) \/ NsEnableStore(n) \/ NsAnaGrpidStore(n)
    \/ \E n \in Ns, s \in Subsys : NsMake(n, s)
    \/ \E p \in Port, g \in Group : AnaGroupsMake(p, g) \/ AnaGroupRelease(p, g) \/ AnaStateStore(p, g)

ConfigSpec == ConfigInit /\ [][ConfigNext]_configVars

-----------------------------------------------------------------------------
(* Properties *)

\* Whatever is made, linked and removed in whatever order: a port serves as
\* long as a subsystem is linked to it; a subsystem open to all lists no hosts;
\* the count of a group is that of the namespaces and directories in it.
ConfigConsistent ==
    /\ \A p \in ports : enabled[p] <=> \E s \in Subsys : <<p, s>> \in links
    /\ \A s \in subsystems : any_host[s] => ~(\E h \in Host : <<s, h>> \in allowed)
    /\ \A g \in Group :
          ana_enabled[g] = (IF g = 1 THEN 1 ELSE 0)
                           + Cardinality({n \in Ns : ns[n] # NoNs /\ ns[n].grp = g})
                           + Cardinality({p \in Port : <<p, g>> \in groups})
=============================================================================
