---------------------------- MODULE IntranetNets ----------------------------
(***************************************************************************)
(* The intranet networks (intranet_nets.rs).  Every parse of a knowdb      *)
(* configuration replaces INTRANET_NETS_CONF (loader.rs), whether or not   *)
(* the load then succeeds; the set of networks is built from it once, by   *)
(* the first judgement or by init_intranet_nets, and never again.          *)
(*                                                                         *)
(* An address is [v |-> 4, host |-> h], [v |-> 6, host |-> h], or the      *)
(* IPv4-mapped [v |-> 6, host |-> "mapped", of |-> h].  A network is       *)
(* [v |-> 4 or 6, has |-> addresses]; Invalid is one that does not parse.  *)
(***************************************************************************)
EXTENDS Naturals, FiniteSets, Sequences

CONSTANTS
    Addresses,  \* addresses that are judged
    Builtin,    \* DEFAULT_INTRANET_NETS
    NetConfs,   \* [intranet_nets] sections: [enabled, mode, nets]
    NoConf,     \* no section
    Invalid,    \* a network that does not parse
    Unbuilt     \* the Lazy before its first use

Networks == Builtin \cup UNION {conf.nets : conf \in NetConfs}

\* A network holds addresses of its own version, and the set before its first
\* use is no set of networks.
ASSUME NetsAssumption ==
    /\ \A n \in Builtin : n.v \in {4, 6} /\ \A a \in n.has : a.v = n.v
    /\ Unbuilt \notin [v4 : SUBSET Networks, v6 : SUBSET Networks]

VARIABLES
    netsConf,   \* INTRANET_NETS_CONF
    netsSet,    \* INTRANET_NETS_SET: its buckets, or Unbuilt
    judged      \* history: address -> the answers it has had

netVars == <<netsConf, netsSet, judged>>

NetsInit ==
    /\ netsConf = NoConf
    /\ netsSet = Unbuilt
    /\ judged = [a \in Addresses |-> {}]

split_nets(nets) == [v4 |-> {n \in nets : n.v = 4}, v6 |-> {n \in nets : n.v = 6}]

\* Networks that do not parse are passed over.
Merge(set, conf) ==
    LET own == split_nets(conf.nets \ {Invalid})
    IN  IF conf.mode = "replace" THEN own
        ELSE [v4 |-> set.v4 \cup own.v4, v6 |-> set.v6 \cup own.v6]

\* Mutant: a section that is switched off counts.
BuiltEvenDisabled ==
    IF netsConf # NoConf THEN Merge(split_nets(Builtin), netsConf) ELSE split_nets(Builtin)

\* The initializer of the Lazy.
BuiltSet ==
    IF netsConf # NoConf /\ netsConf.enabled
    THEN Merge(split_nets(Builtin), netsConf) ELSE split_nets(Builtin)

\* Mutant: the set follows the configuration.
SetNow == BuiltSet

\* The set as a judgement finds it: built now, if it is the first.
TheSet == IF netsSet = Unbuilt THEN BuiltSet ELSE netsSet

InNets(set, a) ==
    IF a.v = 4 THEN \E n \in set.v4 : a \in n.has ELSE \E n \in set.v6 : a \in n.has

\* to_ipv4_mapped
Unmapped(a) == IF a.v = 6 /\ a.host = "mapped" THEN [v |-> 4, host |-> a.of] ELSE a

\* parse_knowdb_conf, of a load or of a refresh
SetConf(conf) ==
    /\ netsConf' = conf
    /\ UNCHANGED <<netsSet, judged>>

IsIntranet(a) ==
    /\ netsSet' = TheSet
    /\ judged' = [judged EXCEPT ![a] = @ \cup {InNets(TheSet, Unmapped(a))}]
    /\ UNCHANGED netsConf

\* Builds the set; what it reports is of the configuration, not of the set.
InitNets ==
    /\ netsSet' = TheSet
    /\ UNCHANGED <<netsConf, judged>>

NetsNext ==
    \/ \E conf \in NetConfs \cup {NoConf} : SetConf(conf)
    \/ \E a \in Addresses : IsIntranet(a)
    \/ InitNets

NetsSpec == NetsInit /\ [][NetsNext]_netVars

-----------------------------------------------------------------------------

\* However often the configuration is parsed again, an address has one answer
\* for the life of the process, and an IPv4 address has the same one in both
\* its forms: the rules of an engine never see a host change sides.
OneAnswerPerHost ==
    \A a, b \in Addresses :
        Unmapped(a) = Unmapped(b) => Cardinality(judged[a] \cup judged[b]) <= 1

\* Only a section that replaces the networks, parsed before the first use, can
\* put a host of a builtin network outside: a section that adds, is disabled,
\* or comes late cannot.
BuiltinStayInside ==
    \A a \in Addresses :
        (\E n \in Builtin : Unmapped(a) \in n.has) /\ FALSE \in judged[a] =>
            \E conf \in NetConfs : conf.enabled /\ conf.mode = "replace"
                                   /\ netsSet = split_nets(conf.nets \ {Invalid})
=============================================================================
