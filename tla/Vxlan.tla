------------------------------- MODULE Vxlan -------------------------------
(***************************************************************************)
(* The overlay network of the VMs on a node (neonvm-vxlan-controller): a   *)
(* bridge, a VXLAN interface in it, an entry of the forwarding database    *)
(* (FDB) for each other node, and iptables rules.                          *)
(*                                                                         *)
(* The program sets up the two links, then goes round a loop.  An error of *)
(* anything but the rules ends it, and it is started again.  With -delete  *)
(* it takes down what it can, while no other instance of it runs.          *)
(***************************************************************************)
EXTENDS Naturals

CONSTANTS
    IPv4,             \* addresses of nodes
    IPv6,
    ownIP,
    MaxNodeChanges,   \* bound: nodes that come or go
    MaxErrors,        \* bound: calls that fail
    MaxTeardowns      \* bound: runs with -delete

VARIABLES
    nodes,      \* addresses of the cluster's nodes
    bridge,     \* what was done to each link: subsets of {"added", "master", "up"}
    vxlan,
    fdb,
    rules,      \* the chain, the jump to it, and the rules in it
    at,         \* where the program is
    nodeIPs,    \* those that updateFDB has not come to yet
    nodeChanges, errors, teardowns

netVars == <<bridge, vxlan, fdb, rules>>
boundVars == <<nodeChanges, errors, teardowns>>
vxlanVars == <<nodes, netVars, at, nodeIPs, boundVars>>

VxlanInit ==
    /\ nodes = {ownIP}
    /\ bridge = {} /\ vxlan = {} /\ fdb = {} /\ rules = {}
    /\ at = "bridge"
    /\ nodeIPs = {}
    /\ nodeChanges = 0 /\ errors = 0 /\ teardowns = 0

NodeComesOrGoes(ip) ==
    /\ nodeChanges < MaxNodeChanges
    /\ nodeChanges' = nodeChanges + 1
    /\ ip # ownIP
    /\ nodes' = IF ip \in nodes THEN nodes \ {ip} ELSE nodes \union {ip}
    /\ UNCHANGED <<netVars, at, nodeIPs, errors, teardowns>>

(***************************************************************************)
(* The links.  One that is found is taken to be complete.                  *)
(***************************************************************************)
createBrigeInterface ==
    /\ \/ at = "bridge" /\ bridge # {} /\ at' = "vxlan" /\ UNCHANGED bridge
       \/ at = "bridge" /\ bridge = {} /\ at' = "bridgeUp" /\ bridge' = {"added"}
       \/ at = "bridgeUp" /\ at' = "vxlan" /\ bridge' = bridge \union {"up"}
    /\ UNCHANGED <<nodes, vxlan, fdb, rules, nodeIPs, boundVars>>

createVxlanInterface ==
    /\ \/ at = "vxlan" /\ vxlan # {} /\ at' = "getNodesIPs" /\ UNCHANGED vxlan
       \/ at = "vxlan" /\ vxlan = {} /\ at' = "vxlanMaster" /\ vxlan' = {"added"}
       \/ at = "vxlanMaster" /\ at' = "vxlanUp" /\ vxlan' = vxlan \union {"master"}
       \/ at = "vxlanUp" /\ at' = "getNodesIPs" /\ vxlan' = vxlan \union {"up"}
    /\ UNCHANGED <<nodes, bridge, fdb, rules, nodeIPs, boundVars>>

(***************************************************************************)
(* The loop                                                                *)
(***************************************************************************)
getNodesIPs ==
    /\ at = "getNodesIPs"
    /\ nodeIPs' = nodes
    /\ at' = "updateFDB"
    /\ UNCHANGED <<nodes, netVars, boundVars>>

RestAfterBreak(ip) == IF ip \in IPv6 THEN {} ELSE nodeIPs \ {ip}

Rest(ip) == nodeIPs \ {ip}

\* One address, in the order of the list
updateFDB(ip) ==
    /\ at = "updateFDB"
    /\ ip \in nodeIPs
    /\ nodeIPs' = Rest(ip)
    /\ fdb' = IF ip # ownIP /\ ip \notin IPv6 THEN fdb \union {ip} ELSE fdb
    /\ UNCHANGED <<nodes, bridge, vxlan, rules, at, boundVars>>

FDBUpdated ==
    /\ at = "updateFDB"
    /\ nodeIPs = {}
    /\ at' = "iptables"
    /\ UNCHANGED <<nodes, netVars, nodeIPs, boundVars>>

\* The chain, and then each rule in its order, if it is not there
upsertIptablesRules ==
    /\ at = "iptables"
    /\ LET order == <<"chain", "jump", "from", "to">>
           missing == {i \in 1..4 : order[i] \notin rules}
       IN  IF missing = {} THEN at' = "sleep" /\ UNCHANGED rules
           ELSE /\ rules' = rules \union {order[CHOOSE i \in missing : \A j \in missing : i <= j]}
                /\ UNCHANGED at
    /\ UNCHANGED <<nodes, bridge, vxlan, fdb, nodeIPs, boundVars>>

Sleep ==
    /\ at = "sleep"
    /\ at' = "getNodesIPs"
    /\ UNCHANGED <<nodes, netVars, nodeIPs, boundVars>>

\* log.Fatal, or log.Print for the rules
Error ==
    /\ at # "sleep"
    /\ errors < MaxErrors
    /\ errors' = errors + 1
    /\ at' = IF at = "iptables" THEN "sleep" ELSE "bridge"
    /\ nodeIPs' = {}
    /\ UNCHANGED <<nodes, netVars, nodeChanges, teardowns>>

(***************************************************************************)
(* -delete.  Each part of it may fail; the chain stays while something     *)
(* jumps to it.  A link that is deleted takes its entries, and what is in  *)
(* it, along.                                                              *)
(***************************************************************************)
deleteLinks(bridgeFails, vxlanFails) ==
    /\ vxlan' = IF ~vxlanFails THEN {} ELSE IF ~bridgeFails THEN vxlan \ {"master"} ELSE vxlan
    /\ bridge' = IF bridgeFails THEN bridge ELSE {}
    /\ fdb' = IF vxlanFails THEN fdb ELSE {}

deleteIptablesRules == rules' \in {rules, rules \ (IF "jump" \in rules THEN {"from", "to"} ELSE {"chain"})}

Teardown ==
    /\ teardowns < MaxTeardowns
    /\ teardowns' = teardowns + 1
    /\ \E bridgeFails, vxlanFails \in BOOLEAN : deleteLinks(bridgeFails, vxlanFails)
    /\ deleteIptablesRules
    /\ at' = "bridge"
    /\ nodeIPs' = {}
    /\ UNCHANGED <<nodes, nodeChanges, errors>>

Program ==
    \/ createBrigeInterface \/ createVxlanInterface \/ getNodesIPs \/ FDBUpdated
    \/ upsertIptablesRules \/ Sleep \/ \E ip \in IPv4 \union IPv6 : updateFDB(ip)

VxlanNext ==
    Program \/ Error \/ Teardown \/ \E ip \in IPv4 \union IPv6 : NodeComesOrGoes(ip)

(***************************************************************************)
(* Properties                                                              *)
(***************************************************************************)
Overlay ==
    /\ "up" \in bridge
    /\ {"master", "up"} \subseteq vxlan
    /\ (nodes \intersect IPv4) \ {ownIP} \subseteq fdb
    /\ rules = {"chain", "jump", "from", "to"}

\* A link exists that was not set up, or has lost its bridge: as it is found at each start from then
\* on, that is not made up for.
HalfMade ==
    \/ bridge # {} /\ "up" \notin bridge
    \/ vxlan # {} /\ ~({"master", "up"} \subseteq vxlan)

\* The program runs, or is started again.
VxlanFairness == WF_vxlanVars(Program)

\* However often the program fails, is started again or taken down, the overlay is complete in the end
\* and reaches all nodes, unless a start has failed between the creation of a link and its set-up.
OverlayForms == <>[](Overlay \/ HalfMade)
=============================================================================
