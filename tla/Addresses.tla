----------------------------- MODULE Addresses -----------------------------
(***************************************************************************)
(* Addresses: what a user's index, SSH port and name stand for on the      *)
(* network (ContainerIP, allocSSHPort and the port scheme; IPv6Block and   *)
(* checkIPv6BlockCollision). Lifecycle identifies an address with its      *)
(* index and a /112 with the hash of a name; Lifecycle_proofs shows that   *)
(* it may.                                                                 *)
(*                                                                         *)
(* A /24 network is a record [net, ones] and an IPv4 address a pair of the *)
(* network and its last byte. An IPv6 prefix is no longer than /80, so the *)
(* last six bytes of its own address are zero.                             *)
(***************************************************************************)
EXTENDS Integers, FiniteSets

MaxUsers == 200
SSHPortBase == 30000
SSHPortCount == 2000
UserPortBase == 10000
PortsPerUser == 100

Indices == 1..MaxUsers
SSHPorts == SSHPortBase .. SSHPortBase + SSHPortCount - 1
NoPort == 0

(* A container's address, and the gateway of the bridge. byte() keeps the  *)
(* low eight bits.                                                         *)
ContainerIP(subnet, idx) ==
  IF subnet.ones = 24 /\ idx \in Indices
  THEN <<subnet.net, (idx + 1) % 256>>
  ELSE <<>>

GatewayFromSubnet(subnet) == <<subnet.net, 1>>

(* The first port of a user's block, and the block.                        *)
StartPort(idx) == UserPortBase + (idx - 1) * PortsPerUser
UserPorts(start, perUser) == start .. start + perUser - 1

(* The TCP ports of the host that WriteUser forwards to a user's container *)
(* and the ports it forwards for UDP.                                      *)
ForwardedTCP(u) == {u.port} \cup UserPorts(StartPort(u.idx), PortsPerUser)
ForwardedUDP(u) == UserPorts(StartPort(u.idx), PortsPerUser)

(* The ports allocSSHPort may return: 32 random picks, then the lowest     *)
(* free one, refused at once when as many are used as there are.           *)
AllocSSHPort(used) ==
  IF Cardinality(used) >= SSHPortCount
  THEN {NoPort}
  ELSE IF SSHPorts \subseteq used THEN {NoPort} ELSE SSHPorts \ used

(* NextFreeIdx, with 0 for its error.                                      *)
NextFreeIdx(used) == IF Indices \subseteq used THEN {0} ELSE Indices \ used

(* An address that copy(block[10:14], hash) and addHostOffset work on: the *)
(* first ten bytes, the next four, which hold the hash of a name, and the  *)
(* last two.                                                               *)
Hashes == Nat
HostCount == 65536
Hosts == 0 .. HostCount - 1
IPv6Network(net) == [net |-> net, hash |-> 0, host |-> 0]

AddHostOffset(a, k) ==
  [net |-> a.net, hash |-> a.hash + (a.host + k) \div HostCount,
   host |-> (a.host + k) % HostCount]

(* The first address of a name's /112, the addresses of the block, and the *)
(* primary one.                                                            *)
BlockIP(net, hash) == [IPv6Network(net) EXCEPT !.hash = hash]
IPv6Block(net, hash) == [net : {net}, hash : {hash}, host : Hosts]
IPv6Addr(net, hash) == AddHostOffset(BlockIP(net, hash), 1)

(* The first address of the prefix that nobody uses, or none.              *)
FirstFree(net, inUse) ==
  {k \in 1 .. HostCount - 1 :
     /\ AddHostOffset(IPv6Network(net), k) \notin inUse
     /\ \A i \in 1..(k - 1) : AddHostOffset(IPv6Network(net), i) \in inUse}

BridgeGateway(net, inUse) ==
  {AddHostOffset(IPv6Network(net), k) : k \in FirstFree(net, inUse)}

(* The start of the blocks is compared, and the gateway's membership.      *)
CheckIPv6BlockCollision(net, hash, others, inUse) ==
  /\ \A h \in others : BlockIP(net, h) # BlockIP(net, hash)
  /\ \A gw \in BridgeGateway(net, inUse) : gw \notin IPv6Block(net, hash)
=============================================================================
