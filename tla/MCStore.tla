------------------------------ MODULE MCStore ------------------------------
EXTENDS MemRefinesSql, TLC

CONSTANTS t1, t2

Only(f) == f @@ [tab \in Tables |-> 0] @@ [who |-> Tenants]

One(f) == [Only(f) EXCEPT !.who = {t1}]

MCTree == Only([locs |-> 2, vlans |-> 1])

MCPlaces == One([locs |-> 1, devices |-> 1, subnets |-> 1])

MCNets == Only([vlans |-> 1, subnets |-> 2])

MCVlans == Only([vlans |-> 2, subnets |-> 1, snmp |-> 1])

MCAddrs == Only([subnets |-> 1, addrs |-> 2])

MCScans == Only([subnets |-> 1, scans |-> 2, dns |-> 1])

MCPorts == One([devices |-> 2, ifaces |-> 2, links |-> 1])

MCLinks == One([devices |-> 2, ifaces |-> 2, hostLinks |-> 1])

MCAddrLinks == One([subnets |-> 1, addrs |-> 1, devices |-> 1, ifaces |-> 1, hostLinks |-> 1])

MCBoxes == Only([devices |-> 2, pkgs |-> 1])

MCIPGroups == Only([ipGroups |-> 2, ipMembers |-> 2])

MCHostGroups == One([hostGroups |-> 1, hostMembers |-> 2, devices |-> 2])

MCArp == One([subnets |-> 1, addrs |-> 1, devices |-> 1, arp |-> 1])

MCSyncHosts == One([devices |-> 1, hardware |-> 1, devState |-> 1, hsSettings |-> 2])

MCSyncGuests == One([devices |-> 2, guests |-> 1, hsSettings |-> 1])

MCSyncNics == One([devices |-> 1, ifaces |-> 2, hsSettings |-> 1])

MCSyncNets == One([devices |-> 1, subnets |-> 1, addrs |-> 1, hsSettings |-> 1])

MCSettings == Only([hsSettings |-> 3])

MCRooms ==
  {MCTree, MCPlaces, MCNets, MCVlans, MCAddrs, MCScans, MCPorts, MCLinks, MCAddrLinks, MCBoxes, MCIPGroups,
   MCHostGroups, MCArp, MCSyncHosts, MCSyncGuests, MCSyncNics, MCSyncNets, MCSettings}

MCSymmetry == Permutations(Tenants)

View == <<mem, born, room>>

=============================================================================
