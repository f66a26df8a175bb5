------------------------- MODULE MCVolumeController -------------------------
(***************************************************************************)
(* Small instance of VolumeController: two handler goroutines, one or two  *)
(* names, two UUIDs, one or two servers.  Bytes are scaled so that        *)
(* GB = 4; the ranges cover an ssd and a bulk size, a limit-only range    *)
(* and an unsatisfiable one.                                              *)
(***************************************************************************)
EXTENDS VolumeController, TLC

CONSTANTS p1, p2, n1, n2, i1, i2, s1, s2

MCProcs == {p1, p2}
MCIds == {i1, i2}

MountRW == [mode |-> SupportedMode, access |-> "mount"]
BlockRW == [mode |-> SupportedMode, access |-> "block"]
MountRO == [mode |-> "MULTI_NODE_READER", access |-> "mount"]

MCCapSets == {{MountRW}, {BlockRW}, {}, {MountRO}}
MCZoneReqs == {{}, {"lpg1"}}
MCTypeParams == {"", "bulk", "hdd"}
MCCapRanges ==
    {NilRange,
     [nil |-> FALSE, required |-> 8, limit |-> 0],
     [nil |-> FALSE, required |-> 0, limit |-> 4],
     [nil |-> FALSE, required |-> 12, limit |-> 4]}

(* Every request that passes CreateVolume's local checks, and one request *)
(* failing each check in turn.                                            *)
Req(name, caps, zones, type, range, luks) ==
    [name |-> name, caps |-> caps, zones |-> zones, type |-> type,
     range |-> range, luks |-> luks]

MCCreateRequest ==
    {Req(n, c, {}, t, r, FALSE) :
        n \in Names, c \in {{MountRW}, {BlockRW}}, t \in {"", "bulk"},
        r \in MCCapRanges}
    \cup {Req(n, {MountRW}, {}, t, r, TRUE) :
        n \in Names, t \in {"", "bulk"}, r \in MCCapRanges}
    \cup {Req(Empty, {MountRW}, {}, "", NilRange, FALSE),
          Req(n1, {}, {}, "", NilRange, FALSE),
          Req(n1, {MountRO}, {}, "", NilRange, FALSE),
          Req(n1, {MountRW}, {"lpg1"}, "", NilRange, FALSE),
          Req(n1, {MountRW}, {}, "hdd", NilRange, FALSE),
          Req(n1, {MountRW}, {}, "", [nil |-> FALSE, required |-> 12,
                                      limit |-> 4], FALSE),
          Req(n1, {BlockRW}, {}, "", NilRange, TRUE)}

(* Publishes and expands of the main run: every valid request, and one  *)
(* refused by each local check in turn.                                   *)
MCPublishRequest ==
    [id : Ids, node : Nodes, cap : {TRUE}, readonly : {FALSE}]
    \cup [id : {Empty}, node : Nodes, cap : {TRUE}, readonly : {FALSE}]
    \cup [id : Ids, node : {Empty}, cap : {TRUE}, readonly : {FALSE}]
    \cup [id : Ids, node : Nodes, cap : {FALSE}, readonly : {FALSE}]
    \cup [id : Ids, node : Nodes, cap : {TRUE}, readonly : {TRUE}]
MCExpandRequest ==
    [id : Ids \cup {Empty}, range : MCCapRanges, access : {"mount"}]
    \cup [id : Ids, range : {NilRange}, access : {"block", "none"}]

(* Creates of either name for the attach-limit run, where two volumes   *)
(* must coexist for a server's count to reach the limit.                  *)
MCLimitCreate == {Req(n, {MountRW}, {}, "", NilRange, FALSE) : n \in Names}
MCLimitPublish == [id : Ids, node : Servers, cap : {TRUE}, readonly : {FALSE}]

Symmetry == Permutations(MCProcs) \cup Permutations(MCIds)
=============================================================================
