----------------------------- MODULE EthBlockApi -----------------------------
(***************************************************************************)
(* The block and node-status handlers of silkrpc                           *)
(* (src/silkrpc/commands/eth_api.cpp 41-195, net_api.cpp), answered from   *)
(* the same node database as eth_getLogs (module EthGetLogs).  Like that   *)
(* handler, each one reads through one read-only transaction, so each     *)
(* request is one atomic step against a snapshot of the chain.             *)
(*                                                                         *)
(* The chain also carries the progress of the sync loop's Finish stage,    *)
(* which get_current_block_number reports: it trails the canonical head    *)
(* while blocks are being synced and is pulled back by an unwind.          *)
(***************************************************************************)
EXTENDS EthGetLogs, Integers

CONSTANTS
  MinParam,        \* smallest block number a client sends (std::stol takes a sign)
  Earliest,        \* the block tags "earliest", "latest" and "pending"
  LatestTag,
  Pending,
  Junk,            \* a block id that is neither a tag nor a hex number
  ChainId          \* the chain id in the stored chain config

VARIABLE
  synced           \* progress of the Finish stage

blockVars == <<headers, canon, req, reply, synced>>

\* silkrpc core's numbers for the block tags: kEarliestBlockNumber = 0,
\* kLatestBlockNumber = 2^64 - 1, kPendingBlockNumber = 2^64 - 2.
EarliestNum == 0
LatestNum   == U64 - 1
PendingNum  == U64 - 2

\* std::stol's range on the 64-bit build: long is 64 bits wide.
LongMax == U64 \div 2 - 1

BlockIds == {Earliest, LatestTag, Pending, Junk} \cup MinParam..MaxParam

Error == [ok |-> FALSE]
Answer(v) == [ok |-> TRUE, value |-> v]

-----------------------------------------------------------------------------
(* The code.                                                               *)

\* std::stol(id, 0, 16) succeeds: the id is a number within long.
Parses(id) == id \in Int /\ id <= LongMax

\* Variant with a bug: "earliest" is given the latest block's number.
ParseBlockIdEarliestLatest(id) ==
  CASE id \in Int -> id % U64
    [] id \in {Earliest, LatestTag} -> LatestNum
    [] id = Pending -> PendingNum

\* handle_eth_get_block_by_number: the tags map to silkrpc's reserved
\* numbers; anything else goes through std::stol(id, 0, 16), which throws
\* on a string that is not a number and on one outside long (see Parses),
\* and whose long result is converted to uint64_t.
ParseBlockId(id) ==
  CASE id \in Int -> id % U64
    [] id = Earliest -> EarliestNum
    [] id = LatestTag -> LatestNum
    [] id = Pending -> PendingNum

\* core::get_block_number: the latest and pending numbers stand for the
\* latest block.
ResolveNumber(n) == IF n \in {LatestNum, PendingNum} THEN Latest ELSE n

\* read_block_by_number: the canonical hash of the number, then the block
\* with that hash and its total difficulty; a missing one throws.
ReadBlockByNumber(n) ==
  IF Canonical(n) THEN Answer(HeaderOf(canon[n + 1])) ELSE Error

\* read_block_by_hash: the block with that hash, canonical or not.
ReadBlockByHash(h) ==
  IF \E hd \in headers : hd.hash = h THEN Answer(HeaderOf(h)) ELSE Error

\* eth_blockNumber: get_current_block_number, the Finish stage's progress.
BlockNumberReply == Answer(synced)

\* eth_chainId: the chain id of the stored chain config.
ChainIdReply == Answer(ChainId)

\* eth_protocolVersion: the constant kETH66, without reading the database.
ProtocolVersionReply == Answer(66)

\* The net_ handlers answer constants: listening, 25 peers, network 5.
NetReply(m) ==
  CASE m = "net_listening" -> Answer(TRUE)
    [] m = "net_peerCount" -> Answer(25)
    [] m = "net_version"   -> Answer(5)

\* eth_syncing: false once the Finish stage has reached the highest block,
\* else the two block numbers.
SyncingReply ==
  IF synced >= Latest THEN Answer(FALSE)
  ELSE Answer([currentBlock |-> synced, highestBlock |-> Latest])

GetBlockByNumber(id) ==
  IF id = Junk \/ (id \in Int /\ ~Parses(id)) THEN Error
  ELSE ReadBlockByNumber(ResolveNumber(ParseBlockId(id)))

-----------------------------------------------------------------------------
(* The node, and requests.                                                 *)

BlockInit == Init /\ synced = 0

BlockMine == Mine /\ UNCHANGED synced

\* An unwind also unwinds the Finish stage to the new head.
BlockUnwind ==
  /\ Unwind
  /\ synced' = IF synced < Len(canon') THEN synced ELSE Len(canon') - 1

\* The sync loop completes a cycle: the Finish stage reaches the head.
FinishStage ==
  /\ req = None
  /\ synced < Latest
  /\ synced' = Latest
  /\ UNCHANGED <<headers, canon, req, reply>>

\* A request handled against one snapshot.  A params array of the wrong
\* size is answered with an error before the database is read.
ServeBlock ==
  /\ req = None
  /\ \/ /\ req' = [method |-> "eth_blockNumber"]
        /\ reply' = BlockNumberReply
     \/ /\ req' = [method |-> "eth_syncing"]
        /\ reply' = SyncingReply
     \/ /\ req' = [method |-> "eth_chainId"]
        /\ reply' = ChainIdReply
     \/ /\ req' = [method |-> "eth_protocolVersion"]
        /\ reply' = ProtocolVersionReply
     \/ \E m \in {"net_listening", "net_peerCount", "net_version"} :
          /\ req' = [method |-> m]
          /\ reply' = NetReply(m)
     \/ \E id \in BlockIds, arity \in {1, 2} :
          /\ req' = [method |-> "eth_getBlockByNumber", id |-> id, arity |-> arity]
          /\ reply' = IF arity # 2 THEN Error ELSE GetBlockByNumber(id)
     \/ \E h \in {hd.hash : hd \in headers} \cup {BadHash}, arity \in {1, 2} :
          /\ req' = [method |-> "eth_getBlockByHash", hash |-> h, arity |-> arity]
          /\ reply' = IF arity # 2 THEN Error ELSE ReadBlockByHash(h)
  /\ UNCHANGED <<headers, canon, synced>>

BlockRespond == Respond /\ UNCHANGED synced

BlockNext == BlockMine \/ BlockUnwind \/ FinishStage \/ ServeBlock \/ BlockRespond

BlockSpec == BlockInit /\ [][BlockNext]_blockVars

-----------------------------------------------------------------------------
(* Properties.                                                             *)

\* The block a well-formed block id names in the snapshot: block 0 for
\* "earliest", the head for "latest" and "pending", the canonical block of
\* a number; an id that is not a quantity names none.
Named(id) ==
  CASE id \in Int -> id
    [] id = Earliest -> 0
    [] id \in {LatestTag, Pending} -> Latest
    [] OTHER -> -1

\* eth_getBlockByNumber answers with the canonical block its id names and
\* with an error exactly when that block does not exist.  This is about
\* the tag handling, std::stol's parse and its conversion to uint64_t in
\* handle_eth_get_block_by_number, and the reserved tag numbers.
BlockByNumberExact ==
  req # None /\ req.method = "eth_getBlockByNumber" /\ req.arity = 2 =>
    IF Named(req.id) >= 0 /\ Canonical(Named(req.id))
    THEN reply = Answer(HeaderOf(canon[Named(req.id) + 1]))
    ELSE reply = Error

=============================================================================
