----------------------------- MODULE EthGetLogs -----------------------------
(***************************************************************************)
(* The eth_getLogs handler of silkrpc (src/silkrpc/commands/eth_api.cpp).  *)
(*                                                                         *)
(* The handler runs against one read-only database transaction, so it      *)
(* sees a fixed snapshot of the chain and is one atomic step here.  It     *)
(* fixes the block range, narrows it with the log topic and log address    *)
(* bitmap indices, walks the remaining block numbers in ascending order,   *)
(* and passes the logs of each canonical block's receipts through          *)
(* filter_logs.                                                            *)
(*                                                                         *)
(* The chain the handler reads is the node's database: a canonical chain   *)
(* of headers that grows and unwinds.  Headers of unwound blocks stay      *)
(* known by hash, and the indices cover only canonical blocks.             *)
(* Addresses, topics and hashes are model values or small numbers.         *)
(***************************************************************************)
EXTENDS Naturals, Sequences, SequencesExt, FiniteSets

CONSTANTS
  LogAddrs,        \* contract addresses that emit logs
  Topics,          \* 32-byte topic values
  MaxLogTopics,    \* topics per log (LOG0..LOG4 is 0..4)
  MaxLogs,         \* logs per block
  MaxFilterTopics, \* topic positions in a filter
  MaxHeaders,      \* headers the database ever holds
  MaxNum,          \* canonical blocks are numbered below MaxNum
  MaxParam,        \* largest from/to block number a client sends
  U32,             \* 2^32, the range of a Roaring bitmap value
  U64,             \* 2^64, the range of uint64_t block numbers
  ReceiptsStored,  \* whether a written block's receipts are in the database
  None,            \* an absent optional
  BadHash          \* a block hash that does not parse as hex

\* Widths may be scaled down: the model keeps where numbers wrap and where
\* they are truncated, not their size.
ASSUME MaxNum <= U32 /\ U32 <= U64 /\ MaxParam < U64
ASSUME TRUE \in ReceiptsStored /\ ReceiptsStored \subseteq BOOLEAN

VARIABLES
  headers,         \* set of [num, hash, logs, stored] of every header written
  canon,           \* canon[n+1] is the hash of canonical block n
  req,             \* the filter of the request being answered, or None
  reply            \* the handler's reply to req, or None

vars == <<headers, canon, req, reply>>

Log == [address : LogAddrs, topics : BoundedSeq(Topics, MaxLogTopics)]

Latest == Len(canon) - 1
Canonical(n) == n < Len(canon)
HeaderOf(hash) == CHOOSE h \in headers : h.hash = hash
BlockLogs(n) == HeaderOf(canon[n + 1]).logs

\* get_receipts: the stored receipts' logs; receipts that are not stored
\* would have to be rebuilt by re-executing the block, which is not
\* implemented, so the block yields no receipts.
GetReceipts(n) ==
  IF HeaderOf(canon[n + 1]).stored THEN BlockLogs(n) ELSE <<>>

\* The filter a request may carry: a block hash, or an optional range, and
\* optional address and topic lists.
Filters ==
  LET opt == [addresses : {None} \cup SUBSET LogAddrs,
              topics : {None} \cup BoundedSeq(SUBSET Topics, MaxFilterTopics)]
  IN { [blockHash |-> None, from |-> fr, to |-> t] @@ o :
         fr \in {None} \cup 0..MaxParam, t \in {None} \cup 0..MaxParam, o \in opt }
     \cup
     { [blockHash |-> bh, from |-> None, to |-> None] @@ o :
         bh \in {h.hash : h \in headers} \cup {BadHash}, o \in opt }

-----------------------------------------------------------------------------
(* The code.                                                               *)

\* ethdb::bitmap::get on the log topic and log address indices: the
\* canonical blocks in start..end with a log that carries the topic (at
\* any position) or comes from the address.
TopicIndex(t, s, e) ==
  {n \in s..e : Canonical(n) /\ \E l \in ToSet(BlockLogs(n)) : t \in ToSet(l.topics)}
AddressIndex(a, s, e) ==
  {n \in s..e : Canonical(n) /\ \E l \in ToSet(BlockLogs(n)) : l.address = a}

\* get_topics_bitmap: the union over each position's subtopics, and the
\* intersection over positions whose union is not empty.
TopicsBitmap(topics, s, e) ==
  LET Step(result, subtopics) ==
        LET sb == UNION {TopicIndex(t, s, e) : t \in subtopics}
        IN IF sb = {} THEN result
           ELSE IF result = {} THEN sb ELSE result \cap sb
  IN FoldLeft(Step, {}, topics)

\* get_addresses_bitmap: the union over the addresses.
AddressesBitmap(addresses, s, e) ==
  UNION {AddressIndex(a, s, e) : a \in addresses}

\* "if (bitmap.isEmpty()) block_numbers = bitmap; else block_numbers &= bitmap"
Narrow(bn, bitmap) == IF bitmap = {} THEN {} ELSE bn \cap bitmap

\* Roaring::addRange(min, max) on 64-bit arguments (roaring_bitmap_add_range):
\* nothing if max <= min or min > 2^32, else the closed range of both ends
\* cut to 32 bits.
AddRange(min, max) ==
  IF max <= min \/ min > U32 THEN {} ELSE (min % U32)..((max - 1) % U32)

\* addRange(start, end + 1) with end + 1 computed in uint64_t, then the
\* topic and address narrowing.
BlockNumbers(f, s, e) ==
  LET range == AddRange(s, (e + 1) % U64)
      byTopics == IF f.topics = None THEN range
                  ELSE Narrow(range, TopicsBitmap(f.topics, s, e))
  IN IF f.addresses = None THEN byTopics
     ELSE Narrow(byTopics, AddressesBitmap(f.addresses, s, e))

\* filter_logs: a log is kept if its address is listed (when addresses are
\* given) and, when topics are given, it has at least as many topics as the
\* filter has positions and every position is empty (the wildcard) or
\* lists the log's topic at that position.
MatchesSubtopics(subtopics, topic) == subtopics = {} \/ topic \in subtopics

KeepLog(l, f) ==
  /\ f.addresses = None \/ l.address \in f.addresses
  /\ f.topics = None \/
       /\ Len(f.topics) <= Len(l.topics)
       /\ \A i \in 1..Len(f.topics) : MatchesSubtopics(f.topics[i], l.topics[i])
FilterLogs(logs, f) == SelectSeq(logs, LAMBDA l : KeepLog(l, f))

\* The loop over block_numbers with a missing canonical hash returning
\* nothing instead of the logs gathered so far.
RECURSIVE ScanDropOnMissing(_, _, _)
ScanDropOnMissing(blocks, f, acc) ==
  IF blocks = <<>> THEN acc
  ELSE IF ~Canonical(Head(blocks)) THEN <<>>
  ELSE ScanDropOnMissing(Tail(blocks), f, acc \o FilterLogs(GetReceipts(Head(blocks)), f))

\* The loop over block_numbers in ascending order: a block number without a
\* canonical hash ends the request with the logs gathered so far; otherwise
\* the block's receipts (get_receipts) are read and their logs filtered.
RECURSIVE Scan(_, _, _)
Scan(blocks, f, acc) ==
  IF blocks = <<>> THEN acc
  ELSE IF ~Canonical(Head(blocks)) THEN acc
  ELSE Scan(Tail(blocks), f, acc \o FilterLogs(GetReceipts(Head(blocks)), f))

\* handle_eth_get_logs: an unparsable block hash is an error reply; a block
\* hash fixes start = end to its header number; otherwise from and to
\* default to the latest block.
GetLogs(f) ==
  IF f.blockHash = BadHash THEN [ok |-> FALSE, logs |-> <<>>]
  ELSE
    LET s == IF f.blockHash # None THEN HeaderOf(f.blockHash).num
             ELSE IF f.from = None THEN Latest ELSE f.from
        e == IF f.blockHash # None THEN HeaderOf(f.blockHash).num
             ELSE IF f.to = None THEN Latest ELSE f.to
        bn == BlockNumbers(f, s, e)
    IN [ok |-> TRUE,
        logs |-> IF bn = {} THEN <<>>
                 ELSE Scan(SetToSortSeq(bn, <), f, <<>>)]

-----------------------------------------------------------------------------
(* The node's database, and requests.                                      *)

Init ==
  /\ headers = {[num |-> 0, hash |-> 0, logs |-> <<>>, stored |-> TRUE]}
  /\ canon = <<0>>
  /\ req = None
  /\ reply = None

\* A block is executed and becomes the canonical head; its receipts may or
\* may not be kept.
Mine ==
  /\ Len(canon) < MaxNum
  /\ Cardinality(headers) < MaxHeaders
  /\ \E logs \in BoundedSeq(Log, MaxLogs), kept \in ReceiptsStored :
       LET h == [num |-> Len(canon), hash |-> Cardinality(headers),
                 logs |-> logs, stored |-> kept]
       IN /\ headers' = headers \cup {h}
          /\ canon' = Append(canon, h.hash)
  /\ req = None
  /\ UNCHANGED <<req, reply>>

\* The head block is unwound by a reorganisation; its header stays known.
Unwind ==
  /\ Len(canon) > 1
  /\ canon' = Front(canon)
  /\ req = None
  /\ UNCHANGED <<headers, req, reply>>

\* A client's eth_getLogs request is handled within one database snapshot.
Serve ==
  /\ req = None
  /\ \E f \in Filters :
       /\ req' = f
       /\ reply' = GetLogs(f)
  /\ UNCHANGED <<headers, canon>>

\* The reply is sent.
Respond ==
  /\ req # None
  /\ req' = None
  /\ reply' = None
  /\ UNCHANGED <<headers, canon>>

Next == Mine \/ Unwind \/ Serve \/ Respond

Spec == Init /\ [][Next]_vars

-----------------------------------------------------------------------------
(* Properties.                                                             *)

\* The Ethereum JSON-RPC meaning of a filter (as go-ethereum's filterLogs):
\* the address is listed if addresses are given, and each topic position is
\* either empty or holds the log's topic at that position, which the log
\* must have.
Wanted(l, f) ==
  /\ f.addresses # None => l.address \in f.addresses
  /\ f.topics # None =>
       \A i \in DOMAIN f.topics :
         /\ i \in DOMAIN l.topics
         /\ f.topics[i] # {} => l.topics[i] \in f.topics[i]

\* What eth_getLogs should return: the wanted logs of the block with the
\* given hash, or of the canonical blocks from start to end, in order.
Expected(f) ==
  IF f.blockHash # None
  THEN SelectSeq(HeaderOf(f.blockHash).logs, LAMBDA l : Wanted(l, f))
  ELSE
    LET s == IF f.from = None THEN Latest ELSE f.from
        e == IF f.to = None THEN Latest ELSE f.to
        hi == IF e < Latest THEN e ELSE Latest
        k == IF hi < s THEN 0 ELSE hi - s + 1
    IN FlattenSeq([i \in 1..k |-> SelectSeq(BlockLogs(s + i - 1),
                                            LAMBDA l : Wanted(l, f))])

\* The sequences made of some elements of t, kept in t's order.
OrderedSubSeqs(t) ==
  {LET idx == SetToSortSeq(D, <) IN [i \in DOMAIN idx |-> t[idx[i]]] :
     D \in SUBSET DOMAIN t}

Answered == req # None /\ req.blockHash # BadHash

\* The filter has no topic list, or one that names at least one topic.
NamesTopic(f) == f.topics = None \/ \E i \in DOMAIN f.topics : f.topics[i] # {}

\* A range query whose topic list is absent or names at least one topic
\* gets exactly the matching logs of the canonical blocks in range, in
\* block order.  This is about the bitmap narrowing of handle_eth_get_logs
\* (the index ignores topic positions, an empty subtopic union is skipped,
\* an empty intersection restarts) and the stop at the first block number
\* without a canonical hash.
RangeLogsExact ==
  (/\ Answered
   /\ req.blockHash = None
   /\ NamesTopic(req))
  => reply.logs = Expected(req)

\* Every range query gets exactly the matching logs, wildcard-only topic
\* lists included ("empty rule set == wildcard" in filter_logs).
RangeLogsComplete ==
  Answered /\ req.blockHash = None => reply.logs = Expected(req)

\* A query by block hash gets the matching logs of that block (EIP-234),
\* also when the block is no longer canonical (topic lists restricted as
\* in RangeLogsExact).
BlockHashLogs ==
  Answered /\ req.blockHash # None /\ NamesTopic(req) => reply.logs = Expected(req)

\* A range query returns only wanted logs of canonical blocks in the
\* requested range, in block order: the reply is the expected answer with
\* some logs left out, never logs of other blocks.  This is about the
\* Roaring range that handle_eth_get_logs builds from the 64-bit from/to
\* block numbers (addRange(start, end + 1), eth_api.cpp 236-237).
RangeLogsSound ==
  Answered /\ req.blockHash = None => reply.logs \in OrderedSubSeqs(Expected(req))

=============================================================================
