------------------------------ MODULE EvmState ------------------------------
(***************************************************************************)
(* The world-state engine of the EVM contract (src/contract/src/state.cpp):*)
(* the account directory, the per-account storage scopes, the content-     *)
(* addressed code table with reference counts, the two garbage-collection  *)
(* queues and the per-transition caches.  Every table lives in the ledger's *)
(* multi-index substrate; a table is modelled by its rows, a storage scope *)
(* by a function from location to value (0 = no row).                      *)
(*                                                                         *)
(* Each public operation of class `state` is one action, parameterised by *)
(* its arguments.  The module that drives these operations in the order   *)
(* the interpreter calls them is EvmDriver.                                *)
(***************************************************************************)
EXTENDS Naturals, Sequences, FiniteSets, FiniteSetsExt, Functions

CONSTANTS
  Addr,       \* 160-bit EVM addresses
  Hash,       \* code hashes of non-empty contract code
  EmptyHash,  \* silkworm::kEmptyHash, the hash of empty code
  NoCode,     \* an account row whose optional code_hash is not set
  Keys,       \* 256-bit storage locations
  Vals,       \* non-zero 256-bit storage values (zero is 0)
  Data,       \* nonce and balance of an account, abstracted to a small set
  MaxAcctId,  \* bound on account surrogate ids
  MaxCodeId,  \* bound on code row ids
  None        \* the empty value of a cache entry

ASSUME EmptyHash \notin Hash /\ NoCode \notin Hash \cup {EmptyHash}
ASSUME 0 \notin Vals /\ 0 \in Data

VARIABLES
  accounts,   \* rows of account_table: [id, addr, data, code]
  storage,    \* storage_table scopes: account id -> location -> value
  codes,      \* rows of account_code_table: [id, hash, rc]
  gcStore,    \* gc_store_table, in primary-key order: storage scope ids
  gcCode,     \* gc_code_table, in primary-key order: code row ids
  addr2id,    \* cache address -> account id
  addr2code   \* cache of code bytes, as the set of hashes it holds

engineVars == <<accounts, storage, codes, gcStore, gcCode, addr2id, addr2code>>

AcctIds  == 0..MaxAcctId
Zero     == [k \in Keys |-> 0]
CodeRefs == Hash \cup {EmptyHash, NoCode}

-----------------------------------------------------------------------------
(* Table helpers.                                                          *)

\* multi_index::available_primary_key() on a freshly constructed table: one
\* more than the largest primary key present, 0 for an empty table.
NextId(rows) == IF rows = {} THEN 0 ELSE Max({r.id : r \in rows}) + 1

\* Lookup through the "by.address" secondary index.
HasRow(a) == \E r \in accounts : r.addr = a
Row(a)    == CHOOSE r \in accounts : r.addr = a

\* Lookup through the "by.codehash" secondary index.
HasCode(h)  == \E c \in codes : c.hash = h
CodeRow(h)  == CHOOSE c \in codes : c.hash = h

\* The code_hash written to a row: kEmptyHash is stored as "no code".
Normal(h) == IF h = EmptyHash THEN NoCode ELSE h

\* The Account that read_account returns for a row, or NoAccount.
NoAccount == [none |-> TRUE]
View(a) ==
  IF HasRow(a)
  THEN [data |-> Row(a).data,
        code |-> IF Row(a).code = NoCode THEN EmptyHash ELSE Row(a).code]
  ELSE NoAccount

SetRow(old, new) == accounts' = (accounts \ {old}) \cup {new}

-----------------------------------------------------------------------------
(* Reads.  They touch only the caches (and the read statistics, which are  *)
(* not modelled).                                                          *)

\* state::read_account
ReadAccount(a) ==
  /\ addr2id' = IF HasRow(a) THEN [addr2id EXCEPT ![a] = Row(a).id] ELSE addr2id
  /\ UNCHANGED <<accounts, storage, codes, gcStore, gcCode, addr2code>>

\* state::read_code: a cached hash is served from the cache, otherwise the
\* code table is searched and a hit is cached.
ReadCode(h) ==
  /\ addr2code' = IF h \notin addr2code /\ HasCode(h)
                  THEN addr2code \cup {h} ELSE addr2code
  /\ UNCHANGED <<accounts, storage, codes, gcStore, gcCode, addr2id>>

\* state::read_storage: resolves the address through the cache, falling back
\* to the directory (and caching the hit); the slot itself is not cached.
ReadStorage(a, k) ==
  /\ addr2id' = IF addr2id[a] = None /\ HasRow(a)
                THEN [addr2id EXCEPT ![a] = Row(a).id] ELSE addr2id
  /\ UNCHANGED <<accounts, storage, codes, gcStore, gcCode, addr2code>>

\* The value read_storage returns.
StorageValue(a, k) ==
  IF addr2id[a] # None THEN storage[addr2id[a]][k]
  ELSE IF HasRow(a) THEN storage[Row(a).id][k] ELSE 0

-----------------------------------------------------------------------------
(* Reconciliation: update_account, update_account_code, update_storage.     *)

\* Variant with a bug: the ref_count of the code is never decremented.
DeleteAccountNoDecrement(a) ==
  LET r == Row(a)
      c == CodeRow(r.code)
      hit == r.code # NoCode /\ HasCode(r.code)
  IN /\ gcStore' = Append(gcStore, r.id)
     /\ gcCode'  = IF hit /\ c.rc <= 1 THEN Append(gcCode, c.id) ELSE gcCode
     /\ UNCHANGED codes
     /\ accounts' = accounts \ {r}

\* Variant with a bug: the code row is queued only below one reference.
DeleteAccountQueueBelowOne(a) ==
  LET r == Row(a)
      c == CodeRow(r.code)
      hit == r.code # NoCode /\ HasCode(r.code)
  IN /\ gcStore' = Append(gcStore, r.id)
     /\ gcCode'  = IF hit /\ c.rc < 1 THEN Append(gcCode, c.id) ELSE gcCode
     /\ codes'   = IF hit
                   THEN (codes \ {c}) \cup
                        {[c EXCEPT !.rc = IF c.rc > 0 THEN @ - 1 ELSE @]}
                   ELSE codes
     /\ accounts' = accounts \ {r}

\* The deletion branch of update_account: the row is erased, its storage
\* scope is queued for collection, and the code's ref_count is dropped,
\* queueing the code row when the count falls to zero.
DeleteAccount(a) ==
  LET r == Row(a)
      c == CodeRow(r.code)
      \* the code row is looked up only when the optional code_hash is set;
      \* a missing row is ignored ("SHOULD NOT REACH HERE")
      hit == r.code # NoCode /\ HasCode(r.code)
  IN /\ gcStore' = Append(gcStore, r.id)
     /\ gcCode'  = IF hit /\ c.rc <= 1 THEN Append(gcCode, c.id) ELSE gcCode
     /\ codes'   = IF hit
                   THEN (codes \ {c}) \cup
                        {[c EXCEPT !.rc = IF c.rc > 0 THEN @ - 1 ELSE @]}
                   ELSE codes
     /\ accounts' = accounts \ {r}

\* state::update_account(address, initial, current)
UpdateAccount(a, initial, current) ==
  /\ IF initial = current
     THEN UNCHANGED <<accounts, gcStore, gcCode, codes>>
     ELSE IF current # NoAccount
     THEN /\ IF HasRow(a)
             THEN SetRow(Row(a), [Row(a) EXCEPT !.data = current.data,
                                                !.code = Normal(current.code)])
             ELSE accounts' = accounts \cup
                    {[id |-> NextId(accounts), addr |-> a,
                      data |-> current.data, code |-> Normal(current.code)]}
          /\ UNCHANGED <<gcStore, gcCode, codes>>
     ELSE IF HasRow(a)
     THEN DeleteAccount(a)
     ELSE UNCHANGED <<accounts, gcStore, gcCode, codes>>
  /\ UNCHANGED <<storage, addr2id, addr2code>>

\* Variant with a bug: the code row's id comes from the account table.
UpdateAccountCodeWrongId(a, h) ==
  /\ codes' = IF HasCode(h)
              THEN (codes \ {CodeRow(h)}) \cup {[CodeRow(h) EXCEPT !.rc = @ + 1]}
              ELSE codes \cup {[id |-> NextId(accounts), hash |-> h, rc |-> 1]}
  /\ IF HasRow(a)
     THEN SetRow(Row(a), [Row(a) EXCEPT !.code = h])
     ELSE accounts' = accounts \cup
            {[id |-> NextId(accounts), addr |-> a, data |-> 0, code |-> h]}
  /\ UNCHANGED <<storage, gcStore, gcCode, addr2id, addr2code>>

\* state::update_account_code(address, incarnation, code_hash, code): a new
\* hash gets a code row with ref_count 1, a known hash a ref_count
\* increment; the account's code_hash is then set, creating the row if needed.
UpdateAccountCode(a, h) ==
  /\ codes' = IF HasCode(h)
              THEN (codes \ {CodeRow(h)}) \cup {[CodeRow(h) EXCEPT !.rc = @ + 1]}
              ELSE codes \cup {[id |-> NextId(codes), hash |-> h, rc |-> 1]}
  /\ IF HasRow(a)
     THEN SetRow(Row(a), [Row(a) EXCEPT !.code = h])
     ELSE accounts' = accounts \cup
            {[id |-> NextId(accounts), addr |-> a, data |-> 0, code |-> h]}
  /\ UNCHANGED <<storage, gcStore, gcCode, addr2id, addr2code>>

\* state::update_storage(address, incarnation, location, initial, current):
\* writing zero erases the slot of an existing account; writing a non-zero
\* value creates the account (with code_hash kEmptyHash) if it is missing and
\* then creates or overwrites the slot.  `initial` is not read by the code.
UpdateStorage(a, k, v) ==
  /\ IF v = 0
     THEN /\ storage' = IF HasRow(a)
                        THEN [storage EXCEPT ![Row(a).id][k] = 0] ELSE storage
          /\ UNCHANGED accounts
     ELSE IF HasRow(a)
     THEN /\ storage' = [storage EXCEPT ![Row(a).id][k] = v]
          /\ UNCHANGED accounts
     ELSE LET id == NextId(accounts) IN
          /\ accounts' = accounts \cup
               {[id |-> id, addr |-> a, data |-> 0, code |-> EmptyHash]}
          /\ storage' = [storage EXCEPT ![id][k] = v]
  /\ UNCHANGED <<codes, gcStore, gcCode, addr2id, addr2code>>

-----------------------------------------------------------------------------
(* Garbage collection: state::gc(max).  Both loops run inside one call and *)
(* are modelled as recursive operators returning <<queue, table, budget>>. *)

\* The slots of a scope erased by a budget of m: db.begin() onwards.
FirstSlots(live, m) == CHOOSE S \in SUBSET live : Cardinality(S) = m

\* Variant with a bug: the entry is erased even when the budget ran out
\* exactly at the end of the scope.
RECURSIVE GcStoreLoopOverrun(_, _, _)
GcStoreLoopOverrun(q, st, m) ==
  IF m = 0 \/ q = <<>> THEN <<q, st, m>>
  ELSE LET s    == Head(q)
           live == {k \in Keys : st[s][k] # 0}
       IN IF Cardinality(live) <= m
          THEN GcStoreLoopOverrun(Tail(q), [st EXCEPT ![s] = Zero],
                                  m - Cardinality(live) - 1)
          ELSE <<q, [st EXCEPT ![s] = [k \in Keys |->
                        IF k \in FirstSlots(live, m) THEN 0 ELSE @[k]]], 0>>

\* Variant with a bug: a scope with no slots left stops the loop as if the
\* budget were spent, so its entry is never erased.
RECURSIVE GcStoreLoopStuck(_, _, _)
GcStoreLoopStuck(q, st, m) ==
  IF m = 0 \/ q = <<>> THEN <<q, st, m>>
  ELSE LET s    == Head(q)
           live == {k \in Keys : st[s][k] # 0}
       IN IF live = {} THEN <<q, st, m>>
          ELSE IF Cardinality(live) < m
          THEN GcStoreLoopStuck(Tail(q), [st EXCEPT ![s] = Zero],
                                m - Cardinality(live) - 1)
          ELSE <<q, [st EXCEPT ![s] = [k \in Keys |->
                        IF k \in FirstSlots(live, m) THEN 0 ELSE @[k]]], 0>>

\* Variant with a bug: when the budget runs out inside a scope, its last
\* unit erases the scope's entry instead of a slot.
RECURSIVE GcStoreLoopDropPartial(_, _, _)
GcStoreLoopDropPartial(q, st, m) ==
  IF m = 0 \/ q = <<>> THEN <<q, st, m>>
  ELSE LET s    == Head(q)
           live == {k \in Keys : st[s][k] # 0}
       IN IF Cardinality(live) < m
          THEN GcStoreLoopDropPartial(Tail(q), [st EXCEPT ![s] = Zero],
                                      m - Cardinality(live) - 1)
          ELSE <<Tail(q), [st EXCEPT ![s] = [k \in Keys |->
                        IF k \in FirstSlots(live, m - 1) THEN 0 ELSE @[k]]], 0>>

RECURSIVE GcStoreLoop(_, _, _)
GcStoreLoop(q, st, m) ==
  IF m = 0 \/ q = <<>> THEN <<q, st, m>>
  ELSE LET s    == Head(q)
           live == {k \in Keys : st[s][k] # 0}
       IN IF Cardinality(live) < m
          \* the scope is emptied and the budget left erases the entry
          THEN GcStoreLoop(Tail(q), [st EXCEPT ![s] = Zero],
                           m - Cardinality(live) - 1)
          \* the budget runs out inside the scope: the entry stays
          ELSE <<q, [st EXCEPT ![s] = [k \in Keys |->
                        IF k \in FirstSlots(live, m) THEN 0 ELSE @[k]]], 0>>

RECURSIVE GcCodeLoop(_, _, _)
GcCodeLoop(q, cs, m) ==
  IF m = 0 \/ q = <<>> THEN <<q, cs, m>>
  ELSE LET dead == {c \in cs : c.id = Head(q) /\ c.rc = 0}
       IN IF dead = {}
          THEN GcCodeLoop(Tail(q), cs, m - 1)
          ELSE IF m = 1
          \* the code row is erased and the budget is spent: the entry stays
          THEN <<q, cs \ dead, 0>>
          ELSE GcCodeLoop(Tail(q), cs \ dead, m - 2)

\* The value gc returns: both queues are empty.
Drained == gcStore = <<>> /\ gcCode = <<>>

Gc(m) ==
  LET s == GcStoreLoop(gcStore, storage, m)
      c == GcCodeLoop(gcCode, codes, s[3])
  IN /\ gcStore' = s[1]
     /\ storage' = s[2]
     /\ gcCode'  = c[1]
     /\ codes'   = c[2]
     /\ UNCHANGED <<accounts, addr2id, addr2code>>

-----------------------------------------------------------------------------
EngineInit ==
  /\ accounts  = {}
  /\ storage   = [i \in AcctIds |-> Zero]
  /\ codes     = {}
  /\ gcStore   = <<>>
  /\ gcCode    = <<>>
  /\ addr2id   = [a \in Addr |-> None]
  /\ addr2code = {}

=============================================================================
