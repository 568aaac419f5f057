----------------------------- MODULE EvmDriver ------------------------------
(***************************************************************************)
(* The state-transition driver around EvmState: one EVM transaction at a   *)
(* time reads state through the engine, the interpreter decides the        *)
(* "current" snapshot of every touched account and slot, and the commit    *)
(* invokes update_storage, update_account and update_account_code once per *)
(* touched slot, account and newly deployed code.  Garbage collection runs *)
(* out of band, only between transactions.                                 *)
(*                                                                         *)
(* The interpreter and its commit loop are not in this repository; the     *)
(* calls they make are modelled from the spec (sections 2, 4.2 and 5).     *)
(* Storage and account updates of one commit may come in any order, except *)
(* that update_account_code directly follows the update_account of the     *)
(* same address.                                                           *)
(***************************************************************************)
EXTENDS EvmState

CONSTANTS
  MaxSteps,   \* largest budget given to one gc call
  MaxQueue    \* bound on the length of each gc queue

VARIABLES
  phase,      \* "idle" | "exec" | "commit"
  snap,       \* address -> the Account read at the start of the commit
  cur,        \* address -> the Account the interpreter produced
  created,    \* addresses whose code is deployed by this transaction
  todoStore,  \* update_storage calls still to make: <<addr, key, value>>
  todoAcct,   \* addresses whose update_account is still to be made
  codeDue     \* address whose update_account_code is due next, or None

driverVars == <<phase, snap, cur, created, todoStore, todoAcct, codeDue>>
vars == <<engineVars, driverVars>>

Views == {NoAccount} \cup [data : Data, code : Hash \cup {EmptyHash}]

\* What the interpreter may turn an account into in one transaction: leave
\* it, delete it (self-destruct or empty-account clearing), change nonce and
\* balance, or deploy code on an address without code.  Pairs <<view, deploy>>.
Outcomes(v) ==
  {<<v, FALSE>>}
  \cup (IF v = NoAccount THEN {} ELSE {<<NoAccount, FALSE>>})
  \cup {<<[data |-> d, code |-> IF v = NoAccount THEN EmptyHash ELSE v.code],
          FALSE>> : d \in Data}
  \cup (IF v = NoAccount \/ v.code = EmptyHash
        THEN {<<[data |-> d, code |-> h], TRUE>> : d \in Data, h \in Hash}
        ELSE {})

\* The bounds: a transaction starts only if the account and code rows it may
\* create, and the queue entries its deletions may add, stay within them.
WithinBounds ==
  /\ NextId(accounts) + Cardinality({a \in Addr : ~HasRow(a)}) <= MaxAcctId + 1
  /\ NextId(codes) + Cardinality({h \in Hash : ~HasCode(h)}) <= MaxCodeId + 1
  /\ Len(gcStore) + Cardinality(accounts) <= MaxQueue
  /\ Len(gcCode) + Cardinality(accounts) <= MaxQueue

\* The caches are scoped to one transition and dropped at its end.
DropCaches ==
  /\ addr2id' = [a \in Addr |-> None]
  /\ addr2code' = {}

-----------------------------------------------------------------------------
\* A transaction starts.
BeginTx ==
  /\ phase = "idle"
  /\ WithinBounds
  /\ phase' = "exec"
  /\ UNCHANGED <<engineVars, snap, cur, created, todoStore, todoAcct, codeDue>>

\* The interpreter reads state while it executes.
Read ==
  /\ phase = "exec"
  /\ \/ \E a \in Addr : ReadAccount(a)
     \/ \E h \in Hash : ReadCode(h)
     \/ \E a \in Addr, k \in Keys : ReadStorage(a, k)
  /\ UNCHANGED driverVars

\* Execution ends: the interpreter fixes the current snapshot of every
\* account and the slots it wrote.  Only contracts have storage, and the
\* slots of an account that is gone are not written back.
Execute ==
  /\ phase = "exec"
  /\ \E plan \in [Addr -> UNION {Outcomes(View(a)) : a \in Addr}] :
       /\ \A a \in Addr : plan[a] \in Outcomes(View(a))
       /\ LET live == {a \in Addr : plan[a][1] # NoAccount
                                    /\ plan[a][1].code \in Hash}
          IN \E w \in [live \X Keys -> Vals \cup {0, None}] :
               /\ todoStore' = {<<p[1], p[2], w[p]>> : p \in {q \in live \X Keys : w[q] # None}}
               /\ snap' = [a \in Addr |-> View(a)]
               /\ cur' = [a \in Addr |-> plan[a][1]]
               /\ created' = {a \in Addr : plan[a][2]}
  /\ phase' = "commit"
  /\ todoAcct' = Addr
  /\ UNCHANGED <<engineVars, codeDue>>

CommitStorage ==
  /\ phase = "commit"
  /\ codeDue = None
  /\ \E w \in todoStore :
       /\ UpdateStorage(w[1], w[2], w[3])
       /\ todoStore' = todoStore \ {w}
  /\ UNCHANGED <<phase, snap, cur, created, todoAcct, codeDue>>

CommitAccount ==
  /\ phase = "commit"
  /\ codeDue = None
  /\ \E a \in todoAcct :
       /\ UpdateAccount(a, snap[a], cur[a])
       /\ todoAcct' = todoAcct \ {a}
       /\ codeDue' = IF a \in created THEN a ELSE None
  /\ UNCHANGED <<phase, snap, cur, created, todoStore>>

CommitCode ==
  /\ phase = "commit"
  /\ codeDue # None
  /\ UpdateAccountCode(codeDue, cur[codeDue].code)
  /\ codeDue' = None
  /\ UNCHANGED <<phase, snap, cur, created, todoStore, todoAcct>>

\* The transaction ends and its per-transition caches are discarded.
EndTx ==
  /\ phase = "commit"
  /\ todoStore = {} /\ todoAcct = {} /\ codeDue = None
  /\ phase' = "idle"
  /\ DropCaches
  /\ snap' = [a \in Addr |-> NoAccount]
  /\ cur' = [a \in Addr |-> NoAccount]
  /\ created' = {}
  /\ UNCHANGED <<accounts, storage, codes, gcStore, gcCode>>
  /\ UNCHANGED <<todoStore, todoAcct, codeDue>>

\* The administrative gc action, between transactions.
Collect(m) ==
  /\ phase = "idle"
  /\ Gc(m)
  /\ UNCHANGED driverVars

-----------------------------------------------------------------------------
Init ==
  /\ EngineInit
  /\ phase = "idle"
  /\ snap = [a \in Addr |-> NoAccount]
  /\ cur = [a \in Addr |-> NoAccount]
  /\ created = {}
  /\ todoStore = {}
  /\ todoAcct = {}
  /\ codeDue = None

Next ==
  \/ BeginTx
  \/ Read
  \/ Execute
  \/ CommitStorage
  \/ CommitAccount
  \/ CommitCode
  \/ EndTx
  \/ \E m \in 0..MaxSteps : Collect(m)

\* A transaction runs to completion once started: the engine is synchronous
\* and has no suspension point.  The operator keeps calling gc with a
\* positive budget, so collection gets its turn between transactions.
Fairness ==
  /\ WF_vars(Execute)
  /\ WF_vars(CommitStorage)
  /\ WF_vars(CommitAccount)
  /\ WF_vars(CommitCode)
  /\ WF_vars(EndTx)
  /\ SF_vars(\E m \in 1..MaxSteps : Collect(m))

Spec == Init /\ [][Next]_vars /\ Fairness

-----------------------------------------------------------------------------
(* Properties.                                                             *)

TypeOK ==
  /\ accounts \subseteq [id : AcctIds, addr : Addr, data : Data, code : CodeRefs]
  /\ storage \in [AcctIds -> [Keys -> Vals \cup {0}]]
  /\ codes \subseteq [id : 0..MaxCodeId, hash : Hash, rc : Nat]
  /\ gcStore \in Seq(AcctIds)
  /\ gcCode \in Seq(0..MaxCodeId)
  /\ addr2id \in [Addr -> AcctIds \cup {None}]
  /\ addr2code \subseteq Hash
  /\ phase \in {"idle", "exec", "commit"}
  /\ snap \in [Addr -> Views]
  /\ cur \in [Addr -> Views]
  /\ created \subseteq Addr
  /\ todoStore \subseteq Addr \X Keys \X (Vals \cup {0})
  /\ todoAcct \subseteq Addr
  /\ codeDue \in Addr \cup {None}

Live(id)  == \E r \in accounts : r.id = id
Refs(h)   == {r \in accounts : r.code = h}
Pending   == Range(gcStore)
SlotCount(st, ids) == Cardinality({<<i, k>> \in ids \X Keys : st[i][k] # 0})

\* Code reference counting (update_account's decrement, update_account_code's
\* create-or-increment): between transactions there is at most one code row
\* per hash, every live account's code hash has its row, and the row's
\* ref_count is the number of live accounts whose code_hash is that hash.
CodeRefCount ==
  phase = "idle" =>
    \A h \in Hash :
      /\ Cardinality({c \in codes : c.hash = h}) <= 1
      /\ Refs(h) # {} => HasCode(h)
      /\ HasCode(h) => CodeRow(h).rc = Cardinality(Refs(h))

\* A code row whose ref_count is zero always has an entry in gc_code_table,
\* so deferred deletion cannot leak it: update_account queues the row when it
\* takes the count to zero and gc drops an entry only after erasing the row
\* or when the row has been adopted again.
ZeroRefQueued ==
  \A c \in codes : c.rc = 0 => c.id \in Range(gcCode)

\* The work gc(max) does: slots and code rows erased, queue entries removed.
GcWork ==
  (SlotCount(storage, AcctIds) - SlotCount(storage', AcctIds))
  + (Len(gcStore) - Len(gcStore')) + (Len(gcCode) - Len(gcCode'))
  + (Cardinality(codes) - Cardinality(codes'))

\* The work that drains both queues: each queued scope's slots, each entry,
\* and each queued code row whose ref_count is zero.
PendingWork ==
  SlotCount(storage, Pending) + Len(gcStore) + Len(gcCode)
  + Cardinality({c \in codes : c.id \in Range(gcCode) /\ c.rc = 0})

\* gc(max) stays within its budget (one unit per slot erased, entry removed
\* or code row erased) and, given a budget that covers all pending work,
\* drains both queues and returns true.
GcBudget ==
  [][\A m \in 0..MaxSteps :
       Collect(m) => /\ GcWork <= m
                     /\ m >= PendingWork => Drained']_vars

\* No storage is orphaned: a storage scope that holds slots belongs to a live
\* account or still has an entry in gc_store_table.  update_account queues
\* the scope of the account it erases, and state::gc erases an entry only
\* after emptying its scope, keeping it when the budget runs out inside the
\* scope.
StorageAccountedFor ==
  \A i \in AcctIds : storage[i] # Zero => Live(i) \/ i \in Pending

\* Deferred deletion completes: the slots of a deleted account's scope are
\* eventually erased by gc (unless the scope belongs to a live account).
StorageReclaimed ==
  \A i \in AcctIds :
    (i \in Pending /\ ~Live(i)) ~> (storage[i] = Zero \/ Live(i))

\* A code row left with ref_count zero is eventually erased by gc or
\* adopted again by update_account_code.
CodeReclaimed ==
  \A h \in Hash :
    (\E c \in codes : c.hash = h /\ c.rc = 0)
      ~> ~(\E c \in codes : c.hash = h /\ c.rc = 0)

\* Refinement: the tables, read through the by.address index and the
\* account's storage scope, implement the abstract world of EvmWorld.  The
\* spec (sections 3 and 6) relies on account ids never being reassigned, so
\* a new account's scope is empty and gc only erases dead scopes.
World == INSTANCE EvmWorld WITH
  world <- [a \in Addr |-> View(a)],
  slots <- [a \in Addr |-> IF HasRow(a) THEN storage[Row(a).id] ELSE Zero]

WorldRefinement == World!Spec

=============================================================================
