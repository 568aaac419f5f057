------------------------------ MODULE EvmWorld ------------------------------
(***************************************************************************)
(* What the world-state engine promises the interpreter, with no tables,  *)
(* ids, reference counts or queues: every address has at most one account *)
(* and a sparse storage map.  Deleting an account empties its storage at   *)
(* once (the deferred physical deletion is invisible), and an account that *)
(* comes into existence starts with empty storage.  Spec sections 3, 4, 8. *)
(***************************************************************************)
EXTENDS Naturals

CONSTANTS Addr, Hash, EmptyHash, Keys, Vals, Data

VARIABLES
  world,   \* address -> account [data, code] or NoAccount
  slots    \* address -> location -> value (0 = absent)

NoAccount == [none |-> TRUE]
Zero      == [k \in Keys |-> 0]
Account   == [data : Data, code : Hash \cup {EmptyHash}]

\* An account created implicitly by a storage or code write: nonce and
\* balance zero, no code.
Fresh == [data |-> 0, code |-> EmptyHash]
Base(a) == IF world[a] = NoAccount THEN Fresh ELSE world[a]

Init ==
  /\ world = [a \in Addr |-> NoAccount]
  /\ slots = [a \in Addr |-> Zero]

\* The account is set; its storage is kept (empty if it is new).
SetAccount(a, acc) ==
  /\ world' = [world EXCEPT ![a] = acc]
  /\ UNCHANGED slots

\* The account and all its storage are gone.
Delete(a) ==
  /\ world[a] # NoAccount
  /\ world' = [world EXCEPT ![a] = NoAccount]
  /\ slots' = [slots EXCEPT ![a] = Zero]

\* One slot is written; a non-zero write brings the account into existence.
SetSlot(a, k, v) ==
  /\ world' = IF v = 0 THEN world ELSE [world EXCEPT ![a] = Base(a)]
  /\ slots' = [slots EXCEPT ![a][k] = v]

\* The account's code hash is set.
SetCode(a, h) ==
  /\ world' = [world EXCEPT ![a] = [Base(a) EXCEPT !.code = h]]
  /\ UNCHANGED slots

Next ==
  \E a \in Addr :
    \/ Delete(a)
    \/ \E acc \in Account : SetAccount(a, acc)
    \/ \E k \in Keys, v \in Vals \cup {0} : SetSlot(a, k, v)
    \/ \E h \in Hash : SetCode(a, h)

Spec == Init /\ [][Next]_<<world, slots>>

=============================================================================
