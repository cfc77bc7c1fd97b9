-------------------------------- MODULE TxnMgr --------------------------------
(***************************************************************************)
(* The transaction manager of a link: mgmt/txn_mgr.rs.                     *)
(*                                                                         *)
(* Ids are handed out in order and wrap around.  An id stays in use while  *)
(* a handle to it, or a clone of one, is alive: `open` maps it to the      *)
(* number of its handles minus one.  If the next id is in use, opening     *)
(* fails although other ids may be free.  The awaiting variant, open(), is *)
(* not called anywhere and is left out.                                    *)
(***************************************************************************)
EXTENDS Naturals

CONSTANT TxnIds   \* how many ids there are; 2^16 in the code

ASSUME TxnAssumption == TxnIds \in Nat \ {0}

TxnId == 0 .. TxnIds - 1

NewTxnMgr == [next_free |-> 0, open |-> [i \in {} |-> 0]]

\* A handle: its id, and the link and connection whose manager it points to.
TxnHandle(l, c, i) == [link |-> l, conn |-> c, id |-> i]

CanOpen(m) == m.next_free \notin DOMAIN m.open

\* The manager after the id next_free has been handed out.
TryOpenRaw(m) ==
    [next_free |-> (m.next_free + 1) % TxnIds,
     open |-> [i \in DOMAIN m.open \cup {m.next_free} |->
                  IF i = m.next_free THEN 0 ELSE m.open[i]]]

RefTxn(m, id) == [m EXCEPT !.open[id] = @ + 1]

DerefTxn(m, id) ==
    IF m.open[id] > 0
    THEN [m EXCEPT !.open[id] = @ - 1]
    ELSE [m EXCEPT !.open = [i \in DOMAIN m.open \ {id} |-> m.open[i]]]

TxnMgrTypeOK(m) ==
    /\ m.next_free \in TxnId
    /\ DOMAIN m.open \subseteq TxnId
    /\ \A i \in DOMAIN m.open : m.open[i] \in Nat
===============================================================================
