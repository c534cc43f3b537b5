------------------------------ MODULE MCWallet ------------------------------
(* Small wallets for TLC: three handlers, a balance of 3 and every kind of  *)
(* call, with amounts that fit once but not twice.                          *)
EXTENDS WalletMoney, TLC

CONSTANTS o1, o2, o3, t1, r1, r2, r3

MCRequests == {r1, r2, r3}
MCRefs == {o1, o2, o3, t1}
Call(op, ref, amt) == [op |-> op, ref |-> ref, amt |-> amt]

DebitCalls == {Call("checkout", o1, 2), Call("checkout", o2, 4), Call("debit", o1, 2),
               Call("debit", o3, 2), Call("debit", o3, 3)}
AllCalls == {Call("checkout", o1, 2), Call("debit", o1, 2), Call("debit", o2, 3),
             Call("topup", t1, 1), Call("topup", t1, 5), Call("void", o1, 3),
             Call("void", o2, 1), Call("auto", o3, 1), Call("goodwill", o3, 1)}

Handlers == Permutations(Requests)
=============================================================================
