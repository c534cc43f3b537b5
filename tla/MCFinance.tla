----------------------------- MODULE MCFinance -----------------------------
(* Small instances for TLC of the two ways money leaves the company.  They  *)
(* share no document; a behaviour runs one of them.                        *)
EXTENDS Finance, TLC

CONSTANTS p1, p2, i1, i2, c1, c2, r1, r2, h1, h2, k1

VARIABLE office \* the one that runs

MCPayments == {p1, p2}
MCInvoices == {i1, i2}
MCCalls == {c1, c2}
MCRequests == {r1, r2}
MCHandlers == {h1, h2}
MCKeys == {k1}

MCInit == Init /\ PayoutInit /\ office \in {"vendors", "pickers"}
MCNext == \/ office = "vendors" /\ Next /\ UNCHANGED <<payoutVars, office>>
          \/ office = "pickers" /\ PayoutNext /\ UNCHANGED <<vars, office>>
MCSpec == MCInit /\ [][MCNext]_<<vars, payoutVars, office>>

(* Swapping two of a kind; only one office runs, so one swap serves both.   *)
Swap(a, b, c, d) == {f \in Permutations({a, b, c, d}) :
                       f[a] \in {a, b} /\ f[b] \in {a, b} /\ (f[a] = a <=> f[c] = c)}
Alike == Swap(p1, p2, r1, r2) \cup Swap(c1, c2, h1, h2) \cup Permutations(MCInvoices)

(* Bounds: three documents of the vendors, one debit a request, two in the *)
(* wallet; no further from an invoice rejected under a payment's lines     *)
(* (approving it at once is followed), or from a picker's rejected request *)
(* to another one when handlers have overlapped.                           *)
Few == /\ Cardinality({p \in Payments : payment[p].status # "none"})
            + Cardinality({i \in Invoices : invoice[i].status # "none"}) <= 3
       /\ \A i \in Invoices, p \in Payments : invoice[i].status = "rejected" => i \notin Lines(p)
       /\ \A r \in Requests : debits[r] <= 1
       /\ wallet.available + wallet.reserved <= 2
       /\ disturbed => \A r, s \in Requests : r # s /\
                         request[r].status = "REJECTED" => request[s].status = "none"
=============================================================================
