----------------------------- MODULE MCFunding -----------------------------
(* Instances of Funding for TLC. *)
EXTENDS Funding, TLC

(* Transfers on the same chain, transactions and slots are interchangeable. *)
Symmetry == Permutations(Tx) \cup Permutations(Customer) \cup Permutations(Transfer)

(* Deposits of different transactions to different transfers have nothing to do
   with each other, unless a third one connects them; one transaction may hold
   several, with the first of all, and that is to a transfer that stands for either.
   Customers submit transactions that pay their transfer, for others are refused,
   and while it awaits funding. *)
First == CHOOSE x \in Tx : TRUE
Related ==
    /\ \A d \in deposits' : deposits' = {d} \/ \E e \in deposits' \ {d} : d.tx = e.tx \/ d.t = e.t
    /\ \A d \in deposits' : d.tx # First => d.log = 0
    /\ deposits = {} => \A d \in deposits' : d.tx = First /\ d.t = CHOOSE t \in Transfer : TRUE
    /\ \A c \in Customer : post[c] = NoPost /\ post'[c] # NoPost =>
          post'[c].fresh /\ \E d \in deposits : d.t = post'[c].t /\ d.tx = post'[c].tx

RelatedSpec ==
    /\ Init /\ [][Next /\ Related]_vars
    /\ \A d \in Deposit : WF_vars(WatcherReport(d))
=============================================================================
