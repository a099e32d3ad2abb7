-------------------------- MODULE MCSolanaWatcher --------------------------
(* Instances of SolanaWatcher for TLC: a and b pay through the program, c and d
   to addresses of their own. *)
EXTENDS SolanaWatcher

CONSTANTS a, b, c, d, s, treasury, x1

Holds(events, credits, units) == [events |-> events, credits |-> credits, units |-> units]

(* A payment of the quoted amount to one transfer, *)
Simple == {Holds(<<a>>, {}, 20), Holds(<<>>, {c}, 20)}

(* to several, one with a stranger's, plain transfers to the treasury, and amounts
   about the tolerance and the limit, half cents among them.  The overpayment of 24
   units raises the amount to send, also of a transfer that it does not fund. *)
Contents ==
    Simple
    \cup {Holds(<<a, b>>, {}, 20), Holds(<<>>, {c, d}, 20),
          Holds(<<a, b>>, {c}, 20), Holds(<<s, a>>, {d}, 20),
          Holds(<<>>, {treasury}, 20), Holds(<<>>, {c, treasury}, 24)}
    \cup {Holds(<<>>, {c}, u) : u \in (16 .. 19) \cup {23} \cup (27 .. 29)}

(* The other transaction is a simple one, which pays a transfer that x1 pays if x1
   pays one, and only transfers with addresses are created while the watcher runs. *)
MCInit ==
    /\ slot = 0
    /\ mined = [x \in Tx |-> 0]
    /\ content \in [Tx -> Content]
    /\ \A x \in Tx \ {x1} : content[x] \in Simple /\ (Paid(x) \subseteq Paid(x1) \/ Paid(x1) = {})
    /\ opened = Transfer \ UNION {Paid(x) \cap Address : x \in Tx}
    /\ Fresh

MCSpec == MCInit /\ [][Next]_vars
MCFairSpec == MCSpec /\ \A w \in Runner : WF_vars(Work(w))
=============================================================================
