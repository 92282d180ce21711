--------------------------- MODULE BookingAccount ---------------------------
(***************************************************************************)
(* What the money side of a booking promises its users: an account that a  *)
(* payment or a reversal moves in one step, on the balance it has at that  *)
(* moment, and whose statement always agrees with itself. No lock, no      *)
(* request and no order of queries is seen.                                *)
(*                                                                         *)
(* An edit is the exception, and the only one: it is a draft of the whole  *)
(* account, taken at one moment and put at a later one. It carries its own *)
(* balance and its own flag, both as they were when the draft was taken.   *)
(***************************************************************************)
EXTENDS Naturals

CONSTANTS
    Requests,     \* who pays, reverses and edits
    None          \* no account yet; no draft

VARIABLES
    account,      \* the statement, or None
    receipts,     \* receipts[r]: amount of the payment r made, 0 when there is none
    drafts        \* drafts[r]: what r is about to put, or None

Statement == [members : Nat, price : Nat, total : Nat, paid : Nat, due : Nat,
              archived : BOOLEAN]
Draft     == [paid : Nat, archived : BOOLEAN]

Less(total, paid) == IF paid >= total THEN 0 ELSE total - paid

\* A statement whose derived amounts agree with the others.
Agrees(a) ==
    /\ a \in Statement
    /\ a.total = a.members * a.price
    /\ a.due = Less(a.total, a.paid)

\* The balance becomes `paid`, and nothing else of the account moves.
Balance(paid) == account' = [account EXCEPT !.paid = paid, !.due = Less(account.total, paid)]

Init ==
    /\ account = None
    /\ receipts = [r \in Requests |-> 0]
    /\ drafts = [r \in Requests |-> None]

Open ==
    /\ account = None
    /\ Agrees(account') /\ ~account'.archived
    /\ UNCHANGED <<receipts, drafts>>

Receive(r) ==
    /\ Agrees(account)
    /\ receipts[r] = 0 /\ receipts'[r] \in Nat \ {0}
    /\ receipts' = [receipts EXCEPT ![r] = receipts'[r]]
    /\ Balance(account.paid + receipts'[r])
    /\ UNCHANGED drafts

\* The balance does not go below zero.
GiveBack(r) ==
    /\ Agrees(account)
    /\ receipts[r] > 0
    /\ receipts' = [receipts EXCEPT ![r] = 0]
    /\ Balance(Less(account.paid, receipts[r]))
    /\ UNCHANGED drafts

Take(r, archived) ==
    /\ Agrees(account)
    /\ drafts[r] = None
    /\ drafts' = [drafts EXCEPT ![r] = [paid |-> account.paid, archived |-> archived]]
    /\ UNCHANGED <<account, receipts>>

\* An edit keeps the flag or archives the booking.
TakeEdit(r) == Take(r, account.archived) \/ Take(r, TRUE)

\* The booking's quotation is accepted again.
TakeRevival(r) == Take(r, FALSE)

Put(r) ==
    /\ drafts[r] \in Draft
    /\ Agrees(account')
    /\ account'.paid = drafts[r].paid /\ account'.archived = drafts[r].archived
    /\ drafts' = [drafts EXCEPT ![r] = None]
    /\ UNCHANGED receipts

Drop(r) ==
    /\ drafts[r] \in Draft
    /\ drafts' = [drafts EXCEPT ![r] = None]
    /\ UNCHANGED <<account, receipts>>

Next ==
    \/ Open
    \/ \E r \in Requests :
          Receive(r) \/ GiveBack(r) \/ TakeEdit(r) \/ TakeRevival(r) \/ Put(r) \/ Drop(r)

Spec == Init /\ [][Next]_<<account, receipts, drafts>>
=============================================================================
