----------------------------- MODULE BidLedger -----------------------------
(***************************************************************************)
(* What an auction promises its bidders about the list of accepted bids,   *)
(* with no lock, no copies and no requests: bids are entered one at a time *)
(* and each is admissible after the ones before it.  The promise is void   *)
(* once a lock has expired under a call that was using it.                 *)
(***************************************************************************)
EXTENDS Integers, Sequences

CONSTANTS
    Sealed,         \* amounts are hidden until the end
    MinIncrement,
    Cooldown

VARIABLES
    ledger,         \* the accepted bids, oldest first
    intact          \* no lock has expired under its holder

Admissible(b) ==
    /\ ~Sealed => \A i \in DOMAIN ledger : b.amount >= ledger[i].amount + MinIncrement
    /\ Sealed => \A i \in DOMAIN ledger : b.user # ledger[i].user
    /\ \A i \in DOMAIN ledger :
          b.user = ledger[i].user => b.at - ledger[i].at >= Cooldown

Enter ==
    /\ Len(ledger') = Len(ledger) + 1
    /\ ledger' = Append(ledger, ledger'[Len(ledger')])
    /\ intact => Admissible(ledger'[Len(ledger')])
    /\ UNCHANGED intact

Void == intact /\ ~intact' /\ UNCHANGED ledger

LedgerInit == ledger = <<>> /\ intact = TRUE

LedgerNext == Enter \/ Void

LedgerSpec == LedgerInit /\ [][LedgerNext]_<<ledger, intact>>
=============================================================================
