----------------------------- MODULE UserStore -----------------------------
(***************************************************************************)
(* What the user store promises to the services above it, whichever        *)
(* database the shop is deployed with (user.repository.ts): saving a new   *)
(* user succeeds for exactly one of those who want a name, whole, and from *)
(* then on the name reads as that account.                                 *)
(*                                                                         *)
(* Accounts is shown to implement this specification.                      *)
(***************************************************************************)
CONSTANTS
    Username,
    Account,        \* what a user is, each with a username
    NoAccount       \* what a name without an account reads as

VARIABLE accounts   \* what findByUsername answers for each name

Init == accounts = [n \in Username |-> NoAccount]

\* save of a new user; UsernameTakenError, which changes nothing, otherwise.
Save(account) ==
    /\ accounts[account.username] = NoAccount
    /\ accounts' = [accounts EXCEPT ![account.username] = account]

Next == \E account \in Account : Save(account)

Spec == Init /\ [][Next]_accounts
=============================================================================
