------------------------------ MODULE MCOwner ------------------------------
(***************************************************************************)
(* Small instances of what an owner has: the vaults, the passkeys, the     *)
(* platform console and the paywalled group.  They share no state: a       *)
(* behaviour runs one of them, and the variables of the others keep their  *)
(* initial values.  Console is taken in two parts and Group three times,   *)
(* with other actors and other operations each time: their parts multiply. *)
(***************************************************************************)
EXTENDS Owner, FiniteSets, TLC

CONSTANT FirstKey

VARIABLE part       \* the instance that runs

money     == <<balance, accumulated_paid, overage_held, received, owed, paid, spent,
               overdrawn>>
passcodes == <<table, hash, failed, locked, wallet, holder, request, others, guesses>>
console   == <<platform, secret, payout, cache, age, hooks, drawn, owned, doing>>
paywall   == vars
all       == <<part, money, passcodes, console, paywall>>

\* Who owns a paywall: two admins, of whom each may be barred.
Owners == INSTANCE Group WITH Request <- {"web"}

\* How it is set up: one admin, in the bot and in the mini app, two prices.
Opening == INSTANCE Group WITH
    Admin <- {"owner"}, Request <- {"web"}, Price <- {500, 700},
    Doing <- {"wizard", "create", "status"}, MaxGrants <- 1, MaxFaults <- 1

\* How it lives and ends: members, prices, wallet changes and the deletion.
Life == INSTANCE Group WITH
    Admin <- {"owner"}, Request <- {"web"}, MaxGrants <- 1,
    Doing <- {"create", "delete", "price", "members", "wallet", "status"}

ASSUME OwnerAssumption ==
    /\ V!VaultAssumption /\ P!PasscodeAssumption /\ C!ConsoleAssumption
    /\ Owners!GroupAssumption /\ Opening!GroupAssumption /\ Life!GroupAssumption

\* The keys are alike: which of them is drawn first makes no difference.
MCInit ==
    /\ part \in {"vault", "passcode", "keys", "platform", "owners", "setup", "life"}
    /\ V!Init /\ P!Init /\ C!Init /\ secret["test"] = FirstKey
    /\ part # "passcode" => table = "group"
    /\ CASE part = "owners" -> Owners!Init
         [] part = "setup" -> Opening!Init
         [] OTHER -> Life!Init

\* The parts that work on the row of a platform.
ConsoleNext ==
    \/ part = "keys" /\ (C!Authentication \/ C!Keys)
    \/ part = "platform" /\ (C!Keys \/ C!Endpoint \/ C!Rows)

\* The parts that work on the row of a group.
GroupNext ==
    \/ part = "owners" /\ Owners!Next
    \/ part = "setup" /\ Opening!Next
    \/ part = "life" /\ Life!Next

MCNext ==
    /\ \/ part = "vault" /\ V!Next /\ UNCHANGED <<passcodes, console, paywall>>
       \/ part = "passcode" /\ P!Next /\ UNCHANGED <<money, console, paywall>>
       \/ ConsoleNext /\ UNCHANGED <<money, passcodes, paywall>>
       \/ GroupNext /\ UNCHANGED <<money, passcodes, console>>
    /\ UNCHANGED part

MCSpec == MCInit /\ [][MCNext]_all

\* The coroutines are alike, and the admins, who differ by what they do.
Symmetry == Permutations(Request) \cup Permutations(Admin)

----------------------------------------------------------------------------
\* Every part keeps its types.
PartsTypeOK ==
    /\ V!TypeOK /\ P!TypeOK /\ C!TypeOK
    /\ CASE part = "owners" -> Owners!TypeOK
         [] part = "setup" -> Opening!TypeOK
         [] OTHER -> Life!TypeOK
=============================================================================
