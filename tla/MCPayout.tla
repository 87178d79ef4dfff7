------------------------------ MODULE MCPayout ------------------------------
(***************************************************************************)
(* Small instances of the two jobs of the poll loop that settle what       *)
(* waits: WalletChange, which is of SQLite, and Refund on PostgreSQL with  *)
(* one overpayment.  They share no state: a behaviour runs one of them,    *)
(* and the variables of the other keep their initial values.               *)
(***************************************************************************)
EXTENDS WalletChange

VARIABLES
    part,       \* the instance that runs: "wallet" or "refund"
    row, overpaidOn, vault_address, configured, stalled, job, todo, moved, pool, held,
    payee, triggered, restarts

R == INSTANCE Refund WITH
    Row <- {1}, Sub <- {"sub"}, User <- {"member"}, Vault <- {"vault"},
    Wallet <- {"wallet"}, NoWallet <- "none", NoVault <- "none",
    UserOf <- [s \in {"sub"} |-> "member"], Owner <- [v \in {"vault"} |-> "sub"],
    Submitter <- [w \in {"wallet"} |-> "member"],
    USE_POSTGRES <- TRUE, MaxFaults <- 1, faults <- restarts

refunds == <<row, overpaidOn, vault_address, configured, stalled, job, todo, moved, pool,
             held, payee, triggered, restarts>>
all     == <<part, vars, refunds>>

MCInit ==
    /\ part \in {"wallet", "refund"} /\ Init /\ R!Init
    /\ part = "wallet" => configured = "none" /\ vault_address["sub"] = "vault"
    /\ part = "refund" => passcode = FALSE

MCNext ==
    /\ \/ part = "wallet" /\ Next /\ UNCHANGED refunds
       \/ part = "refund" /\ R!Next /\ UNCHANGED vars
    /\ UNCHANGED part

\* The fairness of WalletChange, and that of Refund, whose actions are disabled
\* as long as nothing has been overpaid.
MCSpec ==
    /\ MCInit /\ [][MCNext]_all
    /\ WF_vars(part = "wallet" /\ Applier) /\ R!Fairness

----------------------------------------------------------------------------
\* A claimed refund does not stay in pending_send: see Refund.
PendingSendIsResolved == R!PendingSendIsResolved
=============================================================================
