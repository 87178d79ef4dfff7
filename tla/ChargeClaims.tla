---------------------------- MODULE ChargeClaims ----------------------------
(***************************************************************************)
(* What the developer documentation and the comments say of charges and    *)
(* the code does not keep.                                                 *)
(***************************************************************************)
EXTENDS MCCharge, FiniteSetsExt

\* A charge made with a test key; payments of parts only.
MCTestMode == [c \in Charge |-> "test"]
MCParts == [t \in Tx |-> {1}]

\* An expired charge is one whose window passed without payment.  get_charge writes
\* 'expired' by id over a completion that came after its read.
ExpiredIsUnpaid == \A c \in Charge : charge[c].status = "expired" => charge[c].tx = NoTx

\* A webhook is sent for a completion and says so.  The row is read again by the
\* delivery, and may say 'expired' by then.
HookSaysCompleted == \A t \in Tx : hook[t].pc = "deliver" => hook[t].says = "completed"

\* The payment of a completed charge is the one it was completed with.  Two payments
\* whose tasks both found the charge unpaid overwrite each other.
PaymentIsKept == [][\A c \in Charge : charge[c].tx # NoTx /\ charge'[c].status # "deleted"
                        => charge'[c].tx = charge[c].tx]_vars

\* The vault of a test charge is watched on testnet.  The link's own wake names mainnet,
\* and later ones leave the network as it is.
WatchedOnItsNetwork ==
    \A v \in Vault : watch[v].net # "none" => watch[v].net = NetOf(Owner[v])

\* The vault adds up what it gets and splits the sum; a charge paid in parts stays
\* unpaid, for the watcher looks at one transaction at a time.
PartsAddUp ==
    \A c \in Charge, v \in Vault :
        (/\ faults = 0 /\ charge[c].vault = v /\ \A t \in OnVault(v) : processed[t] # "none"
         /\ \A j \in Job : job[j] = Idle
         /\ MapThenSumSet(LAMBDA t : chain[t].value, OnVault(v)) >= Required[v])
        => charge[c].tx # NoTx

\* Who pays within the charge's window is served without asking again.  A vault whose
\* time is up is dropped at the head of a round, before the round looks at it.
PaidInTimeIsCompleted ==
    \A t \in Tx, v \in Vault :
        (VaultOf(t) = v /\ Covers(t) /\ age[Owner[v]] = 0 /\ charge[Owner[v]].vault = v) ~>
            (charge[Owner[v]].tx # NoTx \/ charge[Owner[v]].status = "deleted" \/ faults > 0)
=============================================================================
