---------------------------- MODULE ChargeProofs ----------------------------
(***************************************************************************)
(* Theorems about the charges of a developer platform, for any number of   *)
(* charges, vaults, payments, requests and rechecks, and any prices.       *)
(***************************************************************************)
EXTENDS Charge, TLAPS

-----------------------------------------------------------------------------
(* The inductive invariant.                                                *)

\* A creation knows its charge, and stores a vault made for that charge.
Requested ==
    \A r \in Request :
        /\ request[r].pc # "idle" => request[r].charge \in Charge
        /\ request[r].pc = "store" =>
             request[r].vault \in Vault /\ Owner[request[r].vault] = request[r].charge

Grounded == \A t \in Tx : Paid(t) => VaultOf(t) \in Vault

\* A job is about a payment that was made; past the load its charge is the one
\* the vault was made for, and past the amount check the payment covers it.
InOrder(x) ==
    /\ x.pc # "idle" => x.tx \in Tx /\ Paid(x.tx)
    /\ x.pc \in {"partial", "claim", "complete"} => x.charge = Owner[VaultOf(x.tx)]
    /\ x.pc \in {"claim", "complete"} => Covers(x.tx)
Working == \A j \in Job : InOrder(job[j])

\* A webhook is about a payment that was made; the post under way is not past the last.
Telling ==
    \A t \in Tx : /\ hook[t].pc = "dispatch" => Paid(t)
                  /\ hook[t].pc = "deliver" => hook[t].attempt < MAX_ATTEMPTS

\* The row of processed_tx_hashes is what lets a job complete: whoever inserted it
\* is the only one on the way to a completion, and has not come there yet.
Claims ==
    /\ \A t \in Tx : completed[t] <= IF processed[t] = "full" THEN 1 ELSE 0
    /\ \A j \in Job : at(j, "complete") =>
         processed[job[j].tx] = "full" /\ completed[job[j].tx] = 0
    /\ \A i, j \in Job : (at(i, "complete") /\ at(j, "complete") /\ i # j) =>
         job[i].tx # job[j].tx

\* The payment of a row is one for its charge.
Settles(t, c) == Owner[VaultOf(t)] = c /\ Covers(t) /\ processed[t] = "full"
RowsPaid == \A c \in Charge : charge[c].tx # NoTx => Paid(charge[c].tx)

Shape == TypeOK /\ Requested /\ Grounded /\ Telling
IInv == /\ Shape /\ Working /\ Claims /\ RowsPaid
        /\ PaidByItsTx /\ ClaimedIsCompleted

-----------------------------------------------------------------------------
(* What the ways of moving a job on do to the jobs.                        *)

LEMMA GotoEffect ==
  ASSUME job \in [Job -> Jobs], NEW j \in Job, Goto(j, "load") \/ Goto(j, "complete")
  PROVE  /\ job' \in [Job -> Jobs]
         /\ job'[j].pc \in {"load", "complete"}
         /\ Goto(j, "load") => job'[j].pc = "load"
         /\ job'[j].tx = job[j].tx /\ job'[j].charge = job[j].charge
         /\ \A i \in Job : i # j => job'[i] = job[i]
  <1>1. PICK pc \in {"load", "complete"} : Goto(j, pc)  OBVIOUS
  <1>2. job' = [job EXCEPT ![j] = [job[j] EXCEPT !.pc = pc]]  BY <1>1 DEF Goto
  <1>3. job[j] \in Jobs  OBVIOUS
  <1>4. [job[j] EXCEPT !.pc = pc] \in Jobs  BY <1>3 DEF Jobs
  <1>5. Goto(j, "load") => job'[j].pc = "load"
    BY <1>3 DEF Goto, Jobs
  <1> QED  BY <1>2, <1>3, <1>4, <1>5 DEF Jobs

LEMMA DoneEffect ==
  ASSUME job \in [Job -> Jobs], NEW j \in Job, Done(j)
  PROVE  /\ job' \in [Job -> Jobs]
         /\ job'[j] = Idle /\ job'[j].pc = "idle"
         /\ \A i \in Job : i # j => job'[i] = job[i]
  BY DEF Done, Idle, Jobs

LEMMA StartEffect ==
  ASSUME job \in [Job -> Jobs], NEW j \in Job, NEW t \in Tx,
         NEW by \in {"watcher", "buyer", "owner"}, Start(j, by, t)
  PROVE  /\ job' \in [Job -> Jobs]
         /\ job[j].pc = "idle"
         /\ job'[j].pc = "precheck" /\ job'[j].tx = t
         /\ \A i \in Job : i # j => job'[i] = job[i]
  <1> DEFINE r == [Idle EXCEPT !.pc = "precheck", !.by = by, !.tx = t]
  <1>1. r \in Jobs /\ r.pc = "precheck" /\ r.tx = t  BY DEF Idle, Jobs
  <1>2. job' = [job EXCEPT ![j] = r] /\ job[j] = Idle  BY DEF Start
  <1> HIDE DEF r
  <1> QED  BY <1>1, <1>2 DEF Idle

LEMMA LoadEffect ==
  ASSUME IInv, NEW j \in Job, load(j)
  PROVE  /\ job' \in [Job -> Jobs]
         /\ job'[j].pc \in {"idle", "partial", "claim"}
         /\ job'[j].pc # "idle" =>
              job'[j].tx = job[j].tx /\ job'[j].charge = Owner[VaultOf(job[j].tx)]
         /\ job'[j].pc = "claim" => Covers(job[j].tx)
         /\ \A i \in Job : i # j => job'[i] = job[i]
  <1>1. job \in [Job -> Jobs] /\ job[j] \in Jobs  BY DEF IInv, Shape, TypeOK
  <1>2. PICK t \in Tx : t = job[j].tx /\ Paid(t) /\ VaultOf(t) \in Vault
    BY DEF load, at, IInv, Shape, Working, InOrder, Grounded
  <1>3. CASE Done(j)
    BY <1>1, <1>3, DoneEffect
  <1>4. CASE ~Done(j)
    <2>1. PICK c \in get_platform_charge_by_vault(VaultOf(t)) :
            job' = [job EXCEPT ![j].pc = IF Covers(t) THEN "claim" ELSE "partial",
                               ![j].charge = c]
      BY <1>2, <1>4 DEF load
    <2> DEFINE pc == IF Covers(t) THEN "claim" ELSE "partial"
    <2>2. c \in Charge /\ c = Owner[VaultOf(t)]
      BY <1>2, <2>1 DEF get_platform_charge_by_vault, IInv, Shape, TypeOK
    <2>3. job' = [job EXCEPT ![j] = [job[j] EXCEPT !.pc = pc, !.charge = c]]
      BY <2>1
    <2>4. pc \in {"claim", "partial"} /\ (pc = "claim" => Covers(t))  OBVIOUS
    <2> HIDE DEF pc
    <2>5. [job[j] EXCEPT !.pc = pc, !.charge = c] \in Jobs
      BY <1>1, <2>2, <2>4 DEF Jobs
    <2> QED  BY <1>1, <1>2, <2>2, <2>3, <2>4, <2>5 DEF Jobs
  <1> QED  BY <1>3, <1>4

\* The helpers that write one entry of a table keep its shape.
LEMMA WakeType ==
  ASSUME watch \in [Vault -> Watches], NEW v \in Vault,
         \/ wake_watcher_for_vault(v, "mainnet") \/ wake_watcher_for_vault(v, "testnet")
         \/ mark_vault_confirmed(v)
  PROVE  watch' \in [Vault -> Watches]
  <1>1. watch[v] \in Watches  OBVIOUS
  <1>2. CASE wake_watcher_for_vault(v, "mainnet")
    BY <1>1, <1>2 DEF wake_watcher_for_vault, NotWatched, Watches
  <1>3. CASE wake_watcher_for_vault(v, "testnet")
    BY <1>1, <1>3 DEF wake_watcher_for_vault, NotWatched, Watches
  <1>4. CASE mark_vault_confirmed(v)
    <2>1. [watch[v] EXCEPT !.is = "paid"] \in Watches  BY <1>1 DEF Watches
    <2>2. watch' = watch \/ watch' = [watch EXCEPT ![v] = [watch[v] EXCEPT !.is = "paid"]]
      BY <1>4 DEF mark_vault_confirmed
    <2> QED  BY <2>1, <2>2
  <1> QED  BY <1>2, <1>3, <1>4

LEMMA MarkType ==
  ASSUME processed \in [Tx -> {"none", "partial", "full"}], NEW t \in Tx,
         mark_tx_processed(t, "partial") \/ mark_tx_processed(t, "full")
  PROVE  /\ processed' \in [Tx -> {"none", "partial", "full"}]
         /\ \A u \in Tx : processed[u] = "full" => processed'[u] = "full"
         /\ \A u \in Tx : u # t => processed'[u] = processed[u]
         /\ mark_tx_processed(t, "partial") => (processed'[t] = "full" => processed[t] = "full")
         /\ mark_tx_processed(t, "full") =>
              (processed'[t] = "full" <=> processed[t] \in {"none", "full"})
  BY DEF mark_tx_processed

-----------------------------------------------------------------------------
(* TypeOK, with what a request, a vault and a webhook know.                *)

LEMMA ShapeInit == Init => Shape
  <1> SUFFICES ASSUME Init PROVE Shape  OBVIOUS
  <1>1. charge \in [Charge -> Rows] /\ \A c \in Charge : charge[c].vault = NoVault
    BY DEF Init, NoRow, Rows, Statuses
  <1>2. request \in [Request -> Creations] /\ \A r \in Request : request[r].pc = "idle"
    BY DEF Init, Waiting, Creations
  <1>3. watch \in [Vault -> Watches]  BY DEF Init, NotWatched, Watches
  <1>4. job \in [Job -> Jobs]  BY DEF Init, Idle, Jobs
  <1>5. hook \in [Tx -> Hooks] /\ \A t \in Tx : hook[t].pc = "none"
    BY ChargeAssumption DEF Init, NoHook, Hooks, Statuses
  <1>6. chain \in [Tx -> Transactions] /\ \A t \in Tx : ~Paid(t)
    BY DEF Init, Unpaid, Transactions, Paid
  <1>7. age \in [Charge -> 0..2] /\ faults \in 0..MaxFaults /\ completed \in [Tx -> Nat]
    BY ChargeAssumption DEF Init
  <1>8. processed \in [Tx -> {"none", "partial", "full"}] /\ lapsing \subseteq Charge
        /\ running \in BOOLEAN /\ seen \subseteq Tx /\ linked \subseteq Vault /\ running
    BY DEF Init
  <1>9. TypeOK
    BY <1>1, <1>2, <1>3, <1>4, <1>5, <1>6, <1>7, <1>8, ChargeAssumption DEF TypeOK
  <1> QED  BY <1>2, <1>5, <1>6, <1>9 DEF Shape, Requested, Grounded, Telling

\* An HTTP request that moves on, its charge and vault being what they must be.
LEMMA RequestEffect ==
  ASSUME Shape, NEW r \in Request,
         \/ request' = [request EXCEPT ![r] = Waiting]
         \/ request' = [request EXCEPT ![r].pc = "generate"] /\ request[r].pc = "insert"
         \/ \E c \in Charge, pc \in {"insert", "generate"} :
              request' = [request EXCEPT ![r] = [Waiting EXCEPT !.pc = pc, !.charge = c]]
         \/ \E v \in Vault : /\ request' = [request EXCEPT ![r].pc = "store", ![r].vault = v]
                             /\ request[r].pc = "generate" /\ Owner[v] = request[r].charge
  PROVE  request' \in [Request -> Creations] /\ Requested'
  <1>1. request \in [Request -> Creations] /\ request[r] \in Creations /\ Requested
    BY DEF Shape, TypeOK
  <1>2. ASSUME NEW x \in Creations, request' = [request EXCEPT ![r] = x],
               x.pc # "idle" => x.charge \in Charge,
               x.pc = "store" => x.vault \in Vault /\ Owner[x.vault] = x.charge
        PROVE  request' \in [Request -> Creations] /\ Requested'
    BY <1>1, <1>2 DEF Requested
  <1>3. CASE request' = [request EXCEPT ![r] = Waiting]
    <2>1. Waiting \in Creations /\ Waiting.pc = "idle"  BY DEF Waiting, Creations
    <2> QED  BY <1>2, <1>3, <2>1
  <1>4. CASE request' = [request EXCEPT ![r].pc = "generate"] /\ request[r].pc = "insert"
    <2> DEFINE x == [request[r] EXCEPT !.pc = "generate"]
    <2>1. x \in Creations /\ x.pc = "generate" /\ x.charge \in Charge
      BY <1>1, <1>4 DEF Creations, Requested
    <2>2. request' = [request EXCEPT ![r] = x]  BY <1>4
    <2> HIDE DEF x
    <2> QED  BY <1>2, <2>1, <2>2
  <1>5. ASSUME NEW c \in Charge, NEW pc \in {"insert", "generate"},
               request' = [request EXCEPT ![r] = [Waiting EXCEPT !.pc = pc, !.charge = c]]
        PROVE  request' \in [Request -> Creations] /\ Requested'
    <2> DEFINE x == [Waiting EXCEPT !.pc = pc, !.charge = c]
    <2>1. x \in Creations /\ x.pc = pc /\ x.charge = c  BY DEF Waiting, Creations
    <2>2. request' = [request EXCEPT ![r] = x]  BY <1>5
    <2> HIDE DEF x
    <2> QED  BY <1>2, <2>1, <2>2
  <1>6. ASSUME NEW v \in Vault, request[r].pc = "generate", Owner[v] = request[r].charge,
               request' = [request EXCEPT ![r].pc = "store", ![r].vault = v]
        PROVE  request' \in [Request -> Creations] /\ Requested'
    <2> DEFINE x == [request[r] EXCEPT !.pc = "store", !.vault = v]
    <2>1. x \in Creations /\ x.pc = "store" /\ x.vault = v /\ x.charge = request[r].charge
      BY <1>1 DEF Creations
    <2>2. request[r].charge \in Charge  BY <1>1, <1>6 DEF Requested
    <2>3. request' = [request EXCEPT ![r] = x]  BY <1>6
    <2> HIDE DEF x
    <2> QED  BY <1>2, <1>6, <2>1, <2>2, <2>3
  <1> QED  BY <1>3, <1>4, <1>5, <1>6

\* A row that is written: its vault stays one of its own.
LEMMA RowEffect ==
  ASSUME Shape, NEW c \in Charge, NEW x \in Rows, x.vault \in Vault => Owner[x.vault] = c,
         charge' = [charge EXCEPT ![c] = x]
  PROVE  /\ charge' \in [Charge -> Rows]
         /\ \A d \in Charge : charge'[d].vault \in Vault => Owner[charge'[d].vault] = d
  BY DEF Shape, TypeOK

LEMMA ShapeRequests ==
  ASSUME Shape, NEW r \in Request,
         Requests(r) \/ \E c \in Charge : create_charge(r, c) \/ api_sandbox_create_charge(r, c)
  PROVE  Shape'
  <1> USE DEF Shape
  <1>1. ASSUME NEW c \in Charge, charge[c].status = "none",
               charge' = [charge EXCEPT ![c].status = "pending"]
        PROVE  /\ charge' \in [Charge -> Rows]
               /\ \A d \in Charge : charge'[d].vault \in Vault => Owner[charge'[d].vault] = d
    <2>1. [charge[c] EXCEPT !.status = "pending"] \in Rows
          /\ [charge[c] EXCEPT !.status = "pending"].vault = charge[c].vault
      BY DEF TypeOK, Rows, Statuses
    <2>2. charge' = [charge EXCEPT ![c] = [charge[c] EXCEPT !.status = "pending"]]
      BY <1>1
    <2>3. charge[c].vault \in Vault => Owner[charge[c].vault] = c  BY DEF TypeOK
    <2> QED  BY <2>1, <2>2, <2>3, RowEffect
  <1>2. ASSUME NEW c \in Charge, create_charge(r, c) PROVE Shape'
    <2>1. request' \in [Request -> Creations] /\ Requested'
      BY <1>2, RequestEffect DEF create_charge
    <2> QED
      BY <1>2, <2>1 DEF create_charge, TypeOK, Grounded, Telling, database, watcher, ledger,
                        history, Paid, VaultOf
  <1>3. ASSUME NEW c \in Charge, api_sandbox_create_charge(r, c) PROVE Shape'
    <2>1. request' \in [Request -> Creations] /\ Requested'
      BY <1>3, RequestEffect DEF api_sandbox_create_charge
    <2>2. /\ charge' \in [Charge -> Rows]
          /\ \A d \in Charge : charge'[d].vault \in Vault => Owner[charge'[d].vault] = d
      BY <1>1, <1>3 DEF api_sandbox_create_charge, TypeOK
    <2> QED
      BY <1>3, <2>1, <2>2 DEF api_sandbox_create_charge, TypeOK, Grounded, Telling, watcher,
                              ledger, history, Paid, VaultOf, database
  <1>4. CASE insert_charge(r)
    <2>1. PICK c \in Charge : c = request[r].charge
      BY <1>4 DEF insert_charge, Requested
    <2>2. request' \in [Request -> Creations] /\ Requested'
      BY <1>4, RequestEffect DEF insert_charge
    <2>3. /\ charge' \in [Charge -> Rows]
          /\ \A d \in Charge : charge'[d].vault \in Vault => Owner[charge'[d].vault] = d
      BY <1>1, <1>4, <2>1 DEF insert_charge, TypeOK
    <2> QED
      BY <1>4, <2>2, <2>3 DEF insert_charge, TypeOK, Grounded, Telling, watcher, ledger,
                              history, Paid, VaultOf
  <1>5. CASE generate_fails(r)
    <2>1. request' \in [Request -> Creations] /\ Requested'
      BY <1>5, RequestEffect DEF generate_fails
    <2>2. faults' \in 0..MaxFaults
      BY <1>5, ChargeAssumption DEF generate_fails, TypeOK
    <2> QED
      BY <1>5, <2>1, <2>2 DEF generate_fails, TypeOK, Grounded, Telling, database, watcher,
                              ledger, Paid, VaultOf
  <1>6. CASE store_link(r)
    <2>1. PICK c \in Charge : c = request[r].charge
      BY <1>6 DEF store_link, Requested
    <2>2. PICK v \in Vault : v = request[r].vault /\ Owner[v] = c
      BY <1>6, <2>1 DEF store_link, Requested
    <2>3. request' \in [Request -> Creations] /\ Requested'
      BY <1>6, RequestEffect DEF store_link
    <2>4. /\ charge' \in [Charge -> Rows]
          /\ \A d \in Charge : charge'[d].vault \in Vault => Owner[charge'[d].vault] = d
      <3>1. CASE charge' = charge  BY <3>1 DEF TypeOK
      <3>2. CASE charge' = [charge EXCEPT ![c].vault = v]
        <4>1. [charge[c] EXCEPT !.vault = v] \in Rows
              /\ [charge[c] EXCEPT !.vault = v].vault = v
          BY DEF TypeOK, Rows
        <4>2. charge' = [charge EXCEPT ![c] = [charge[c] EXCEPT !.vault = v]]
          BY <3>2
        <4> QED  BY <2>2, <4>1, <4>2, RowEffect
      <3> QED  BY <1>6, <2>1, <2>2, <3>1, <3>2 DEF store_link
    <2>5. linked' \subseteq Vault  BY <1>6, <2>2 DEF store_link, TypeOK
    <2> QED
      BY <1>6, <2>3, <2>4, <2>5 DEF store_link, TypeOK, Grounded, Telling, watcher, history,
                                    Paid, VaultOf
  <1>7. ASSUME NEW v \in Vault, generate_platform_payment_request(r, v) PROVE Shape'
    <2>1. request' \in [Request -> Creations] /\ Requested'
      BY <1>7, RequestEffect DEF generate_platform_payment_request
    <2>2. watch' \in [Vault -> Watches]
      BY <1>7, WakeType DEF generate_platform_payment_request, TypeOK
    <2> QED
      BY <1>7, <2>1, <2>2 DEF generate_platform_payment_request, TypeOK, Grounded, Telling,
                              database, ledger, history, Paid, VaultOf
  <1> QED  BY <1>2, <1>3, <1>4, <1>5, <1>6, <1>7 DEF Requests

LEMMA ShapeRows ==
  ASSUME Shape,
         \/ Tick \/ _expire_stale_charges_inprocess \/ delete_platform
         \/ \E c \in Charge : api_public_checkout(c) \/ get_charge(c) \/ mark_expired(c)
  PROVE  Shape'
  <1> USE DEF Shape
  <1>1. CASE Tick
    <2>1. age' \in [Charge -> 0..2]  BY <1>1 DEF Tick, TypeOK
    <2>2. watch' \in [Vault -> Watches]
      <3>1. \A v \in Vault : [watch[v] EXCEPT !.is = "overdue"] \in Watches
        BY DEF TypeOK, Watches
      <3> QED  BY <1>1, <3>1 DEF Tick, TypeOK
    <2> QED
      BY <1>1, <2>1, <2>2 DEF Tick, TypeOK, Requested, Grounded, Telling, database, ledger,
                              history, Paid, VaultOf
  <1>2. ASSUME \A c \in Charge :
                 \/ charge'[c] = charge[c]
                 \/ charge'[c] = [charge[c] EXCEPT !.status = "expired"]
                 \/ charge'[c] = [NoRow EXCEPT !.status = "deleted"],
               DOMAIN charge' = Charge, charge' = [c \in Charge |-> charge'[c]]
        PROVE  /\ charge' \in [Charge -> Rows]
               /\ \A d \in Charge : charge'[d].vault \in Vault => Owner[charge'[d].vault] = d
    <2>1. \A c \in Charge : charge'[c] \in Rows /\ charge'[c].vault \in {charge[c].vault, NoVault}
      <3>1. TAKE c \in Charge
      <3>2. charge[c] \in Rows  BY DEF TypeOK
      <3>3. /\ [charge[c] EXCEPT !.status = "expired"] \in Rows
            /\ [charge[c] EXCEPT !.status = "expired"].vault = charge[c].vault
        BY <3>2 DEF Rows, Statuses
      <3>4. /\ [NoRow EXCEPT !.status = "deleted"] \in Rows
            /\ [NoRow EXCEPT !.status = "deleted"].vault = NoVault
        BY DEF NoRow, Rows, Statuses
      <3> QED  BY <1>2, <3>2, <3>3, <3>4
    <2> QED  BY <1>2, <2>1, ChargeAssumption DEF TypeOK
  <1>3. CASE _expire_stale_charges_inprocess
    <2>1. /\ charge' \in [Charge -> Rows]
          /\ \A d \in Charge : charge'[d].vault \in Vault => Owner[charge'[d].vault] = d
      BY <1>2, <1>3 DEF _expire_stale_charges_inprocess
    <2> QED
      BY <1>3, <2>1 DEF _expire_stale_charges_inprocess, TypeOK, Requested, Grounded, Telling,
                        watcher, ledger, history, Paid, VaultOf
  <1>4. CASE delete_platform
    <2>1. /\ charge' \in [Charge -> Rows]
          /\ \A d \in Charge : charge'[d].vault \in Vault => Owner[charge'[d].vault] = d
      BY <1>2, <1>4 DEF delete_platform
    <2> QED
      BY <1>4, <2>1 DEF delete_platform, TypeOK, Requested, Grounded, Telling, watcher,
                        ledger, history, Paid, VaultOf
  <1>5. ASSUME NEW c \in Charge, api_public_checkout(c) PROVE Shape'
    <2>1. charge[c].vault \in Vault
      BY <1>5 DEF api_public_checkout, TypeOK, Rows
    <2>2. watch' \in [Vault -> Watches]
      BY <1>5, <2>1, WakeType DEF api_public_checkout, TypeOK, NetOf
    <2> QED
      BY <1>5, <2>2 DEF api_public_checkout, TypeOK, Requested, Grounded, Telling, database,
                        ledger, history, Paid, VaultOf
  <1>6. ASSUME NEW c \in Charge, get_charge(c) PROVE Shape'
    BY <1>6 DEF get_charge, TypeOK, Requested, Grounded, Telling, database, watcher, ledger,
                history, Paid, VaultOf
  <1>7. ASSUME NEW c \in Charge, mark_expired(c) PROVE Shape'
    <2>1. \/ charge' = charge
          \/ charge' = [charge EXCEPT ![c] = [charge[c] EXCEPT !.status = "expired"]]
      BY <1>7 DEF mark_expired
    <2>2. /\ charge' \in [Charge -> Rows]
          /\ \A d \in Charge : charge'[d].vault \in Vault => Owner[charge'[d].vault] = d
      <3>1. charge \in [Charge -> Rows]  BY DEF TypeOK
      <3>2. [charge[c] EXCEPT !.status = "expired"] \in Rows
            /\ [charge[c] EXCEPT !.status = "expired"].vault = charge[c].vault
        BY <3>1 DEF Rows, Statuses
      <3>3. charge[c].vault \in Vault => Owner[charge[c].vault] = c  BY DEF TypeOK
      <3>4. CASE charge' = charge  BY <3>4 DEF TypeOK
      <3>5. CASE charge' = [charge EXCEPT ![c] = [charge[c] EXCEPT !.status = "expired"]]
        BY <3>2, <3>3, <3>5, RowEffect
      <3> QED  BY <2>1, <3>4, <3>5
    <2> QED
      BY <1>7, <2>2 DEF mark_expired, TypeOK, Requested, Grounded, Telling, watcher, ledger,
                        history, Paid, VaultOf
  <1> QED  BY <1>1, <1>3, <1>4, <1>5, <1>6, <1>7

LEMMA PayEffect ==
  ASSUME Shape, NEW t \in Tx, NEW v \in Vault, NEW a \in Amount[t], Pay(t, v, a)
  PROVE  /\ chain' \in [Tx -> Transactions]
         /\ ~Paid(t) /\ Paid(t)' /\ VaultOf(t)' = v
         /\ \A u \in Tx : u # t => chain'[u] = chain[u]
  <1>1. a \in Nat /\ a > 0  BY ChargeAssumption
  <1>2. chain' = [chain EXCEPT ![t] = [vault |-> v, value |-> a]] /\ chain \in [Tx -> Transactions]
    BY DEF Pay, Shape, TypeOK
  <1>3. [vault |-> v, value |-> a] \in Transactions  BY <1>1 DEF Transactions
  <1>4. ~Paid(t)  BY DEF Pay
  <1> QED  BY <1>1, <1>2, <1>3, <1>4 DEF Paid, VaultOf

LEMMA ShapePay ==
  ASSUME Shape, NEW t \in Tx, NEW v \in Vault, NEW a \in Amount[t], Pay(t, v, a)
  PROVE  Shape'
  <1> USE DEF Shape
  <1>1. chain' \in [Tx -> Transactions]  BY PayEffect
  <1>2. \A u \in Tx : Paid(u) => Paid(u)'
    BY PayEffect DEF Paid
  <1>3. Grounded'
    BY PayEffect DEF Grounded, Paid, VaultOf
  <1> QED
    BY <1>1, <1>2, <1>3 DEF Pay, TypeOK, Requested, Telling, database, watcher, history

LEMMA ShapeLooking ==
  ASSUME Shape,
         \/ \E t \in Tx : \/ poll_vaults_inprocess(t)
                          \/ \E j \in Rechecker : \/ api_public_checkout_recheck(j, t)
                                                  \/ api_developer_charge_recheck(j, t)
         \/ \E v \in Vault : evict(v)
  PROVE  Shape'
  <1> USE DEF Shape
  <1>1. ASSUME NEW t \in Tx, poll_vaults_inprocess(t) PROVE Shape'
    <2>1. job' \in [Job -> Jobs]
      BY <1>1, StartEffect DEF poll_vaults_inprocess, TypeOK, Job
    <2>2. seen' \subseteq Tx  BY <1>1 DEF poll_vaults_inprocess, TypeOK
    <2> QED
      BY <1>1, <2>1, <2>2 DEF poll_vaults_inprocess, TypeOK, Requested, Grounded, Telling,
                              database, ledger, history, Paid, VaultOf
  <1>2. ASSUME NEW t \in Tx, NEW j \in Rechecker, api_public_checkout_recheck(j, t)
        PROVE  Shape'
    <2>1. job' \in [Job -> Jobs]
      BY <1>2, StartEffect DEF api_public_checkout_recheck, TypeOK, Job
    <2>2. VaultOf(t) \in Vault
      BY <1>2 DEF api_public_checkout_recheck, Recheckable, Grounded
    <2>3. watch' \in [Vault -> Watches]
      BY <1>2, <2>2, WakeType DEF api_public_checkout_recheck, NetOf, TypeOK
    <2> QED
      BY <1>2, <2>1, <2>3 DEF api_public_checkout_recheck, TypeOK, Requested, Grounded,
                              Telling, database, ledger, history, Paid, VaultOf
  <1>3. ASSUME NEW t \in Tx, NEW j \in Rechecker, api_developer_charge_recheck(j, t)
        PROVE  Shape'
    <2>1. job' \in [Job -> Jobs]
      BY <1>3, StartEffect DEF api_developer_charge_recheck, TypeOK, Job
    <2> QED
      BY <1>3, <2>1 DEF api_developer_charge_recheck, TypeOK, Requested, Grounded, Telling,
                        database, watcher, ledger, history, Paid, VaultOf
  <1>4. ASSUME NEW v \in Vault, evict(v) PROVE Shape'
    <2>1. watch' \in [Vault -> Watches] /\ seen' \subseteq Tx
      BY <1>4 DEF evict, TypeOK, NotWatched, Watches
    <2> QED
      BY <1>4, <2>1 DEF evict, TypeOK, Requested, Grounded, Telling, database, ledger,
                        history, Paid, VaultOf
  <1> QED  BY <1>1, <1>2, <1>3, <1>4

\* What a completion writes: the row of the job's charge, and the webhook's task.
LEMMA CompleteEffect ==
  ASSUME IInv, NEW j \in Job, complete(j), NEW t \in Tx, t = job[j].tx
  PROVE  /\ Paid(t) /\ Covers(t) /\ VaultOf(t) \in Vault /\ job[j].charge = Owner[VaultOf(t)]
         /\ charge' \in [Charge -> Rows]
         /\ \A d \in Charge : charge'[d].vault = charge[d].vault
         /\ \A d \in Charge : \/ charge'[d] = charge[d]
                              \/ d = Owner[VaultOf(t)] /\ charge'[d].tx = t
                                 /\ charge'[d].status = "completed"
         /\ completed' = [completed EXCEPT ![t] = completed[t] + 1]
         /\ completed' \in [Tx -> Nat]
  <1> USE DEF IInv, Shape
  <1>1. Paid(t) /\ Covers(t) /\ VaultOf(t) \in Vault /\ job[j].charge = Owner[VaultOf(t)]
    BY DEF complete, at, Working, InOrder, Grounded
  <1>2. PICK c \in Charge : c = job[j].charge  BY <1>1, ChargeAssumption
  <1>3. [charge[c] EXCEPT !.status = "completed", !.tx = t] \in Rows
    <2>1. charge[c] \in Rows  BY DEF TypeOK
    <2> QED  BY ONLY <2>1, t \in Tx DEF Rows, Statuses
  <1>4. \/ charge' = charge
        \/ charge' = [charge EXCEPT ![c] = [charge[c] EXCEPT !.status = "completed", !.tx = t]]
    BY <1>2 DEF complete
  <1>5. charge \in [Charge -> Rows] /\ completed \in [Tx -> Nat]  BY DEF TypeOK
  <1>6. completed' = [completed EXCEPT ![t] = completed[t] + 1]  BY DEF complete
  <1>7. CASE charge' = charge
    BY <1>1, <1>5, <1>6, <1>7
  <1>8. CASE charge' = [charge EXCEPT ![c] = [charge[c] EXCEPT !.status = "completed", !.tx = t]]
    <2>1. charge'[c].vault = charge[c].vault /\ charge'[c].tx = t
          /\ charge'[c].status = "completed"
      BY <1>5, <1>8 DEF Rows
    <2>2. charge' \in [Charge -> Rows] /\ \A d \in Charge : d # c => charge'[d] = charge[d]
      BY ONLY <1>3, <1>5, <1>8
    <2>3. completed' \in [Tx -> Nat]  BY <1>5, <1>6
    <2>4. c = Owner[VaultOf(t)]  BY <1>1, <1>2
    <2> QED  BY ONLY <1>1, <1>6, <2>1, <2>2, <2>3, <2>4
  <1> QED  BY <1>4, <1>7, <1>8

LEMMA ShapeJob ==
  ASSUME IInv, NEW j \in Job, JobStep(j)
  PROVE  Shape'
  <1> USE DEF IInv, Shape
  <1>0. PICK t \in Tx : t = job[j].tx /\ Paid(t) /\ VaultOf(t) \in Vault
    BY DEF JobStep, precheck, load, partial, claim, complete, at, Working, InOrder, Grounded
  <1>a. running
    BY DEF JobStep, precheck, load, partial, claim, complete, at, TypeOK, Idle
  <1>1. CASE precheck(j)
    <2>1. job' \in [Job -> Jobs]
      BY <1>1, GotoEffect, DoneEffect DEF precheck, TypeOK
    <2> QED
      BY <1>1, <1>a, <2>1 DEF precheck, TypeOK, Requested, Grounded, Telling, database, watcher,
                        ledger, history, Paid, VaultOf
  <1>2. CASE load(j)
    <2>1. job' \in [Job -> Jobs]  BY <1>2, LoadEffect
    <2> QED
      BY <1>2, <1>a, <2>1 DEF load, TypeOK, Requested, Grounded, Telling, database, watcher,
                        ledger, history, Paid, VaultOf
  <1>3. CASE partial(j)
    <2>1. job' \in [Job -> Jobs]  BY <1>3, DoneEffect DEF partial, TypeOK
    <2>2. processed' \in [Tx -> {"none", "partial", "full"}]
      BY <1>0, <1>3, MarkType DEF partial, TypeOK
    <2> QED
      BY <1>3, <1>a, <2>1, <2>2 DEF partial, TypeOK, Requested, Grounded, Telling, watcher,
                              ledger, history, Paid, VaultOf
  <1>4. CASE claim(j)
    <2>1. job' \in [Job -> Jobs]
      BY <1>4, GotoEffect, DoneEffect DEF claim, TypeOK
    <2>2. processed' \in [Tx -> {"none", "partial", "full"}]
      BY <1>0, <1>4, MarkType DEF claim, TypeOK
    <2> QED
      BY <1>4, <1>a, <2>1, <2>2 DEF claim, TypeOK, Requested, Grounded, Telling, watcher,
                              ledger, history, Paid, VaultOf
  <1>5. CASE complete(j)
    <2>1. job' \in [Job -> Jobs]  BY <1>5, DoneEffect DEF complete, TypeOK
    <2>2. watch' \in [Vault -> Watches]
      BY <1>0, <1>5, WakeType DEF complete, TypeOK
    <2>3. hook' \in [Tx -> Hooks] /\ Telling'
      <3>1. [NoHook EXCEPT !.pc = "dispatch"] \in Hooks
            /\ [NoHook EXCEPT !.pc = "dispatch"].pc = "dispatch"
        BY ChargeAssumption DEF NoHook, Hooks, Statuses
      <3>2. hook' = [hook EXCEPT ![t] = [NoHook EXCEPT !.pc = "dispatch"]] /\ chain' = chain
        BY <1>0, <1>5 DEF complete, ledger
      <3> QED  BY <1>0, <3>1, <3>2 DEF TypeOK, Telling, Paid
    <2>4. charge' \in [Charge -> Rows] /\ completed' \in [Tx -> Nat]
          /\ \A d \in Charge : charge'[d].vault = charge[d].vault
      BY <1>0, <1>5, CompleteEffect
    <2> QED
      BY <1>5, <1>a, <2>1, <2>2, <2>3, <2>4 DEF complete, TypeOK, Requested, Grounded, ledger,
                                          Paid, VaultOf
  <1> QED  BY <1>1, <1>2, <1>3, <1>4, <1>5 DEF JobStep

LEMMA ShapeHook ==
  ASSUME Shape, NEW t \in Tx, Delivery(t)
  PROVE  Shape'
  <1> USE DEF Shape
  <1>1. Over \in Hooks /\ Over.pc = "over"
    BY ChargeAssumption DEF Over, NoHook, Hooks, Statuses
  <1>2. ASSUME NEW x \in Hooks, hook' = [hook EXCEPT ![t] = x], x.pc # "dispatch",
               x.pc = "deliver" => x.attempt < MAX_ATTEMPTS,
               UNCHANGED <<database, age, request, lapsing, running, watcher, job, ledger,
                           history>>
        PROVE  Shape'
    <2>1. hook' \in [Tx -> Hooks] /\ Telling'
      BY <1>2 DEF TypeOK, Telling, Paid, ledger
    <2> QED
      BY <1>2, <2>1 DEF TypeOK, Requested, Grounded, database, watcher, ledger, history,
                        Paid, VaultOf
  <1>3. CASE dispatch_webhook(t)
    <2>1. PICK c \in Charge : c = Owner[VaultOf(t)]
      BY <1>3, ChargeAssumption DEF dispatch_webhook, Telling, Grounded
    <2> DEFINE x == [pc |-> "deliver", attempt |-> 0, says |-> charge[c].status]
    <2>2. x \in Hooks /\ x.pc = "deliver" /\ x.attempt < MAX_ATTEMPTS
      BY ChargeAssumption DEF Hooks, TypeOK, Rows
    <2>3. hook' = [hook EXCEPT ![t] = x] \/ hook' = [hook EXCEPT ![t] = Over]
      BY <1>3, <2>1 DEF dispatch_webhook
    <2> HIDE DEF x
    <2> QED  BY <1>1, <1>2, <1>3, <2>2, <2>3 DEF dispatch_webhook
  <1>4. CASE _deliver_once(t)
    <2>1. hook[t] \in Hooks /\ hook[t].pc = "deliver" /\ hook[t].attempt < MAX_ATTEMPTS
      BY <1>4 DEF _deliver_once, TypeOK, Telling
    <2>2. PICK x : x = [hook[t] EXCEPT !.attempt = hook[t].attempt + 1]  OBVIOUS
    <2>3. hook[t].attempt + 1 # MAX_ATTEMPTS =>
            x \in Hooks /\ x.pc = "deliver" /\ x.attempt < MAX_ATTEMPTS
      BY <2>1, <2>2, ChargeAssumption DEF Hooks
    <2>4. retry(t) = IF hook[t].attempt + 1 = MAX_ATTEMPTS THEN Over ELSE x
      BY <2>2 DEF retry
    <2>5. hook' = [hook EXCEPT ![t] = Over] \/ hook' = [hook EXCEPT ![t] = retry(t)]
      BY <1>4 DEF _deliver_once
    <2> QED  BY <1>1, <1>2, <1>4, <2>3, <2>4, <2>5 DEF _deliver_once
  <1> QED  BY <1>3, <1>4 DEF Delivery

LEMMA ShapeProcess == Shape /\ (stop \/ start) => Shape'
  <1> SUFFICES ASSUME Shape, stop \/ start PROVE Shape'  OBVIOUS
  <1> USE DEF Shape
  <1>1. NotWatched \in Watches /\ Idle \in Jobs /\ Waiting \in Creations /\ Waiting.pc = "idle"
        /\ Over \in Hooks /\ Over.pc = "over"
    BY ChargeAssumption
    DEF NotWatched, Watches, Idle, Jobs, Waiting, Creations, Over, NoHook, Hooks, Statuses
  <1>2. CASE stop
    <2>1. request' \in [Request -> Creations] /\ Requested'
      BY <1>1, <1>2 DEF stop, Requested
    <2>2. watch' \in [Vault -> Watches] /\ job' \in [Job -> Jobs]
      BY <1>1, <1>2 DEF stop
    <2>3. hook' \in [Tx -> Hooks] /\ Telling'
      BY <1>1, <1>2 DEF stop, TypeOK, Telling
    <2>4. faults' \in 0..MaxFaults  BY <1>2, ChargeAssumption DEF stop, TypeOK
    <2> QED
      BY <1>2, <2>1, <2>2, <2>3, <2>4 DEF stop, TypeOK, Grounded, database, ledger, Paid,
                                          VaultOf
  <1>3. CASE start
    <2>1. watch' \in [Vault -> Watches]
      BY <1>3 DEF start, NotWatched, Watches, NetOf
    <2> QED
      BY <1>3, <2>1 DEF start, TypeOK, Requested, Grounded, Telling, database, ledger,
                        history, Paid, VaultOf
  <1> QED  BY <1>2, <1>3

-----------------------------------------------------------------------------
(* Steps that claim nothing, pay nothing and complete nothing.             *)

Quiet ==
    /\ UNCHANGED <<chain, processed, completed>>
    /\ faults > 0 => faults' > 0
    /\ \A c \in Charge :
         \/ /\ charge'[c].tx = charge[c].tx
            /\ charge'[c].status = "completed" => charge[c].status = "completed"
         \/ charge'[c].tx = NoTx /\ charge'[c].status = "deleted"
    /\ \A j \in Job :
         \/ job'[j] = job[j]
         \/ /\ InOrder(job'[j]) /\ job'[j].pc # "complete"
            /\ job[j].pc = "complete" => faults' > 0

LEMMA QuietKeeps == IInv /\ Shape' /\ Quiet => IInv'
  <1> SUFFICES ASSUME IInv, Shape', Quiet PROVE IInv'  OBVIOUS
  <1>1. chain' = chain /\ processed' = processed /\ completed' = completed  BY DEF Quiet
  <1>2. \A j \in Job : job'[j] = job[j] \/ (InOrder(job'[j]) /\ job'[j].pc # "complete")
    BY DEF Quiet
  <1>3. Working'
    BY <1>1, <1>2 DEF IInv, Working, InOrder, Paid, VaultOf, Covers
  <1>4. Claims'
    BY <1>1, <1>2 DEF IInv, Claims, at
  <1>5. RowsPaid'
    BY <1>1 DEF IInv, RowsPaid, Paid, Quiet
  <1>6. PaidByItsTx'
    <2> SUFFICES ASSUME NEW c \in Charge, NEW t, charge'[c].tx = t
                 PROVE  /\ charge'[c].status = "completed" => t # NoTx
                        /\ t # NoTx => Settles(t, c)'
      BY DEF PaidByItsTx, Settles
    <2>1. \/ /\ charge[c].tx = t
             /\ charge'[c].status = "completed" => charge[c].status = "completed"
          \/ t = NoTx /\ charge'[c].status = "deleted"
      BY DEF Quiet
    <2>2. /\ charge[c].status = "completed" => charge[c].tx # NoTx
          /\ charge[c].tx = t /\ t # NoTx => Settles(t, c)
      BY DEF IInv, PaidByItsTx, Settles
    <2>3. Settles(t, c) => Settles(t, c)'
      BY <1>1 DEF Settles, VaultOf, Covers
    <2> QED  BY <2>1, <2>2, <2>3
  <1>7. ClaimedIsCompleted'
    BY <1>1 DEF IInv, ClaimedIsCompleted, Quiet, at
  <1> QED  BY <1>3, <1>4, <1>5, <1>6, <1>7 DEF IInv

LEMMA IdleInOrder == InOrder(Idle) /\ Idle.pc = "idle"
  BY DEF InOrder, Idle

LEMMA QuietRequests ==
  ASSUME IInv, NEW r \in Request,
         Requests(r) \/ \E c \in Charge : create_charge(r, c) \/ api_sandbox_create_charge(r, c)
  PROVE  Quiet
  <1> USE DEF IInv, Shape
  <1>1. ASSUME NEW c, c \in Charge => charge[c].status # "completed",
               charge' = [charge EXCEPT ![c].status = "pending"]
        PROVE  \A d \in Charge : charge'[d].tx = charge[d].tx
                                 /\ (charge'[d].status = "completed" => charge[d].status = "completed")
    BY <1>1 DEF TypeOK, Rows
  <1>2. ASSUME NEW c \in Charge, NEW v, charge' = [charge EXCEPT ![c].vault = v]
        PROVE  \A d \in Charge : charge'[d].tx = charge[d].tx
                                 /\ (charge'[d].status = "completed" => charge[d].status = "completed")
    BY <1>2 DEF TypeOK, Rows
  <1>3. CASE insert_charge(r)
    BY <1>1, <1>3 DEF insert_charge, Quiet, ledger, history
  <1>4. CASE generate_fails(r)
    BY <1>4 DEF generate_fails, Quiet, ledger, database, TypeOK
  <1>5. CASE store_link(r)
    <2>1. request[r].charge \in Charge  BY <1>5 DEF store_link, Requested
    <2> QED  BY <1>2, <1>5, <2>1 DEF store_link, Quiet, history
  <1>6. ASSUME NEW v \in Vault, generate_platform_payment_request(r, v) PROVE Quiet
    BY <1>6 DEF generate_platform_payment_request, Quiet, ledger, database, history
  <1>7. ASSUME NEW c \in Charge, create_charge(r, c) PROVE Quiet
    BY <1>7 DEF create_charge, Quiet, ledger, database, history
  <1>8. ASSUME NEW c \in Charge, api_sandbox_create_charge(r, c) PROVE Quiet
    BY <1>1, <1>8 DEF api_sandbox_create_charge, Quiet, ledger, history
  <1> QED  BY <1>3, <1>4, <1>5, <1>6, <1>7, <1>8 DEF Requests

LEMMA QuietRows ==
  ASSUME IInv,
         \/ Tick \/ _expire_stale_charges_inprocess \/ delete_platform
         \/ \E c \in Charge : api_public_checkout(c) \/ get_charge(c) \/ mark_expired(c)
  PROVE  Quiet
  <1>1. \A c \in Charge : charge[c] \in Rows  BY DEF IInv, Shape, TypeOK
  <1>2. CASE Tick
    BY <1>2 DEF Tick, Quiet, database, ledger, history
  <1>3. CASE _expire_stale_charges_inprocess
    BY <1>1, <1>3 DEF _expire_stale_charges_inprocess, Quiet, ledger, history, Rows
  <1>4. CASE delete_platform
    BY <1>4 DEF delete_platform, Quiet, ledger, history, NoRow
  <1>5. ASSUME NEW c \in Charge, api_public_checkout(c) PROVE Quiet
    BY <1>5 DEF api_public_checkout, Quiet, database, ledger, history
  <1>6. ASSUME NEW c \in Charge, get_charge(c) PROVE Quiet
    BY <1>6 DEF get_charge, Quiet, database, ledger, history
  <1>7. ASSUME NEW c \in Charge, mark_expired(c) PROVE Quiet
    <2>1. charge' = charge \/ charge' = [charge EXCEPT ![c] = [charge[c] EXCEPT !.status = "expired"]]
      BY <1>7 DEF mark_expired
    <2>2. \A d \in Charge : charge'[d].tx = charge[d].tx
            /\ (charge'[d].status = "completed" => charge[d].status = "completed")
      BY <1>1, <2>1 DEF Rows, IInv, Shape, TypeOK
    <2> QED  BY <1>7, <2>2 DEF mark_expired, Quiet, ledger, history
  <1> QED  BY <1>2, <1>3, <1>4, <1>5, <1>6, <1>7

LEMMA QuietLooking ==
  ASSUME IInv,
         \/ \E t \in Tx : \/ poll_vaults_inprocess(t)
                          \/ \E j \in Rechecker : \/ api_public_checkout_recheck(j, t)
                                                  \/ api_developer_charge_recheck(j, t)
         \/ \E v \in Vault : evict(v)
  PROVE  Quiet
  <1>1. ASSUME NEW j \in Job, NEW t \in Tx, NEW by \in {"watcher", "buyer", "owner"},
               Start(j, by, t), Paid(t)
        PROVE  \A i \in Job :
                 \/ job'[i] = job[i]
                 \/ InOrder(job'[i]) /\ job'[i].pc # "complete" /\ job[i].pc # "complete"
    BY <1>1, StartEffect DEF IInv, Shape, TypeOK, InOrder
  <1>2. ASSUME NEW t \in Tx, poll_vaults_inprocess(t) PROVE Quiet
    BY <1>1, <1>2 DEF poll_vaults_inprocess, Quiet, database, ledger, history, Job
  <1>3. ASSUME NEW t \in Tx, NEW j \in Rechecker, api_public_checkout_recheck(j, t)
        PROVE  Quiet
    BY <1>1, <1>3 DEF api_public_checkout_recheck, Recheckable, Quiet, database, ledger,
                      history, Job
  <1>4. ASSUME NEW t \in Tx, NEW j \in Rechecker, api_developer_charge_recheck(j, t)
        PROVE  Quiet
    BY <1>1, <1>4 DEF api_developer_charge_recheck, Recheckable, Quiet, database, ledger,
                      history, Job
  <1>5. ASSUME NEW v \in Vault, evict(v) PROVE Quiet
    BY <1>5 DEF evict, Quiet, database, ledger, history
  <1> QED  BY <1>2, <1>3, <1>4, <1>5

LEMMA QuietOthers ==
  ASSUME IInv, stop \/ start \/ \E t \in Tx : Delivery(t)
  PROVE  Quiet
  <1>1. CASE stop
    <2>1. faults' > 0 /\ \A j \in Job : job'[j] = Idle
      BY <1>1 DEF stop, IInv, Shape, TypeOK
    <2> QED  BY <1>1, <2>1, IdleInOrder DEF stop, Quiet, database, ledger
  <1>2. CASE start
    BY <1>2 DEF start, Quiet, database, ledger, history
  <1>3. ASSUME NEW t \in Tx, Delivery(t) PROVE Quiet
    BY <1>3 DEF Delivery, dispatch_webhook, _deliver_once, Quiet, database, ledger, history
  <1> QED  BY <1>1, <1>2, <1>3

LEMMA QuietJob ==
  ASSUME IInv, NEW j \in Job, precheck(j) \/ load(j)
  PROVE  Quiet
  <1>1. job \in [Job -> Jobs] /\ InOrder(job[j]) /\ job[j].pc \in {"precheck", "load"}
    BY DEF precheck, load, at, IInv, Shape, TypeOK, Working
  <1>2. CASE precheck(j)
    <2>1. \A i \in Job : i # j => job'[i] = job[i]
      BY <1>1, <1>2, GotoEffect, DoneEffect DEF precheck
    <2>2. CASE Done(j)
      <3>1. job'[j] = Idle  BY <1>1, <2>2, DoneEffect
      <3> QED  BY <1>1, <1>2, <2>1, <3>1, IdleInOrder DEF precheck, Quiet, database, ledger,
                                                         history
    <2>3. CASE Goto(j, "load")
      <3>1. job'[j].pc = "load" /\ job'[j].tx = job[j].tx  BY <1>1, <2>3, GotoEffect
      <3>2. InOrder(job'[j])  BY <1>1, <3>1 DEF InOrder
      <3> QED  BY <1>1, <1>2, <2>1, <3>1, <3>2 DEF precheck, Quiet, database, ledger, history
    <2> QED  BY <1>2, <2>2, <2>3 DEF precheck
  <1>3. CASE load(j)
    <2>1. InOrder(job'[j]) /\ job'[j].pc # "complete"
      BY <1>1, <1>3, LoadEffect DEF InOrder
    <2>2. \A i \in Job : i # j => job'[i] = job[i]
      BY <1>3, LoadEffect
    <2> QED  BY <1>1, <1>3, <2>1, <2>2 DEF load, Quiet, database, ledger, history
  <1> QED  BY <1>2, <1>3

-----------------------------------------------------------------------------
(* A payment, a record, a claim and a completion.                          *)

LEMMA PayKeeps ==
  ASSUME IInv, NEW t \in Tx, NEW v \in Vault, NEW a \in Amount[t], Pay(t, v, a)
  PROVE  IInv'
  <1>1. Shape'  BY ShapePay DEF IInv
  <1>2. ~Paid(t) /\ Paid(t)' /\ \A u \in Tx : u # t => chain'[u] = chain[u]
    BY PayEffect DEF IInv
  <1>3. UNCHANGED <<charge, processed, job, faults, completed>>
    BY DEF Pay, database, history
  <1>4. \A u \in Tx : Paid(u) => chain'[u] = chain[u]
    BY <1>2
  <1>5. Working'
    BY <1>3, <1>4 DEF IInv, Working, InOrder, Paid, VaultOf, Covers
  <1>6. Claims'
    BY <1>3 DEF IInv, Claims, at
  <1>7. RowsPaid'
    BY <1>3, <1>4 DEF IInv, Shape, TypeOK, Rows, RowsPaid, Paid
  <1>8. PaidByItsTx'
    <2> SUFFICES ASSUME NEW c \in Charge, NEW u, charge[c].tx = u
                 PROVE  /\ charge[c].status = "completed" => u # NoTx
                        /\ u # NoTx => Settles(u, c)'
      BY <1>3 DEF PaidByItsTx, Settles
    <2>1. u # NoTx => u \in Tx /\ Paid(u) /\ Settles(u, c)
      BY DEF IInv, Shape, TypeOK, Rows, RowsPaid, PaidByItsTx, Settles
    <2>2. u # NoTx => chain'[u] = chain[u]  BY <1>4, <2>1
    <2> QED  BY <1>3, <2>1, <2>2 DEF IInv, PaidByItsTx, Settles, VaultOf, Covers
  <1>9. ClaimedIsCompleted'
    BY <1>3 DEF IInv, ClaimedIsCompleted, at
  <1> QED  BY <1>1, <1>5, <1>6, <1>7, <1>8, <1>9 DEF IInv

\* What a change of the records and the jobs alone leaves as it is.
LEMMA RecordKeeps ==
  ASSUME IInv, UNCHANGED <<charge, chain>>,
         \A t \in Tx : processed[t] = "full" => processed'[t] = "full",
         \A j \in Job : job'[j] = job[j] \/ InOrder(job'[j])
  PROVE  Working' /\ RowsPaid' /\ PaidByItsTx'
  <1>1. Working'
    BY DEF IInv, Working, InOrder, Paid, VaultOf, Covers
  <1>2. RowsPaid'
    BY DEF IInv, RowsPaid, Paid
  <1>3. PaidByItsTx'
    <2> SUFFICES ASSUME NEW c \in Charge, NEW t, charge[c].tx = t
                 PROVE  /\ charge[c].status = "completed" => t # NoTx
                        /\ t # NoTx => Settles(t, c)'
      BY DEF PaidByItsTx, Settles
    <2>1. t # NoTx => t \in Tx /\ Settles(t, c)
      BY DEF IInv, Shape, TypeOK, Rows, PaidByItsTx, Settles
    <2> QED  BY <2>1 DEF IInv, PaidByItsTx, Settles, VaultOf, Covers
  <1> QED  BY <1>1, <1>2, <1>3

LEMMA PartialKeeps ==
  ASSUME IInv, NEW j \in Job, partial(j)
  PROVE  IInv'
  <1>1. Shape'  BY ShapeJob DEF JobStep
  <1>2. PICK t \in Tx : t = job[j].tx
    BY DEF partial, at, IInv, Working, InOrder
  <1>3. /\ \A u \in Tx : processed'[u] = "full" <=> processed[u] = "full"
        /\ UNCHANGED <<charge, chain, completed, faults>>
    BY <1>2, MarkType DEF partial, IInv, Shape, TypeOK, ledger, history
  <1>4. /\ job'[j] = Idle /\ job[j].pc = "partial"
        /\ \A i \in Job : i # j => job'[i] = job[i]
    BY DoneEffect DEF partial, at, IInv, Shape, TypeOK
  <1>5. Working' /\ RowsPaid' /\ PaidByItsTx'
    BY <1>3, <1>4, IdleInOrder, RecordKeeps
  <1>6. Claims'
    <2>1. \A i \in Job : at(i, "complete")' => at(i, "complete") /\ job'[i] = job[i]
                                               /\ job[i].tx \in Tx
      BY <1>4, IdleInOrder DEF at, IInv, Working, InOrder
    <2> QED  BY <1>3, <2>1 DEF IInv, Claims, at
  <1>7. ClaimedIsCompleted'
    BY <1>3, <1>4 DEF IInv, ClaimedIsCompleted, at
  <1> QED  BY <1>1, <1>5, <1>6, <1>7 DEF IInv

LEMMA ClaimKeeps ==
  ASSUME IInv, NEW j \in Job, claim(j)
  PROVE  IInv'
  <1>1. Shape'  BY ShapeJob DEF JobStep
  <1>2. PICK t \in Tx : t = job[j].tx
    BY DEF claim, at, IInv, Working, InOrder
  <1>3. /\ \A u \in Tx : processed[u] = "full" => processed'[u] = "full"
        /\ \A u \in Tx : u # t => processed'[u] = processed[u]
        /\ processed'[t] = "full" <=> processed[t] \in {"none", "full"}
        /\ UNCHANGED <<charge, chain, completed, faults>>
    BY <1>2, MarkType DEF claim, IInv, Shape, TypeOK, ledger, history
  <1>4. job \in [Job -> Jobs] /\ job[j].pc = "claim" /\ InOrder(job[j])
    BY DEF claim, at, IInv, Shape, TypeOK, Working
  <1>5. \A i \in Job : i # j => job'[i] = job[i]
    BY <1>4, GotoEffect, DoneEffect DEF claim
  <1>6. \A u \in Tx : completed[u] <= IF processed'[u] = "full" THEN 1 ELSE 0
    BY <1>3 DEF IInv, Claims, Shape, TypeOK
  <1>7. CASE processed[t] # "none"
    <2>1. job'[j] = Idle  BY <1>2, <1>4, <1>7, DoneEffect DEF claim
    <2>2. Working' /\ RowsPaid' /\ PaidByItsTx'
      BY <1>3, <1>5, <2>1, IdleInOrder, RecordKeeps
    <2>3. \A i \in Job : at(i, "complete")' => at(i, "complete") /\ job'[i] = job[i]
                                               /\ job[i].tx \in Tx
      BY <1>5, <2>1, IdleInOrder DEF at, IInv, Working, InOrder
    <2>4. Claims'
      BY <1>3, <1>6, <2>3 DEF IInv, Claims, at
    <2>5. ClaimedIsCompleted'
      BY <1>3, <1>4, <1>5, <1>7 DEF IInv, ClaimedIsCompleted, at
    <2> QED  BY <1>1, <2>2, <2>4, <2>5 DEF IInv
  <1>8. CASE processed[t] = "none"
    <2>1. Goto(j, "complete")  BY <1>2, <1>8 DEF claim
    <2>2. job'[j].tx = t /\ job'[j].charge = job[j].charge
          /\ job'[j].pc = "complete"
      BY <1>2, <1>4, <2>1, GotoEffect DEF Goto, Jobs
    <2>3. InOrder(job'[j])
      BY <1>2, <1>4, <2>2 DEF InOrder
    <2>4. Working' /\ RowsPaid' /\ PaidByItsTx'
      BY <1>3, <1>5, <2>3, RecordKeeps
    <2>5. \A i \in Job : i # j /\ at(i, "complete")' =>
            at(i, "complete") /\ job'[i].tx = job[i].tx /\ job[i].tx \in Tx /\ job[i].tx # t
      BY <1>5, <1>8 DEF at, IInv, Working, InOrder, Claims
    <2>6. completed[t] = 0  BY <1>8 DEF IInv, Claims, Shape, TypeOK
    <2>7. Claims'
      BY <1>3, <1>6, <1>8, <2>2, <2>5, <2>6 DEF IInv, Claims, at
    <2>8. ClaimedIsCompleted'
      BY <1>3, <1>4, <1>5, <2>2 DEF IInv, ClaimedIsCompleted, at
    <2> QED  BY <1>1, <2>4, <2>7, <2>8 DEF IInv
  <1> QED  BY <1>7, <1>8

LEMMA CompleteKeeps ==
  ASSUME IInv, NEW j \in Job, complete(j)
  PROVE  IInv'
  <1>1. Shape'  BY ShapeJob DEF JobStep
  <1>2. PICK t \in Tx : t = job[j].tx
    BY DEF complete, at, IInv, Working, InOrder
  <1>3. /\ Paid(t) /\ Covers(t) /\ processed[t] = "full" /\ completed[t] = 0
        /\ UNCHANGED <<processed, chain, faults>>
        /\ job[j].pc = "complete"
    BY <1>2, CompleteEffect DEF complete, at, IInv, Claims, ledger
  <1>4. \A d \in Charge : \/ charge'[d] = charge[d]
                          \/ d = Owner[VaultOf(t)] /\ charge'[d].tx = t
                             /\ charge'[d].status = "completed"
    BY <1>2, CompleteEffect
  <1>5. completed'[t] = 1 /\ \A u \in Tx : u # t => completed'[u] = completed[u]
    BY <1>2, <1>3, CompleteEffect DEF IInv, Shape, TypeOK
  <1>6. job'[j] = Idle /\ \A i \in Job : i # j => job'[i] = job[i]
    BY DoneEffect DEF complete, IInv, Shape, TypeOK
  <1>7. Working'
    BY <1>3, <1>6, IdleInOrder DEF IInv, Working, InOrder, Paid, VaultOf, Covers
  <1>8. RowsPaid'
    BY <1>3, <1>4 DEF IInv, RowsPaid, Paid
  <1>9. PaidByItsTx'
    <2> SUFFICES ASSUME NEW c \in Charge, NEW u, charge'[c].tx = u
                 PROVE  /\ charge'[c].status = "completed" => u # NoTx
                        /\ u # NoTx => Settles(u, c)'
      BY DEF PaidByItsTx, Settles
    <2>1. CASE charge'[c] = charge[c]
      <3>1. charge[c].status = "completed" => u # NoTx  BY <2>1 DEF IInv, PaidByItsTx
      <3>2. u # NoTx => Settles(u, c)  BY <2>1 DEF IInv, PaidByItsTx, Settles
      <3> QED  BY <1>3, <2>1, <3>1, <3>2 DEF Settles, VaultOf, Covers
    <2>2. CASE c = Owner[VaultOf(t)] /\ charge'[c].tx = t
      BY <1>3, <2>2, ChargeAssumption DEF Settles, VaultOf, Covers
    <2> QED  BY <1>4, <2>1, <2>2
  <1>10. Claims'
    <2>1. \A i \in Job : at(i, "complete")' =>
            at(i, "complete") /\ job'[i] = job[i] /\ job[i].tx \in Tx /\ job[i].tx # t
      BY <1>2, <1>3, <1>6, IdleInOrder DEF at, IInv, Working, InOrder, Claims
    <2> QED  BY <1>3, <1>5, <2>1 DEF IInv, Claims, at
  <1>11. ClaimedIsCompleted'
    BY <1>2, <1>3, <1>5, <1>6 DEF IInv, ClaimedIsCompleted, at
  <1> QED  BY <1>1, <1>7, <1>8, <1>9, <1>10, <1>11 DEF IInv

-----------------------------------------------------------------------------
(* The theorems.                                                           *)

LEMMA InvInit == Init => IInv
  <1> SUFFICES ASSUME Init PROVE IInv  OBVIOUS
  <1>1. Shape  BY ShapeInit
  <1>2. Working /\ Claims
    BY IdleInOrder DEF Init, Working, Claims, at
  <1>3. RowsPaid /\ PaidByItsTx /\ ClaimedIsCompleted
    BY DEF Init, NoRow, RowsPaid, PaidByItsTx, ClaimedIsCompleted
  <1> QED  BY <1>1, <1>2, <1>3 DEF IInv

LEMMA InvStep == IInv /\ [Next]_vars => IInv'
  <1> SUFFICES ASSUME IInv, [Next]_vars PROVE IInv'  OBVIOUS
  <1>0. Shape  BY DEF IInv
  <1>1. ASSUME NEW r \in Request,
               Requests(r) \/ \E c \in Charge : create_charge(r, c)
                                                \/ api_sandbox_create_charge(r, c)
        PROVE  IInv'
    BY <1>0, <1>1, ShapeRequests, QuietRequests, QuietKeeps
  <1>2. CASE \/ Tick \/ _expire_stale_charges_inprocess \/ delete_platform
             \/ \E c \in Charge : api_public_checkout(c) \/ get_charge(c) \/ mark_expired(c)
    BY <1>0, <1>2, ShapeRows, QuietRows, QuietKeeps
  <1>3. CASE \/ \E t \in Tx : \/ poll_vaults_inprocess(t)
                              \/ \E j \in Rechecker : \/ api_public_checkout_recheck(j, t)
                                                      \/ api_developer_charge_recheck(j, t)
             \/ \E v \in Vault : evict(v)
    BY <1>0, <1>3, ShapeLooking, QuietLooking, QuietKeeps
  <1>4. ASSUME NEW t \in Tx, NEW v \in Vault, NEW a \in Amount[t], Pay(t, v, a)
        PROVE  IInv'
    BY <1>4, PayKeeps
  <1>5. ASSUME NEW j \in Job, JobStep(j) PROVE IInv'
    <2>1. CASE precheck(j) \/ load(j)
      BY <2>1, ShapeJob, QuietJob, QuietKeeps DEF JobStep
    <2> QED  BY <1>5, <2>1, PartialKeeps, ClaimKeeps, CompleteKeeps DEF JobStep
  <1>6. CASE \E t \in Tx : Delivery(t)
    BY <1>0, <1>6, ShapeHook, QuietOthers, QuietKeeps
  <1>7. CASE stop \/ start
    BY <1>0, <1>7, ShapeProcess, QuietOthers, QuietKeeps
  <1>8. CASE UNCHANGED vars
    <2>1. Shape'
      BY <1>0, <1>8 DEF vars, database, watcher, ledger, history, Shape, TypeOK, Requested,
                        Grounded, Telling, Paid, VaultOf
    <2>2. Quiet
      BY <1>8 DEF vars, database, watcher, ledger, history, Quiet
    <2> QED  BY <2>1, <2>2, QuietKeeps
  <1> QED  BY <1>1, <1>2, <1>3, <1>4, <1>5, <1>6, <1>7, <1>8 DEF Next

LEMMA Invariance == Spec => []IInv
  BY InvInit, InvStep, PTL DEF Spec

\* Every variable keeps its shape: a row of platform_charges names only a vault made
\* for it, and no task of the loop survives the process.
THEOREM TypeCorrect == Spec => []TypeOK
  <1>1. IInv => TypeOK  BY DEF IInv, Shape
  <1> QED  BY <1>1, Invariance, PTL

\* A completed charge names a payment that was made to one of its own vaults, covers
\* what that vault's link asked for and was inserted into processed_tx_hashes.
THEOREM CompletedWasPaid == Spec => []PaidByItsTx
  <1>1. IInv => PaidByItsTx  BY DEF IInv
  <1> QED  BY <1>1, Invariance, PTL

\* A payment that is inserted as full is completed by the task that inserted it, or
\* that task is about to, unless the process stopped in between.
THEOREM ClaimIsNotLost == Spec => []ClaimedIsCompleted
  <1>1. IInv => ClaimedIsCompleted  BY DEF IInv
  <1> QED  BY <1>1, Invariance, PTL

\* The watcher's task and the two rechecks may handle one payment together: its
\* charge is completed, and its webhook sent, once.
THEOREM CompletedOnce == Spec => []CompletesOnce
  <1>1. IInv => CompletesOnce
    BY DEF IInv, Claims, CompletesOnce, Shape, TypeOK
  <1> QED  BY <1>1, Invariance, PTL

\* A completion is undone by nothing but a get_charge that read the row before it.
LEMMA UndoneStep ==
  ASSUME IInv, [Next]_vars, NEW c \in Charge,
         charge[c].status = "completed", charge'[c].status # "completed"
  PROVE  c \in lapsing \/ charge'[c].status = "deleted"
  <1> USE DEF IInv, Shape
  <1>1. charge'[c] # charge[c] /\ charge \in [Charge -> Rows]  BY DEF TypeOK
  <1>2. ASSUME NEW r \in Request,
               Requests(r) \/ \E d \in Charge : create_charge(r, d)
                                                \/ api_sandbox_create_charge(r, d)
        PROVE  FALSE
    <2>1. CASE insert_charge(r)
      BY <1>1, <2>1 DEF insert_charge, Rows
    <2>2. CASE store_link(r)
      BY <1>1, <2>2 DEF store_link, Rows
    <2>3. ASSUME NEW d \in Charge, api_sandbox_create_charge(r, d) PROVE FALSE
      BY <1>1, <2>3 DEF api_sandbox_create_charge, Rows
    <2> QED
      BY <1>1, <1>2, <2>1, <2>2, <2>3 DEF Requests, generate_fails, create_charge,
                              generate_platform_payment_request, database
  <1>3. CASE \/ Tick \/ _expire_stale_charges_inprocess \/ delete_platform
             \/ \E d \in Charge : api_public_checkout(d) \/ get_charge(d) \/ mark_expired(d)
    <2>1. CASE _expire_stale_charges_inprocess
      BY <1>1, <2>1 DEF _expire_stale_charges_inprocess, Expirable
    <2>2. CASE delete_platform
      BY <2>2 DEF delete_platform, NoRow
    <2>3. ASSUME NEW d \in Charge, mark_expired(d) PROVE c \in lapsing
      BY <1>1, <2>3 DEF mark_expired
    <2> QED
      BY <1>1, <1>3, <2>1, <2>2, <2>3 DEF Tick, api_public_checkout, get_charge, database
  <1>4. ASSUME NEW j \in Job, JobStep(j) PROVE FALSE
    <2>1. CASE complete(j)
      <3>1. PICK t \in Tx : t = job[j].tx  BY <2>1 DEF complete, at, Working, InOrder
      <3> QED  BY <1>1, <2>1, <3>1, CompleteEffect
    <2> QED  BY <1>1, <1>4, <2>1 DEF JobStep, precheck, load, partial, claim, database
  <1>5. CASE \/ \E t \in Tx : \/ poll_vaults_inprocess(t) \/ Delivery(t)
                              \/ \E j \in Rechecker : \/ api_public_checkout_recheck(j, t)
                                                      \/ api_developer_charge_recheck(j, t)
                              \/ \E v \in Vault : \E a \in Amount[t] : Pay(t, v, a)
             \/ \E v \in Vault : evict(v)
    BY <1>1, <1>5 DEF poll_vaults_inprocess, api_public_checkout_recheck, evict, Pay, database,
                      api_developer_charge_recheck, Delivery, dispatch_webhook, _deliver_once
  <1>6. CASE stop \/ start \/ UNCHANGED vars
    BY <1>1, <1>6 DEF stop, start, vars, database
  <1> QED  BY <1>2, <1>3, <1>4, <1>5, <1>6 DEF Next

\* Neither the maintenance job nor a sandbox upsert takes a completion back: only the
\* UPDATE by id of a get_charge that read the row while it was pending does.
THEOREM OnlyStaleReadUndoes == Spec => UndoneByStaleRead
  <1>1. IInv /\ [Next]_vars =>
          [\A c \in Charge :
             (charge[c].status = "completed" /\ charge'[c].status # "completed") =>
                 c \in lapsing \/ charge'[c].status = "deleted"]_vars
    BY UndoneStep
  <1> QED  BY <1>1, Invariance, PTL DEF Spec, UndoneByStaleRead

-----------------------------------------------------------------------------
(* Webhooks end.                                                           *)

\* Whoever completes a charge leaves a task for its webhook.
Told == \A t \in Tx : completed[t] > 0 => hook[t].pc # "none"

\* A task of the loop that has a step to take can take it.  ENABLED is beyond the
\* provers: this is a hypothesis of the theorem below, and TLC evaluates it in every
\* state of a small instance.
HasPost(t) == hook[t].pc \in {"dispatch", "deliver"}
DeliveryIsEnabled == \A t \in Tx : HasPost(t) => ENABLED <<Delivery(t)>>_vars

\* What is left of a webhook: its dispatch and the posts up to the last.
StepsLeft(t) == CASE hook[t].pc = "dispatch" -> MAX_ATTEMPTS + 1
                  [] hook[t].pc = "deliver" -> MAX_ATTEMPTS - hook[t].attempt
                  [] OTHER -> 0
Within(t, n) == completed[t] > 0 /\ hook[t].pc # "none" /\ StepsLeft(t) \in 0 .. n

\* Only its own steps, a completion and a stop touch a webhook, and only a completion
\* counts as one.
LEMMA HooksLeftAlone ==
  ASSUME [Next]_vars, ~stop, \A j \in Job : ~complete(j), \A t \in Tx : ~Delivery(t)
  PROVE  hook' = hook /\ completed' = completed
  <1>1. ASSUME NEW r \in Request,
               Requests(r) \/ \E c \in Charge : create_charge(r, c)
                                                \/ api_sandbox_create_charge(r, c)
        PROVE  hook' = hook /\ completed' = completed
    <2>1. ASSUME NEW v \in Vault, generate_platform_payment_request(r, v)
          PROVE  hook' = hook /\ completed' = completed
      BY <2>1 DEF generate_platform_payment_request, history
    <2>2. CASE insert_charge(r) \/ generate_fails(r) \/ store_link(r)
      BY <2>2 DEF insert_charge, generate_fails, store_link, history
    <2>3. ASSUME NEW c \in Charge, create_charge(r, c) \/ api_sandbox_create_charge(r, c)
          PROVE  hook' = hook /\ completed' = completed
      BY <2>3 DEF create_charge, api_sandbox_create_charge, history
    <2> QED  BY <1>1, <2>1, <2>2, <2>3 DEF Requests
  <1>2. CASE \/ Tick \/ _expire_stale_charges_inprocess \/ delete_platform \/ start
             \/ \E c \in Charge : api_public_checkout(c) \/ get_charge(c) \/ mark_expired(c)
    BY <1>2 DEF Tick, _expire_stale_charges_inprocess, delete_platform, start, history,
       api_public_checkout, get_charge, mark_expired
  <1>3. CASE \/ \E t \in Tx, v \in Vault : \E a \in Amount[t] : Pay(t, v, a)
             \/ \E v \in Vault : evict(v)
             \/ \E t \in Tx : \/ poll_vaults_inprocess(t)
                              \/ \E j \in Rechecker : \/ api_public_checkout_recheck(j, t)
                                                      \/ api_developer_charge_recheck(j, t)
    BY <1>3 DEF Pay, evict, poll_vaults_inprocess, api_public_checkout_recheck, history,
       api_developer_charge_recheck
  <1>4. ASSUME NEW j \in Job, JobStep(j)
        PROVE  hook' = hook /\ completed' = completed
    BY <1>4 DEF JobStep, precheck, load, partial, claim, history
  <1>5. CASE UNCHANGED vars
    BY <1>5 DEF vars, history
  <1> QED  BY <1>1, <1>2, <1>3, <1>4, <1>5 DEF Next

LEMMA HookChange ==
  ASSUME IInv, NEW t \in Tx, [Next]_vars
  PROVE  \/ hook'[t] = hook[t] /\ completed'[t] = completed[t]
         \/ Delivery(t) /\ completed'[t] = completed[t]
         \/ hook'[t].pc = "over" /\ completed'[t] = completed[t]
         \/ completed[t] = 0 /\ completed'[t] = 1 /\ hook'[t].pc = "dispatch"
  <1>1. hook \in [Tx -> Hooks] /\ completed \in [Tx -> Nat]  BY DEF IInv, Shape, TypeOK
  <1>2. ASSUME NEW j \in Job, complete(j)
        PROVE  \/ hook'[t] = hook[t] /\ completed'[t] = completed[t]
               \/ completed[t] = 0 /\ completed'[t] = 1 /\ hook'[t].pc = "dispatch"
    <2>1. /\ hook' = [hook EXCEPT ![job[j].tx] = [NoHook EXCEPT !.pc = "dispatch"]]
          /\ completed' = [completed EXCEPT ![job[j].tx] = @ + 1]
          /\ completed[job[j].tx] = 0
      BY <1>2 DEF complete, at, IInv, Claims
    <2>2. [NoHook EXCEPT !.pc = "dispatch"].pc = "dispatch"  BY DEF NoHook
    <2> QED  BY <1>1, <2>1, <2>2
  <1>3. ASSUME NEW u \in Tx, Delivery(u)
        PROVE  (hook'[t] = hook[t] \/ Delivery(t)) /\ completed' = completed
    <2>1. PICK next : hook' = [hook EXCEPT ![u] = next]
      BY <1>3 DEF Delivery, dispatch_webhook, _deliver_once
    <2>2. completed' = completed
      BY <1>3 DEF Delivery, dispatch_webhook, _deliver_once, history
    <2> QED  BY <1>1, <1>3, <2>1, <2>2
  <1>4. CASE stop
    BY <1>1, <1>4 DEF stop, Over, NoHook
  <1> QED  BY <1>2, <1>3, <1>4, HooksLeftAlone

LEMMA DeliveryAdvances ==
  ASSUME IInv, NEW t \in Tx, Delivery(t), NEW m \in Nat, NEW n \in Nat, n = m + 1,
         Within(t, n)
  PROVE  Within(t, m)'
  <1>1. /\ hook[t] \in Hooks /\ hook \in [Tx -> Hooks] /\ completed' = completed
        /\ hook[t].pc = "deliver" => hook[t].attempt < MAX_ATTEMPTS
        /\ MAX_ATTEMPTS \in Nat \ {0}
    BY ChargeAssumption DEF IInv, Shape, TypeOK, Telling, Delivery, dispatch_webhook,
       _deliver_once, history
  <1>2. Over.pc = "over"  BY DEF Over, NoHook
  <1>3. CASE dispatch_webhook(t)
    <2>1. /\ hook[t].pc = "dispatch"
          /\ \/ hook'[t] = Over
             \/ hook'[t].pc = "deliver" /\ hook'[t].attempt = 0
      BY <1>1, <1>3 DEF dispatch_webhook
    <2> QED  BY <1>1, <1>2, <2>1 DEF Within, StepsLeft
  <1>4. CASE _deliver_once(t)
    <2>1. hook[t].pc = "deliver" /\ (hook'[t] = Over \/ hook'[t] = retry(t))
      BY <1>1, <1>4 DEF _deliver_once
    <2>2. CASE hook'[t] = Over
      BY <1>1, <1>2, <2>1, <2>2 DEF Within, StepsLeft
    <2>3. CASE hook'[t] # Over
      <3>1. /\ hook'[t] = [hook[t] EXCEPT !.attempt = @ + 1]
            /\ hook[t].attempt + 1 # MAX_ATTEMPTS
        BY <2>1, <2>3 DEF retry
      <3>2. hook'[t].pc = "deliver" /\ hook'[t].attempt = hook[t].attempt + 1
        BY <1>1, <2>1, <3>1 DEF Hooks
      <3>3. hook[t].attempt \in Nat  BY <1>1 DEF Hooks
      <3> QED  BY <1>1, <2>1, <3>1, <3>2, <3>3 DEF Within, StepsLeft
    <2> QED  BY <2>2, <2>3
  <1> QED  BY <1>3, <1>4 DEF Delivery

LEMMA WithinStays ==
  ASSUME IInv, NEW t \in Tx, [Next]_vars, NEW n \in Nat, Within(t, n)
  PROVE  Within(t, n)'
  <1>2. completed'[t] > 0
    BY HookChange DEF Within
  <1>3. CASE hook'[t] = hook[t]
    BY <1>2, <1>3 DEF Within, StepsLeft
  <1>4. CASE hook'[t].pc = "over"
    BY <1>2, <1>4 DEF Within, StepsLeft
  <1>5. CASE Delivery(t)
    <2>1. StepsLeft(t) \in 1 .. n
      BY <1>5, ChargeAssumption DEF Within, StepsLeft, Delivery, dispatch_webhook, _deliver_once,
         IInv, Shape, TypeOK, Telling, Hooks
    <2>2. PICK m \in Nat : n = m + 1
      BY <2>1
    <2>3. Within(t, m)'
      BY <1>5, <2>2, DeliveryAdvances
    <2> QED  BY <2>2, <2>3 DEF Within
  <1> QED  BY <1>3, <1>4, <1>5, HookChange DEF Within

LEMMA ToldInvariant == Spec => []Told
  <1>1. Init => Told  BY DEF Init, Told
  <1>2. IInv /\ Told /\ [Next]_vars => Told'
    <2> SUFFICES ASSUME IInv, Told, [Next]_vars, NEW t \in Tx, completed'[t] > 0
                 PROVE  hook'[t].pc # "none"
      BY DEF Told
    <2>1. CASE completed'[t] = completed[t]
      <3>1. hook[t].pc # "none"  BY <2>1 DEF Told
      <3>2. Delivery(t) => hook'[t].pc \in {"deliver", "over"}
        BY DEF Delivery, dispatch_webhook, _deliver_once, retry, Over, NoHook, IInv, Shape,
               TypeOK, Hooks
      <3> QED  BY <3>1, <3>2, HookChange
    <2> QED  BY <2>1, HookChange
  <1> QED  BY <1>1, <1>2, Invariance, PTL DEF Spec

\* A completion is told to the platform or given up after the last attempt: with three
\* posts at most, as in the code, its dispatch and they are what the fair task has to
\* do, and nobody starts it again.
THEOREM WebhookEnds ==
  ASSUME MAX_ATTEMPTS <= 3
  PROVE  FairSpec /\ []DeliveryIsEnabled => ToldOrGivenUp
  <1>0. Fairness => \A t \in Tx : TxFairness(t)
    BY PTL DEF Fairness
  <1> SUFFICES ASSUME NEW t \in Tx
               PROVE  FairSpec /\ []DeliveryIsEnabled
                        => (completed[t] > 0 ~> hook[t].pc = "over")
    BY DEF ToldOrGivenUp
  <1> DEFINE P == completed[t] > 0
             Q == hook[t].pc = "over"
             W(n) == Within(t, n)
             D == Delivery(t)
             E == ENABLED <<Delivery(t)>>_vars
  <1>1. IInv /\ Told /\ P => W(4)
    <2> SUFFICES ASSUME IInv, Told, P PROVE W(4)  OBVIOUS
    <2>1. hook[t] \in Hooks /\ hook[t].pc # "none"
      BY DEF IInv, Shape, TypeOK, Told
    <2>2. hook[t].pc = "deliver" => hook[t].attempt \in 0 .. MAX_ATTEMPTS - 1
      BY <2>1, ChargeAssumption DEF IInv, Shape, Telling, Hooks
    <2> QED  BY <2>1, <2>2, ChargeAssumption DEF Within, StepsLeft
  <1>2. IInv /\ W(0) => Q
    BY ChargeAssumption DEF IInv, Shape, TypeOK, Hooks, Telling, Within, StepsLeft
  <1>3. IInv /\ W(4) /\ [Next]_vars => W(4)' /\ (<<D>>_vars => W(3)')
    BY 4 = 3 + 1, WithinStays, DeliveryAdvances
  <1>4. IInv /\ W(3) /\ [Next]_vars => W(3)' /\ (<<D>>_vars => W(2)')
    BY 3 = 2 + 1, WithinStays, DeliveryAdvances
  <1>5. IInv /\ W(2) /\ [Next]_vars => W(2)' /\ (<<D>>_vars => W(1)')
    BY 2 = 1 + 1, WithinStays, DeliveryAdvances
  <1>6. IInv /\ W(1) /\ [Next]_vars => W(1)' /\ (<<D>>_vars => W(0)')
    BY 1 = 0 + 1, WithinStays, DeliveryAdvances
  <1>7. IInv /\ W(4) /\ DeliveryIsEnabled => Q \/ E
    BY DEF IInv, Shape, TypeOK, Hooks, Within, HasPost, DeliveryIsEnabled
  <1>8. Fairness => TxFairness(t)
    BY <1>0
  <1> HIDE DEF P, Q, W
  <1>9. FairSpec /\ []DeliveryIsEnabled => (P ~> Q)
    BY <1>1, <1>2, <1>3, <1>4, <1>5, <1>6, <1>7, <1>8, Invariance, ToldInvariant, PTL
       DEF FairSpec, Spec, TxFairness
  <1> QED  BY <1>9 DEF P, Q

-----------------------------------------------------------------------------
(* A payment the watcher can see completes its charge.                     *)

\* Before the amount check nothing is short, the task of a transaction is about it,
\* and the process runs until a fault.
Tasks ==
    /\ \A j \in Job : at(j, "idle") => job[j] = Idle
    /\ \A j \in Job : at(j, "partial") => ~Covers(job[j].tx)
    /\ \A t \in Tx : ~at(t, "idle") => job[t].tx = t
    /\ running \/ faults > 0

\* Where PaidIsCompleted lets a payment go.
Excused(t, v) ==
    \/ completed[t] > 0 \/ faults > 0
    \/ watch[v] = NotWatched \/ charge[Owner[v]].vault # v \/ ~Open(Owner[v])

\* The payment is there and the watcher looks at its vault.
Watched(t, v) == VaultOf(t) = v /\ Covers(t) /\ watch[v].net = NetOf(Owner[v])

\* The stages of the watcher's task, and the completion by whoever claims.
Unseen(t, v) == Watched(t, v) /\ processed[t] = "none" /\ at(t, "idle") /\ t \notin seen
Reached(t, v, pc) == Watched(t, v) /\ processed[t] = "none" /\ at(t, pc)
Claimed(t, v) == Watched(t, v) /\ processed[t] = "full"
Completing(j, t) == at(j, "complete") /\ job[j].tx = t

\* What can go on is enabled, as above.
CanPoll(t) ==
    /\ running /\ Paid(t) /\ t \notin seen /\ job[t] = Idle
    /\ watch[VaultOf(t)].net = NetOf(Owner[VaultOf(t)])
PollIsEnabled == \A t \in Tx : CanPoll(t) => ENABLED <<poll_vaults_inprocess(t)>>_vars
StepIsEnabled(j) == ~at(j, "idle") => ENABLED <<JobStep(j)>>_vars
JobIsEnabled == \A j \in Job : StepIsEnabled(j)

\* Who moves the jobs: a look for payments starts one, a step moves one, a stop ends all.
LEMMA JobChange ==
  ASSUME IInv, [Next]_vars, NEW j \in Job
  PROVE  \/ job'[j] = job[j]
         \/ JobStep(j)
         \/ stop /\ job'[j] = Idle
         \/ /\ job[j].pc = "idle" /\ job'[j].pc = "precheck"
            /\ job'[j].tx \in Tx /\ (j \in Tx => job'[j].tx = j)
  <1>1. job \in [Job -> Jobs]  BY DEF IInv, Shape, TypeOK
  <1>2. ASSUME NEW t \in Tx, NEW i \in Job, NEW by \in {"watcher", "buyer", "owner"},
               Start(i, by, t), i \in Tx => i = t
        PROVE  \/ job'[j] = job[j]
               \/ /\ job[j].pc = "idle" /\ job'[j].pc = "precheck"
                  /\ job'[j].tx \in Tx /\ (j \in Tx => job'[j].tx = j)
    BY <1>1, <1>2, StartEffect
  <1>3. ASSUME NEW t \in Tx, poll_vaults_inprocess(t)
        PROVE  \/ job'[j] = job[j]
               \/ /\ job[j].pc = "idle" /\ job'[j].pc = "precheck"
                  /\ job'[j].tx \in Tx /\ (j \in Tx => job'[j].tx = j)
    BY <1>2, <1>3 DEF poll_vaults_inprocess, Job
  <1>4. ASSUME NEW t \in Tx, NEW i \in Rechecker,
               api_public_checkout_recheck(i, t) \/ api_developer_charge_recheck(i, t)
        PROVE  \/ job'[j] = job[j]
               \/ /\ job[j].pc = "idle" /\ job'[j].pc = "precheck"
                  /\ job'[j].tx \in Tx /\ (j \in Tx => job'[j].tx = j)
    <2>1. i \in Job /\ i \notin Tx  BY ChargeAssumption DEF ChargeAssumption, Job
    <2> QED  BY <1>2, <1>4, <2>1 DEF api_public_checkout_recheck, api_developer_charge_recheck
  <1>5. ASSUME NEW i \in Job, JobStep(i), i # j PROVE job'[j] = job[j]
    <2>1. CASE load(i)
      BY <1>5, <2>1, LoadEffect
    <2>2. CASE precheck(i)
      BY <1>1, <1>5, <2>2, GotoEffect, DoneEffect DEF precheck
    <2>3. CASE claim(i)
      BY <1>1, <1>5, <2>3, GotoEffect, DoneEffect DEF claim
    <2>4. CASE partial(i) \/ complete(i)
      BY <1>1, <1>5, <2>4, DoneEffect DEF partial, complete
    <2> QED  BY <1>5, <2>1, <2>2, <2>3, <2>4 DEF JobStep
  <1>6. CASE stop
    BY <1>6 DEF stop
  <1>7. ASSUME NEW r \in Request,
               Requests(r) \/ \E c \in Charge : create_charge(r, c)
                                                \/ api_sandbox_create_charge(r, c)
        PROVE  job' = job
    <2>1. ASSUME NEW v \in Vault, generate_platform_payment_request(r, v) PROVE job' = job
      BY <2>1 DEF generate_platform_payment_request
    <2>2. CASE insert_charge(r) \/ generate_fails(r) \/ store_link(r)
      BY <2>2 DEF insert_charge, generate_fails, store_link
    <2>3. ASSUME NEW c \in Charge, create_charge(r, c) \/ api_sandbox_create_charge(r, c)
          PROVE  job' = job
      BY <2>3 DEF create_charge, api_sandbox_create_charge
    <2> QED  BY <1>7, <2>1, <2>2, <2>3 DEF Requests
  <1>8. CASE \/ Tick \/ _expire_stale_charges_inprocess \/ delete_platform \/ start
             \/ \E c \in Charge : api_public_checkout(c) \/ get_charge(c) \/ mark_expired(c)
             \/ UNCHANGED vars
    BY <1>8 DEF Tick, _expire_stale_charges_inprocess, delete_platform, start, vars,
       api_public_checkout, get_charge, mark_expired
  <1>9. CASE \/ \E t \in Tx, v \in Vault : \E a \in Amount[t] : Pay(t, v, a)
             \/ \E v \in Vault : evict(v)
             \/ \E t \in Tx : Delivery(t)
    BY <1>9 DEF Pay, evict, Delivery, dispatch_webhook, _deliver_once
  <1>10. CASE \E t \in Tx : poll_vaults_inprocess(t)
    BY <1>3, <1>10
  <1>11. CASE \E i \in Rechecker, t \in Tx : \/ api_public_checkout_recheck(i, t)
                                             \/ api_developer_charge_recheck(i, t)
    BY <1>4, <1>11
  <1>12. CASE \E i \in Job : JobStep(i)
    BY <1>5, <1>12
  <1>13. CASE \E r \in Request :
                Requests(r) \/ \E c \in Charge : create_charge(r, c)
                                                 \/ api_sandbox_create_charge(r, c)
    BY <1>7, <1>13
  <1> QED  BY <1>6, <1>8, <1>9, <1>10, <1>11, <1>12, <1>13 DEF Next

LEMMA StepEffect ==
  ASSUME IInv, NEW j \in Job, JobStep(j)
  PROVE  /\ job[j].pc # "idle"
         /\ \/ job'[j] = Idle
            \/ /\ job'[j].pc \in {"load", "partial", "claim", "complete"}
               /\ job'[j].tx = job[j].tx
               /\ job'[j].pc = "partial" => ~Covers(job[j].tx)
  <1>1. job \in [Job -> Jobs] /\ job[j] \in Jobs  BY DEF IInv, Shape, TypeOK
  <1>2. job[j].pc # "idle"
    BY DEF JobStep, precheck, load, partial, claim, complete, at
  <1>3. CASE precheck(j) \/ claim(j)
    <2>1. Done(j) \/ Goto(j, "load") \/ Goto(j, "complete")
      BY <1>3 DEF precheck, claim
    <2>2. CASE Done(j)
      BY <1>1, <1>2, <2>2, DoneEffect
    <2>3. CASE Goto(j, "load") \/ Goto(j, "complete")
      BY <1>1, <1>2, <2>3, GotoEffect
    <2> QED  BY <2>1, <2>2, <2>3
  <1>4. CASE partial(j) \/ complete(j)
    BY <1>1, <1>2, <1>4, DoneEffect DEF partial, complete
  <1>5. CASE load(j)
    <2>1. CASE Done(j)
      BY <1>1, <1>2, <2>1, DoneEffect
    <2>2. CASE ~Done(j)
      <3>1. PICK c \in get_platform_charge_by_vault(VaultOf(job[j].tx)) :
              job' = [job EXCEPT ![j].pc = IF Covers(job[j].tx) THEN "claim" ELSE "partial",
                                 ![j].charge = c]
        BY <1>5, <2>2 DEF load
      <3> DEFINE pc == IF Covers(job[j].tx) THEN "claim" ELSE "partial"
      <3>2. job' = [job EXCEPT ![j] = [job[j] EXCEPT !.pc = pc, !.charge = c]]
        BY <3>1
      <3>3. pc \in {"claim", "partial"} /\ (pc = "partial" => ~Covers(job[j].tx))  OBVIOUS
      <3> HIDE DEF pc
      <3>4. job'[j].pc = pc /\ job'[j].tx = job[j].tx
        BY <1>1, <3>2 DEF Jobs
      <3> QED  BY <1>2, <3>3, <3>4
    <2> QED  BY <2>1, <2>2
  <1> QED  BY <1>3, <1>4, <1>5 DEF JobStep

\* A payment that was made stays as it was made.
LEMMA PaymentStays ==
  ASSUME IInv, [Next]_vars, NEW t \in Tx, Paid(t)
  PROVE  chain'[t] = chain[t]
  <1>1. ASSUME NEW u \in Tx, NEW v \in Vault, NEW a \in Amount[u], Pay(u, v, a)
        PROVE  chain'[t] = chain[t]
    BY <1>1, PayEffect DEF IInv
  <1>2. CASE \A u \in Tx, v \in Vault : \A a \in Amount[u] : ~Pay(u, v, a)
    <2>1. ASSUME NEW r \in Request,
                 Requests(r) \/ \E c \in Charge : create_charge(r, c)
                                                  \/ api_sandbox_create_charge(r, c)
          PROVE  chain' = chain
      <3>1. ASSUME NEW v \in Vault, generate_platform_payment_request(r, v)
            PROVE  chain' = chain
        BY <3>1 DEF generate_platform_payment_request, ledger
      <3>2. CASE insert_charge(r) \/ generate_fails(r) \/ store_link(r)
        BY <3>2 DEF insert_charge, generate_fails, store_link, ledger
      <3>3. ASSUME NEW c \in Charge, create_charge(r, c) \/ api_sandbox_create_charge(r, c)
            PROVE  chain' = chain
        BY <3>3 DEF create_charge, api_sandbox_create_charge, ledger
      <3> QED  BY <2>1, <3>1, <3>2, <3>3 DEF Requests
    <2>2. CASE \/ Tick \/ _expire_stale_charges_inprocess \/ delete_platform \/ start \/ stop
               \/ \E c \in Charge : api_public_checkout(c) \/ get_charge(c) \/ mark_expired(c)
               \/ UNCHANGED vars
      BY <2>2 DEF Tick, _expire_stale_charges_inprocess, delete_platform, start, stop, vars,
         api_public_checkout, get_charge, mark_expired, ledger
    <2>3. CASE \/ \E v \in Vault : evict(v)
               \/ \E u \in Tx : \/ poll_vaults_inprocess(u) \/ Delivery(u)
                                \/ \E j \in Rechecker : \/ api_public_checkout_recheck(j, u)
                                                        \/ api_developer_charge_recheck(j, u)
      BY <2>3 DEF evict, Delivery, dispatch_webhook, _deliver_once, poll_vaults_inprocess,
         api_public_checkout_recheck, api_developer_charge_recheck, ledger
    <2>4. ASSUME NEW j \in Job, JobStep(j) PROVE chain' = chain
      BY <2>4 DEF JobStep, precheck, load, partial, claim, complete, ledger
    <2> QED  BY <1>2, <2>1, <2>2, <2>3, <2>4 DEF Next
  <1> QED  BY <1>1, <1>2

\* The process stops with a fault and only then.
LEMMA RunningChange ==
  ASSUME IInv, [Next]_vars, running \/ faults > 0
  PROVE  running' \/ faults' > 0
  <1>1. faults \in Nat  BY ChargeAssumption DEF IInv, Shape, TypeOK
  <1>2. CASE stop \/ start
    BY <1>1, <1>2 DEF stop, start, history
  <1>3. ASSUME NEW r \in Request,
               Requests(r) \/ \E c \in Charge : create_charge(r, c)
                                                \/ api_sandbox_create_charge(r, c)
        PROVE  running' = running /\ faults' \in Nat /\ faults' >= faults
    <2>1. ASSUME NEW v \in Vault, generate_platform_payment_request(r, v)
          PROVE  running' = running /\ faults' = faults
      BY <2>1 DEF generate_platform_payment_request, history
    <2>2. CASE insert_charge(r) \/ store_link(r)
      BY <1>1, <2>2 DEF insert_charge, store_link, history
    <2>3. CASE generate_fails(r)
      BY <1>1, <2>3 DEF generate_fails
    <2>4. ASSUME NEW c \in Charge, create_charge(r, c) \/ api_sandbox_create_charge(r, c)
          PROVE  running' = running /\ faults' = faults
      BY <2>4 DEF create_charge, api_sandbox_create_charge, history
    <2> QED  BY <1>1, <1>3, <2>1, <2>2, <2>3, <2>4 DEF Requests
  <1>4. CASE \/ Tick \/ _expire_stale_charges_inprocess \/ delete_platform
             \/ \E c \in Charge : api_public_checkout(c) \/ get_charge(c) \/ mark_expired(c)
             \/ UNCHANGED vars
    BY <1>4 DEF Tick, _expire_stale_charges_inprocess, delete_platform, vars,
       api_public_checkout, get_charge, mark_expired, history
  <1>5. CASE \/ \E v \in Vault : evict(v)
             \/ \E t \in Tx, v \in Vault : \E a \in Amount[t] : Pay(t, v, a)
             \/ \E u \in Tx : \/ poll_vaults_inprocess(u) \/ Delivery(u)
                              \/ \E j \in Rechecker : \/ api_public_checkout_recheck(j, u)
                                                      \/ api_developer_charge_recheck(j, u)
    BY <1>5 DEF evict, Pay, Delivery, dispatch_webhook, _deliver_once, poll_vaults_inprocess,
       api_public_checkout_recheck, api_developer_charge_recheck, history
  <1>6. ASSUME NEW j \in Job, JobStep(j) PROVE running' = running /\ faults' = faults
    BY <1>6 DEF JobStep, precheck, load, partial, claim, complete, history
  <1>7. CASE \E r \in Request :
                Requests(r) \/ \E c \in Charge : create_charge(r, c)
                                                 \/ api_sandbox_create_charge(r, c)
    BY <1>1, <1>3, <1>7
  <1>8. CASE \E j \in Job : JobStep(j)
    BY <1>6, <1>8
  <1> QED  BY <1>2, <1>4, <1>5, <1>7, <1>8 DEF Next

LEMMA TasksInvariant == Spec => []Tasks
  <1>1. Init => Tasks
    BY ChargeAssumption, IdleInOrder DEF Init, Tasks, at, Job
  <1>2. IInv /\ Tasks /\ [Next]_vars => Tasks'
    <2> SUFFICES ASSUME IInv, Tasks, [Next]_vars PROVE Tasks'  OBVIOUS
    <2>1. ASSUME NEW j \in Job, at(j, "idle")' PROVE job'[j] = Idle
      BY <2>1, JobChange, StepEffect DEF Tasks, at
    <2>2. ASSUME NEW j \in Job, at(j, "partial")' PROVE ~Covers(job[j].tx)'
      <3>1. job'[j].tx = job[j].tx /\ job[j].pc # "idle" /\ ~Covers(job[j].tx)
        BY <2>2, JobChange, StepEffect, IdleInOrder DEF at, Tasks
      <3>2. job[j].tx \in Tx /\ Paid(job[j].tx)
        BY <3>1 DEF IInv, Working, InOrder
      <3>3. chain'[job[j].tx] = chain[job[j].tx]
        BY <3>2, PaymentStays
      <3> QED  BY <3>1, <3>3 DEF Covers, VaultOf
    <2>3. ASSUME NEW t \in Tx, ~at(t, "idle")' PROVE job'[t].tx = t
      BY <2>3, JobChange, StepEffect, IdleInOrder DEF at, Tasks, Job
    <2>4. running' \/ faults' > 0
      BY RunningChange DEF Tasks
    <2> QED  BY <2>1, <2>2, <2>3, <2>4 DEF Tasks
  <1> QED  BY <1>1, <1>2, Invariance, PTL DEF Spec

\* The hash of a payment that covers is not recorded as a part, nor taken back.
LEMMA RecordChange ==
  ASSUME IInv, Tasks, [Next]_vars, NEW t \in Tx, Covers(t)
  PROVE  processed'[t] = processed[t] \/ processed'[t] = "full"
  <1>1. processed \in [Tx -> {"none", "partial", "full"}]  BY DEF IInv, Shape, TypeOK
  <1>2. ASSUME NEW j \in Job, JobStep(j)
        PROVE  processed'[t] = processed[t] \/ processed'[t] = "full"
    <2>1. CASE partial(j)
      <3>1. ~Covers(job[j].tx)  BY <2>1 DEF partial, Tasks
      <3> QED  BY <1>1, <2>1, <3>1 DEF partial, mark_tx_processed
    <2>2. CASE claim(j)
      BY <1>1, <2>2 DEF claim, mark_tx_processed
    <2>3. CASE precheck(j) \/ load(j) \/ complete(j)
      BY <2>3 DEF precheck, load, complete, database
    <2> QED  BY <1>2, <2>1, <2>2, <2>3 DEF JobStep
  <1>3. ASSUME NEW r \in Request,
               Requests(r) \/ \E c \in Charge : create_charge(r, c)
                                                \/ api_sandbox_create_charge(r, c)
        PROVE  processed' = processed
    <2>1. ASSUME NEW v \in Vault, generate_platform_payment_request(r, v)
          PROVE  processed' = processed
      BY <2>1 DEF generate_platform_payment_request, database
    <2>2. CASE insert_charge(r) \/ generate_fails(r) \/ store_link(r)
      BY <2>2 DEF insert_charge, generate_fails, store_link, database
    <2>3. ASSUME NEW c \in Charge, create_charge(r, c) \/ api_sandbox_create_charge(r, c)
          PROVE  processed' = processed
      BY <2>3 DEF create_charge, api_sandbox_create_charge, database
    <2> QED  BY <1>3, <2>1, <2>2, <2>3 DEF Requests
  <1>4. CASE \/ Tick \/ _expire_stale_charges_inprocess \/ delete_platform \/ stop \/ start
             \/ \E c \in Charge : api_public_checkout(c) \/ get_charge(c) \/ mark_expired(c)
             \/ UNCHANGED vars
    BY <1>4 DEF Tick, _expire_stale_charges_inprocess, delete_platform, stop, start, vars,
       api_public_checkout, get_charge, mark_expired, database
  <1>5. CASE \/ \E v \in Vault : evict(v)
             \/ \E u \in Tx, v \in Vault : \E a \in Amount[u] : Pay(u, v, a)
             \/ \E u \in Tx : \/ poll_vaults_inprocess(u) \/ Delivery(u)
                              \/ \E j \in Rechecker : \/ api_public_checkout_recheck(j, u)
                                                      \/ api_developer_charge_recheck(j, u)
    BY <1>5 DEF evict, Pay, Delivery, dispatch_webhook, _deliver_once, poll_vaults_inprocess,
       api_public_checkout_recheck, api_developer_charge_recheck, database
  <1> QED  BY <1>2, <1>3, <1>4, <1>5 DEF Next

\* A vault that is watched keeps its network until it is dropped.
LEMMA NetworkStays ==
  ASSUME IInv, [Next]_vars, running, NEW v \in Vault, watch[v] # NotWatched
  PROVE  watch'[v] = NotWatched \/ watch'[v].net = watch[v].net
  <1>1. watch \in [Vault -> Watches]  BY DEF IInv, Shape, TypeOK
  <1>2. ASSUME NEW u \in Vault, NEW net, wake_watcher_for_vault(u, net)
        PROVE  watch'[v].net = watch[v].net
    <2>1. CASE u # v  BY <1>1, <1>2, <2>1 DEF wake_watcher_for_vault
    <2>2. CASE u = v
      <3>1. watch[v] \in Watches  BY <1>1
      <3> QED  BY <1>1, <1>2, <2>2, <3>1 DEF wake_watcher_for_vault, NotWatched, Watches
    <2> QED  BY <2>1, <2>2
  <1>3. ASSUME NEW r \in Request,
               Requests(r) \/ \E c \in Charge : create_charge(r, c)
                                                \/ api_sandbox_create_charge(r, c)
        PROVE  watch'[v].net = watch[v].net
    <2>1. ASSUME NEW u \in Vault, generate_platform_payment_request(r, u)
          PROVE  watch'[v].net = watch[v].net
      BY <1>2, <2>1 DEF generate_platform_payment_request
    <2>2. CASE insert_charge(r) \/ generate_fails(r) \/ store_link(r)
      BY <2>2 DEF insert_charge, generate_fails, store_link, watcher
    <2>3. ASSUME NEW c \in Charge, create_charge(r, c) \/ api_sandbox_create_charge(r, c)
          PROVE  watch'[v].net = watch[v].net
      BY <2>3 DEF create_charge, api_sandbox_create_charge, watcher
    <2> QED  BY <1>3, <2>1, <2>2, <2>3 DEF Requests
  <1>4. ASSUME NEW c \in Charge, api_public_checkout(c) PROVE watch'[v].net = watch[v].net
    <2>1. charge[c].vault \in Vault
      BY <1>4 DEF api_public_checkout, IInv, Shape, TypeOK, Rows
    <2> QED  BY <1>2, <1>4, <2>1 DEF api_public_checkout
  <1>5. CASE Tick
    <2>1. watch'[v] = IF watch[v].net # "none" /\ watch[v].is = "timely"
                      THEN [watch[v] EXCEPT !.is = "overdue"] ELSE watch[v]
      BY <1>5 DEF Tick
    <2> QED  BY <1>1, <2>1 DEF Watches
  <1>6. CASE \/ _expire_stale_charges_inprocess \/ delete_platform \/ UNCHANGED vars
             \/ \E c \in Charge : get_charge(c) \/ mark_expired(c)
             \/ \E u \in Tx, w \in Vault : \E a \in Amount[u] : Pay(u, w, a)
    BY <1>6 DEF _expire_stale_charges_inprocess, delete_platform, vars, get_charge,
       mark_expired, Pay, watcher
  <1>7. CASE stop \/ start
    BY <1>7 DEF stop, start
  <1>8. CASE \E u \in Vault : evict(u)
    BY <1>1, <1>8 DEF evict
  <1>9. ASSUME NEW u \in Tx, poll_vaults_inprocess(u) \/ Delivery(u)
        PROVE  watch'[v].net = watch[v].net
    BY <1>9 DEF poll_vaults_inprocess, Delivery, dispatch_webhook, _deliver_once, watcher
  <1>10. ASSUME NEW u \in Tx, NEW j \in Rechecker,
                \/ api_public_checkout_recheck(j, u) \/ api_developer_charge_recheck(j, u)
         PROVE  watch'[v].net = watch[v].net
    <2>1. CASE api_public_checkout_recheck(j, u)
      <3>1. VaultOf(u) \in Vault
        BY <2>1 DEF api_public_checkout_recheck, Recheckable, IInv, Shape, Grounded
      <3> QED  BY <1>2, <2>1, <3>1 DEF api_public_checkout_recheck
    <2> QED  BY <1>10, <2>1 DEF api_developer_charge_recheck, watcher
  <1>11. ASSUME NEW j \in Job, JobStep(j) PROVE watch'[v].net = watch[v].net
    <2>1. CASE precheck(j) \/ load(j) \/ partial(j) \/ claim(j)
      BY <2>1 DEF precheck, load, partial, claim, watcher
    <2>2. CASE complete(j)
      <3>1. watch' = watch \/ \E u : watch' = [watch EXCEPT ![u].is = "paid"]
        BY <2>2 DEF complete, mark_vault_confirmed
      <3>2. ASSUME NEW u, watch' = [watch EXCEPT ![u].is = "paid"]
            PROVE  watch'[v].net = watch[v].net
        <4>1. watch' = [watch EXCEPT ![u] = [watch[u] EXCEPT !.is = "paid"]]  BY <3>2
        <4> QED  BY <1>1, <4>1 DEF Watches
      <3> QED  BY <3>1, <3>2
    <2> QED  BY <1>11, <2>1, <2>2 DEF JobStep
  <1>12. CASE \E r \in Request :
                Requests(r) \/ \E c \in Charge : create_charge(r, c)
                                                 \/ api_sandbox_create_charge(r, c)
    BY <1>3, <1>12
  <1>13. CASE \E c \in Charge : api_public_checkout(c)
    BY <1>4, <1>13
  <1>14. CASE \E u \in Tx : \/ poll_vaults_inprocess(u) \/ Delivery(u)
                            \/ \E j \in Rechecker : \/ api_public_checkout_recheck(j, u)
                                                    \/ api_developer_charge_recheck(j, u)
    BY <1>9, <1>10, <1>14
  <1>15. CASE \E j \in Job : JobStep(j)
    BY <1>11, <1>15
  <1> QED  BY <1>5, <1>6, <1>7, <1>8, <1>12, <1>13, <1>14, <1>15 DEF Next

\* A transaction that was not seen is seen by the round that starts its task.
LEMMA SeenChange ==
  ASSUME IInv, [Next]_vars, NEW t \in Tx, t \notin seen
  PROVE  t \notin seen' \/ poll_vaults_inprocess(t)
  <1>1. ASSUME NEW u \in Tx, poll_vaults_inprocess(u)
        PROVE  t \notin seen' \/ poll_vaults_inprocess(t)
    BY <1>1 DEF poll_vaults_inprocess
  <1>2. ASSUME NEW r \in Request,
               Requests(r) \/ \E c \in Charge : create_charge(r, c)
                                                \/ api_sandbox_create_charge(r, c)
        PROVE  seen' = seen
    <2>1. ASSUME NEW v \in Vault, generate_platform_payment_request(r, v)
          PROVE  seen' = seen
      BY <2>1 DEF generate_platform_payment_request
    <2>2. CASE insert_charge(r) \/ generate_fails(r) \/ store_link(r)
      BY <2>2 DEF insert_charge, generate_fails, store_link, watcher
    <2>3. ASSUME NEW c \in Charge, create_charge(r, c) \/ api_sandbox_create_charge(r, c)
          PROVE  seen' = seen
      BY <2>3 DEF create_charge, api_sandbox_create_charge, watcher
    <2> QED  BY <1>2, <2>1, <2>2, <2>3 DEF Requests
  <1>3. CASE \/ Tick \/ _expire_stale_charges_inprocess \/ delete_platform \/ stop \/ start
             \/ \E c \in Charge : api_public_checkout(c) \/ get_charge(c) \/ mark_expired(c)
             \/ UNCHANGED vars
    BY <1>3 DEF Tick, _expire_stale_charges_inprocess, delete_platform, stop, start, vars,
       api_public_checkout, get_charge, mark_expired, watcher
  <1>4. CASE \/ \E v \in Vault : evict(v)
             \/ \E u \in Tx, v \in Vault : \E a \in Amount[u] : Pay(u, v, a)
             \/ \E u \in Tx : \/ Delivery(u)
                              \/ \E j \in Rechecker : \/ api_public_checkout_recheck(j, u)
                                                      \/ api_developer_charge_recheck(j, u)
    BY <1>4 DEF evict, Pay, Delivery, dispatch_webhook, _deliver_once,
       api_public_checkout_recheck, api_developer_charge_recheck, watcher
  <1>5. ASSUME NEW j \in Job, JobStep(j) PROVE seen' = seen
    BY <1>5 DEF JobStep, precheck, load, partial, claim, complete, watcher
  <1> QED  BY <1>1, <1>2, <1>3, <1>4, <1>5 DEF Next

\* As long as nothing excuses it, the watcher goes on looking at the vault.
LEMMA WatchedStays ==
  ASSUME IInv, Tasks, [Next]_vars, NEW t \in Tx, NEW v \in Vault,
         Watched(t, v), ~Excused(t, v)
  PROVE  Watched(t, v)' \/ Excused(t, v)'
  <1>1. Required[v] \in Nat \ {0} /\ chain[t].value \in Nat
    BY ChargeAssumption DEF IInv, Shape, TypeOK, Transactions
  <1>2. Paid(t)
    BY <1>1 DEF Watched, Covers, Paid, VaultOf
  <1>3. chain'[t] = chain[t]
    BY <1>2, PaymentStays
  <1>4. running /\ watch[v] # NotWatched
    BY DEF Excused, Tasks
  <1>5. watch'[v] = NotWatched \/ watch'[v].net = watch[v].net
    BY <1>4, NetworkStays
  <1> QED  BY <1>3, <1>5 DEF Watched, Covers, VaultOf, Excused

\* One step of the watcher's task, from the look that starts it to the claim.
LEMMA TaskAdvances ==
  ASSUME IInv, Tasks, [Next]_vars, NEW t \in Tx, NEW v \in Vault,
         Watched(t, v), ~Excused(t, v), processed[t] = "none", JobStep(t)
  PROVE  /\ at(t, "precheck") => at(t, "load")'
         /\ at(t, "load") => at(t, "claim")'
         /\ at(t, "claim") => processed'[t] = "full"
  <1>1. job \in [Job -> Jobs] /\ t \in Job /\ job[t].pc # "idle" /\ job[t].tx = t
    BY StepEffect DEF IInv, Shape, TypeOK, Job, Tasks, at
  <1>2. ASSUME at(t, "precheck") PROVE at(t, "load")'
    <2>1. precheck(t)
      BY <1>2 DEF JobStep, precheck, load, partial, claim, complete, at
    <2>2. Goto(t, "load")
      BY <1>1, <2>1 DEF precheck, is_tx_processed
    <2> QED  BY <1>1, <2>2, GotoEffect DEF at
  <1>3. ASSUME at(t, "load") PROVE at(t, "claim")'
    <2>1. load(t)
      BY <1>3 DEF JobStep, precheck, load, partial, claim, complete, at
    <2>2. Owner[v] \in get_platform_charge_by_vault(VaultOf(t)) /\ Covers(t)
      BY ChargeAssumption DEF Watched, Excused, get_platform_charge_by_vault
    <2>3. PICK c \in get_platform_charge_by_vault(VaultOf(t)) :
            job' = [job EXCEPT ![t].pc = IF Covers(t) THEN "claim" ELSE "partial",
                               ![t].charge = c]
      BY <1>1, <2>1, <2>2 DEF load
    <2>4. job' = [job EXCEPT ![t] = [job[t] EXCEPT !.pc = "claim", !.charge = c]]
      BY <2>2, <2>3
    <2> QED  BY <1>1, <2>4 DEF Jobs, at
  <1>4. ASSUME at(t, "claim") PROVE processed'[t] = "full"
    <2>1. claim(t)
      BY <1>4 DEF JobStep, precheck, load, partial, claim, complete, at
    <2> QED  BY <1>1, <2>1 DEF claim, mark_tx_processed, IInv, Shape, TypeOK
  <1> QED  BY <1>2, <1>3, <1>4

\* What any step may do to a payment at one of the stages.
LEMMA StageStays ==
  ASSUME IInv, Tasks, [Next]_vars, NEW t \in Tx, NEW v \in Vault, ~Excused(t, v)
  PROVE  /\ Unseen(t, v) =>
              \/ (Unseen(t, v)' /\ ~poll_vaults_inprocess(t))
              \/ Reached(t, v, "precheck")' \/ Claimed(t, v)' \/ Excused(t, v)'
         /\ \A pc \in {"precheck", "load", "claim"} : Reached(t, v, pc) =>
              \/ (Reached(t, v, pc)' /\ ~JobStep(t))
              \/ Claimed(t, v)' \/ Excused(t, v)'
              \/ (pc = "precheck" /\ Reached(t, v, "load")')
              \/ (pc = "load" /\ Reached(t, v, "claim")')
         /\ Claimed(t, v) => Claimed(t, v)' \/ Excused(t, v)'
  <1>1. Watched(t, v) => Watched(t, v)' \/ Excused(t, v)'
    BY WatchedStays
  <1>2. Watched(t, v) => processed'[t] = processed[t] \/ processed'[t] = "full"
    BY RecordChange DEF Watched
  <1>3. t \in Job /\ job \in [Job -> Jobs]  BY DEF Job, IInv, Shape, TypeOK
  <1>4. stop => Excused(t, v)'
    BY ChargeAssumption DEF stop, Excused, IInv, Shape, TypeOK
  <1>5. poll_vaults_inprocess(t) => at(t, "precheck")'
    BY <1>3, StartEffect DEF poll_vaults_inprocess, at
  <1>6. ASSUME Unseen(t, v)
        PROVE  \/ (Unseen(t, v)' /\ ~poll_vaults_inprocess(t))
               \/ Reached(t, v, "precheck")' \/ Claimed(t, v)' \/ Excused(t, v)'
    <2>1. at(t, "idle")' \/ at(t, "precheck")' \/ Excused(t, v)'
      BY <1>3, <1>4, <1>6, JobChange, StepEffect DEF Unseen, at
    <2>2. t \notin seen' \/ poll_vaults_inprocess(t)
      BY <1>6, SeenChange DEF Unseen
    <2> QED  BY <1>1, <1>2, <1>5, <1>6, <2>1, <2>2 DEF Unseen, Reached, Claimed, at
  <1>7. ASSUME NEW pc \in {"precheck", "load", "claim"}, Reached(t, v, pc)
        PROVE  \/ (Reached(t, v, pc)' /\ ~JobStep(t))
               \/ Claimed(t, v)' \/ Excused(t, v)'
               \/ (pc = "precheck" /\ Reached(t, v, "load")')
               \/ (pc = "load" /\ Reached(t, v, "claim")')
    <2>1. CASE JobStep(t)
      BY <1>1, <1>2, <1>7, <2>1, TaskAdvances DEF Reached, Claimed
    <2>2. CASE ~JobStep(t)
      <3>1. job'[t] = job[t] \/ Excused(t, v)'
        BY <1>3, <1>4, <1>7, <2>2, JobChange DEF Reached, at
      <3> QED  BY <1>1, <1>2, <1>7, <2>2, <3>1 DEF Reached, Claimed, at
    <2> QED  BY <2>1, <2>2
  <1>8. Claimed(t, v) => Claimed(t, v)' \/ Excused(t, v)'
    BY <1>1, <1>2 DEF Claimed
  <1> QED  BY <1>6, <1>7, <1>8

\* Who claimed a payment completes it, unless the process stops.
LEMMA CompletingAdvances ==
  ASSUME IInv, [Next]_vars, NEW t \in Tx, NEW j \in Job, Completing(j, t)
  PROVE  \/ (Completing(j, t)' /\ ~JobStep(j))
         \/ completed'[t] > 0 \/ faults' > 0
  <1>1. completed \in [Tx -> Nat] /\ faults \in Nat
    BY ChargeAssumption DEF IInv, Shape, TypeOK
  <1>2. CASE JobStep(j)
    <2>1. complete(j)
      BY <1>2 DEF JobStep, precheck, load, partial, claim, complete, at, Completing
    <2> QED  BY <1>1, <2>1 DEF complete, Completing
  <1>3. CASE stop
    BY <1>1, <1>3 DEF stop
  <1>4. CASE ~JobStep(j) /\ ~stop
    BY <1>4, JobChange DEF Completing, at
  <1> QED  BY <1>2, <1>3, <1>4

\* A payment the watcher can see completes its charge.  The stages are those of the
\* watcher's task; whoever claims first, a recheck or the task, goes on to complete.
\* []Fairness says no more than Fairness, whose parts hold of every suffix of a behaviour.
THEOREM PaymentCompletes ==
  Spec /\ []Fairness /\ []PollIsEnabled /\ []JobIsEnabled => PaidIsCompleted
  <1>1. Fairness => \A t \in Tx : TxFairness(t)
    BY PTL DEF Fairness
  <1>2. Fairness => \A j \in Job : JobFairness(j)
    BY PTL DEF Fairness
  <1> SUFFICES ASSUME NEW t \in Tx, NEW v \in Vault
               PROVE  Spec /\ []Fairness /\ []PollIsEnabled /\ []JobIsEnabled =>
                        (Payable(t, v) ~> Excused(t, v))
    BY DEF PaidIsCompleted, Excused
  <1> DEFINE P == Payable(t, v)
             Q == Excused(t, v)
             S0 == Unseen(t, v)
             S(pc) == Reached(t, v, pc)
             C == Claimed(t, v)
             W(j) == Completing(j, t)
  <1>3. IInv /\ Tasks /\ P => Q \/ S0 \/ S("precheck") \/ S("load") \/ S("claim")
    <2> SUFFICES ASSUME IInv, Tasks, P, ~Q
                 PROVE  at(t, "idle") \/ at(t, "precheck") \/ at(t, "load") \/ at(t, "claim")
      BY DEF Payable, Unseen, Reached, Watched
    <2>1. t \in Job /\ job[t] \in Jobs  BY DEF Job, IInv, Shape, TypeOK
    <2>2. ~at(t, "complete") /\ ~at(t, "partial")
      BY <2>1 DEF Payable, Tasks, IInv, Claims, at
    <2> QED  BY <2>1, <2>2 DEF Jobs, at
  <1>4. IInv /\ Tasks /\ S0 /\ ~Q /\ [Next]_vars =>
          /\ S0' \/ S("precheck")' \/ C' \/ Q'
          /\ <<poll_vaults_inprocess(t)>>_vars => S("precheck")' \/ C' \/ Q'
    BY StageStays
  <1>5. IInv /\ Tasks /\ S("precheck") /\ ~Q /\ [Next]_vars =>
          /\ S("precheck")' \/ S("load")' \/ C' \/ Q'
          /\ <<JobStep(t)>>_vars => S("load")' \/ C' \/ Q'
    BY StageStays
  <1>6. IInv /\ Tasks /\ S("load") /\ ~Q /\ [Next]_vars =>
          /\ S("load")' \/ S("claim")' \/ C' \/ Q'
          /\ <<JobStep(t)>>_vars => S("claim")' \/ C' \/ Q'
    BY StageStays
  <1>7. IInv /\ Tasks /\ S("claim") /\ ~Q /\ [Next]_vars =>
          /\ S("claim")' \/ C' \/ Q'
          /\ <<JobStep(t)>>_vars => C' \/ Q'
    BY StageStays
  <1>8. IInv /\ Tasks /\ S0 /\ ~Q /\ PollIsEnabled => ENABLED <<poll_vaults_inprocess(t)>>_vars
    <2> SUFFICES ASSUME IInv, Tasks, S0, ~Q PROVE CanPoll(t)  BY DEF PollIsEnabled
    <2>1. Required[v] \in Nat \ {0} /\ chain[t].value \in Nat
      BY ChargeAssumption DEF IInv, Shape, TypeOK, Transactions
    <2>2. Paid(t)
      BY <2>1 DEF Unseen, Watched, Covers, Paid, VaultOf
    <2> QED  BY <2>2 DEF CanPoll, Unseen, Watched, Excused, Tasks, Job
  <1>9. JobIsEnabled /\ (S("precheck") \/ S("load") \/ S("claim")) => ENABLED <<JobStep(t)>>_vars
    <2>1. JobIsEnabled => StepIsEnabled(t)
      BY DEF JobIsEnabled, Job
    <2>2. S("precheck") \/ S("load") \/ S("claim") => ~at(t, "idle")
      BY DEF Reached, at
    <2> QED  BY <2>1, <2>2 DEF StepIsEnabled
  <1>10. IInv /\ C => Q \/ \E j \in Job : W(j)
    BY DEF IInv, ClaimedIsCompleted, Claimed, Excused, Completing
  <1>11. Fairness => TxFairness(t) /\ JobFairness(t)
    BY <1>1, <1>2 DEF Job
  <1>12. ASSUME []IInv, [][Next]_vars, []Fairness, []JobIsEnabled
         PROVE  (\E j \in Job : W(j)) ~> Q
    <2>1. ASSUME NEW j \in Job PROVE W(j) => <>Q
      <3>1. IInv /\ W(j) /\ [Next]_vars => (W(j)' \/ Q') /\ (<<JobStep(j)>>_vars => Q')
        BY CompletingAdvances DEF Excused
      <3>2. JobIsEnabled /\ W(j) => ENABLED <<JobStep(j)>>_vars
        BY DEF JobIsEnabled, StepIsEnabled, Completing, at
      <3>3. Fairness => JobFairness(j)
        BY <1>2
      <3> HIDE DEF W, Q
      <3> QED  BY <1>12, <3>1, <3>2, <3>3, PTL DEF JobFairness
    <2> HIDE DEF W, Q
    <2>2. (\E j \in Job : W(j)) => <>Q  BY <2>1
    <2> QED  BY <1>12, <2>2, PTL
  <1> HIDE DEF P, Q, S0, S, C, W
  <1>13. ASSUME []IInv, []Tasks, [][Next]_vars, []Fairness, []PollIsEnabled, []JobIsEnabled
         PROVE  P ~> Q
    <2>1. (\E j \in Job : W(j)) ~> Q  BY <1>12, <1>13, PTL
    <2> QED  BY <1>3, <1>4, <1>5, <1>6, <1>7, <1>8, <1>9, <1>10, <1>11, <1>13, <2>1, PTL
             DEF TxFairness, JobFairness
  <1>14. Spec /\ []Fairness /\ []PollIsEnabled /\ []JobIsEnabled => (P ~> Q)
    BY <1>13, Invariance, TasksInvariant, PTL DEF Spec
  <1> QED  BY <1>14 DEF P, Q

-----------------------------------------------------------------------------
(* No charge stays pending.                                                *)

\* A row that was never completed has no payment.
OpenUnpaid == \A c \in Charge : charge[c].status \in {"none", "pending"} => charge[c].tx = NoTx

Pending(c, ages) == charge[c].status = "pending" /\ age[c] \in ages

\* The clock, the maintenance job and the start, where they have something to do.
ClockIsEnabled ==
    /\ (\E c \in Charge : Exists(c) /\ age[c] < 2) => ENABLED <<Tick>>_vars
    /\ (running /\ \E c \in Charge : Expirable(c)) => ENABLED <<_expire_stale_charges_inprocess>>_vars
    /\ ~running => ENABLED <<start>>_vars

\* The process stops finitely often: the bound MaxFaults of the model.
StopsEnd == <>[][~stop]_vars

\* What a step makes of a row: a request opens it, a step that is not an opening takes
\* it out of the two statuses or leaves its payment alone.
LEMMA RowChange ==
  ASSUME IInv, [Next]_vars, NEW c \in Charge
  PROVE  \/ charge'[c].status \notin {"none", "pending"}
         \/ /\ charge'[c].tx = charge[c].tx
            /\ charge'[c].status = charge[c].status \/ charge[c].status = "none"
  <1>1. charge \in [Charge -> Rows]  BY DEF IInv, Shape, TypeOK
  <1>2. ASSUME NEW d \in Charge, NEW s \in {"pending", "expired", "completed"},
               charge' = [charge EXCEPT ![d].status = s],
               s = "pending" => charge[d].status = "none"
        PROVE  \/ charge'[c].status \notin {"none", "pending"}
               \/ /\ charge'[c].tx = charge[c].tx
                  /\ charge'[c].status = charge[c].status \/ charge[c].status = "none"
    <2>1. charge' = [charge EXCEPT ![d] = [charge[d] EXCEPT !.status = s]]  BY <1>2
    <2> QED  BY <1>1, <1>2, <2>1 DEF Rows
  <1>3. CASE charge' = charge
    BY <1>3
  <1>4. ASSUME NEW r \in Request,
               Requests(r) \/ \E d \in Charge : create_charge(r, d) \/ api_sandbox_create_charge(r, d)
        PROVE  \/ charge'[c].status \notin {"none", "pending"}
               \/ /\ charge'[c].tx = charge[c].tx
                  /\ charge'[c].status = charge[c].status \/ charge[c].status = "none"
    <2>1. ASSUME NEW v \in Vault, generate_platform_payment_request(r, v) PROVE charge' = charge
      BY <2>1 DEF generate_platform_payment_request, database
    <2>2. ASSUME NEW d \in Charge, create_charge(r, d) PROVE charge' = charge
      BY <2>2 DEF create_charge, database
    <2>3. ASSUME NEW d \in Charge, api_sandbox_create_charge(r, d)
          PROVE  charge' = charge \/ (charge[d].status = "none" /\
                                      charge' = [charge EXCEPT ![d].status = "pending"])
      BY <2>3 DEF api_sandbox_create_charge
    <2>4. CASE insert_charge(r)
      <3>1. request[r].charge \in Charge  BY <2>4 DEF insert_charge, IInv, Shape, Requested
      <3> QED  BY <1>2, <1>3, <2>4, <3>1 DEF insert_charge
    <2>5. CASE generate_fails(r)
      BY <1>3, <2>5 DEF generate_fails, database
    <2>6. CASE store_link(r)
      <3> DEFINE d == request[r].charge
                 v == request[r].vault
      <3>1. CASE charge' = [charge EXCEPT ![d].vault = v]
        <4>1. charge' = [charge EXCEPT ![d] = [charge[d] EXCEPT !.vault = v]]  BY <3>1
        <4>2. charge'[c].tx = charge[c].tx /\ charge'[c].status = charge[c].status
          BY <1>1, <4>1 DEF Rows
        <4> QED  BY <4>2
      <3> QED  BY <1>3, <2>6, <3>1 DEF store_link
    <2>7. CASE \E d \in Charge : api_sandbox_create_charge(r, d)
      BY <1>2, <1>3, <2>3, <2>7
    <2>8. CASE \E v \in Vault : generate_platform_payment_request(r, v)
      BY <1>3, <2>1, <2>8
    <2> QED  BY <1>3, <1>4, <2>2, <2>4, <2>5, <2>6, <2>7, <2>8 DEF Requests
  <1>5. CASE _expire_stale_charges_inprocess
    <2>1. charge'[c] = IF Expirable(c) THEN [charge[c] EXCEPT !.status = "expired"] ELSE charge[c]
      BY <1>5 DEF _expire_stale_charges_inprocess
    <2> QED  BY <1>1, <2>1 DEF Rows
  <1>6. ASSUME NEW d \in Charge, mark_expired(d)
        PROVE  \/ charge'[c].status \notin {"none", "pending"}
               \/ /\ charge'[c].tx = charge[c].tx
                  /\ charge'[c].status = charge[c].status \/ charge[c].status = "none"
    BY <1>2, <1>3, <1>6 DEF mark_expired
  <1>7. CASE delete_platform
    BY <1>7 DEF delete_platform, NoRow
  <1>8. CASE \/ Tick \/ stop \/ start \/ UNCHANGED vars
             \/ \E d \in Charge : api_public_checkout(d) \/ get_charge(d)
             \/ \E t \in Tx, v \in Vault : \E a \in Amount[t] : Pay(t, v, a)
    BY <1>3, <1>8 DEF Tick, stop, start, vars, api_public_checkout, get_charge, Pay, database
  <1>9. CASE \/ \E v \in Vault : evict(v)
             \/ \E u \in Tx : \/ poll_vaults_inprocess(u) \/ Delivery(u)
                              \/ \E j \in Rechecker : \/ api_public_checkout_recheck(j, u)
                                                      \/ api_developer_charge_recheck(j, u)
    BY <1>3, <1>9 DEF evict, Delivery, dispatch_webhook, _deliver_once, poll_vaults_inprocess,
       api_public_checkout_recheck, api_developer_charge_recheck, database
  <1>10. ASSUME NEW j \in Job, JobStep(j)
         PROVE  \/ charge'[c].status \notin {"none", "pending"}
                \/ /\ charge'[c].tx = charge[c].tx
                   /\ charge'[c].status = charge[c].status \/ charge[c].status = "none"
    <2>1. CASE precheck(j) \/ load(j) \/ partial(j) \/ claim(j)
      BY <1>3, <2>1 DEF precheck, load, partial, claim, database
    <2>2. CASE complete(j)
      <3> DEFINE d == job[j].charge
                 t == job[j].tx
      <3>1. CASE charge' = [charge EXCEPT ![d].status = "completed", ![d].tx = t]
        <4>1. charge' = [charge EXCEPT ![d] = [charge[d] EXCEPT !.status = "completed", !.tx = t]]
          BY <3>1
        <4>2. CASE c = d
          <5>1. charge'[c].status = "completed"  BY <1>1, <4>1, <4>2 DEF Rows
          <5> QED  BY <5>1
        <4>3. CASE c # d
          <5>1. charge'[c] = charge[c]  BY <1>1, <4>1, <4>3
          <5> QED  BY <5>1
        <4> QED  BY <4>2, <4>3
      <3> QED  BY <1>3, <2>2, <3>1 DEF complete
    <2> QED  BY <1>10, <2>1, <2>2 DEF JobStep
  <1>11. CASE \E r \in Request :
                Requests(r) \/ \E d \in Charge : create_charge(r, d) \/ api_sandbox_create_charge(r, d)
    BY <1>4, <1>11
  <1>12. CASE \E j \in Job : JobStep(j)
    BY <1>10, <1>12
  <1> QED  BY <1>5, <1>6, <1>7, <1>8, <1>9, <1>11, <1>12 DEF Next

\* Time does not go back; only a stop and a start change whether the process runs.
LEMMA ClockChange ==
  ASSUME IInv, [Next]_vars
  PROVE  (age' = age \/ Tick) /\ (running' = running \/ stop \/ start)
  <1>1. ASSUME NEW r \in Request,
               Requests(r) \/ \E c \in Charge : create_charge(r, c) \/ api_sandbox_create_charge(r, c)
        PROVE  age' = age /\ running' = running
    <2>1. ASSUME NEW v \in Vault, generate_platform_payment_request(r, v)
          PROVE  age' = age /\ running' = running
      BY <2>1 DEF generate_platform_payment_request
    <2>2. CASE insert_charge(r) \/ generate_fails(r) \/ store_link(r)
      BY <2>2 DEF insert_charge, generate_fails, store_link
    <2>3. ASSUME NEW c \in Charge, create_charge(r, c) \/ api_sandbox_create_charge(r, c)
          PROVE  age' = age /\ running' = running
      BY <2>3 DEF create_charge, api_sandbox_create_charge
    <2> QED  BY <1>1, <2>1, <2>2, <2>3 DEF Requests
  <1>2. CASE \/ Tick \/ _expire_stale_charges_inprocess \/ delete_platform \/ stop \/ start
             \/ \E c \in Charge : api_public_checkout(c) \/ get_charge(c) \/ mark_expired(c)
             \/ UNCHANGED vars
    BY <1>2 DEF Tick, _expire_stale_charges_inprocess, delete_platform, stop, start, vars,
       api_public_checkout, get_charge, mark_expired
  <1>3. CASE \/ \E v \in Vault : evict(v)
             \/ \E t \in Tx, v \in Vault : \E a \in Amount[t] : Pay(t, v, a)
             \/ \E u \in Tx : \/ poll_vaults_inprocess(u) \/ Delivery(u)
                              \/ \E j \in Rechecker : \/ api_public_checkout_recheck(j, u)
                                                      \/ api_developer_charge_recheck(j, u)
    BY <1>3 DEF evict, Pay, Delivery, dispatch_webhook, _deliver_once, poll_vaults_inprocess,
       api_public_checkout_recheck, api_developer_charge_recheck
  <1>4. ASSUME NEW j \in Job, JobStep(j) PROVE age' = age /\ running' = running
    BY <1>4 DEF JobStep, precheck, load, partial, claim, complete
  <1> QED  BY <1>1, <1>2, <1>3, <1>4 DEF Next

LEMMA OpenUnpaidInvariant == Spec => []OpenUnpaid
  <1>1. Init => OpenUnpaid  BY DEF Init, OpenUnpaid, NoRow
  <1>2. IInv /\ OpenUnpaid /\ [Next]_vars => OpenUnpaid'
    BY RowChange DEF OpenUnpaid
  <1> QED  BY <1>1, <1>2, Invariance, PTL DEF Spec

\* No charge stays pending, not even one whose link was never made: half an hour and five
\* minutes later the maintenance job expires what nobody paid.
THEOREM PendingIsOver == FairSpec /\ []ClockIsEnabled /\ StopsEnd => PendingEnds
  <1> SUFFICES ASSUME NEW c \in Charge
               PROVE  FairSpec /\ []ClockIsEnabled /\ StopsEnd =>
                        (charge[c].status = "pending" ~> charge[c].status # "pending")
    BY DEF PendingEnds
  <1> DEFINE P == charge[c].status = "pending"
             Q == charge[c].status # "pending"
             A(ages) == Pending(c, ages)
             E == _expire_stale_charges_inprocess
  <1>1. Fairness => WF_vars(Tick) /\ WF_vars(_expire_stale_charges_inprocess) /\ WF_vars(start)
    BY PTL DEF Fairness
  <1>2. IInv /\ P => A({0}) \/ A({1}) \/ A({2})
    BY DEF IInv, Shape, TypeOK, Pending
  <1>3. IInv /\ [Next]_vars /\ P' /\ P =>
          /\ A({0}) => A({0})' \/ A({1})'
          /\ A({1}) => A({1})' \/ A({2})'
          /\ A({2}) => A({2})'
          /\ <<Tick>>_vars => (A({0}) => A({1})') /\ (A({1}) => A({2})')
    <2> SUFFICES ASSUME IInv, [Next]_vars, P, P'
                 PROVE  /\ age[c] = 0 => age'[c] = 0 \/ age'[c] = 1
                        /\ age[c] = 1 => age'[c] = 1 \/ age'[c] = 2
                        /\ age[c] = 2 => age'[c] = 2
                        /\ Tick => (age[c] = 0 => age'[c] = 1) /\ (age[c] = 1 => age'[c] = 2)
      BY DEF Pending
    <2>1. Tick => age'[c] = IF age[c] < 2 THEN age[c] + 1 ELSE age[c]
      BY DEF Tick, Exists
    <2> QED  BY <2>1, ClockChange
  <1>4. ClockIsEnabled /\ (A({0}) \/ A({1})) => ENABLED <<Tick>>_vars
    <2>1. A({0}) \/ A({1}) => \E d \in Charge : Exists(d) /\ age[d] < 2
      BY DEF Pending, Exists
    <2> QED  BY <2>1 DEF ClockIsEnabled
  <1>5. OpenUnpaid /\ ClockIsEnabled /\ A({2}) /\ running => ENABLED <<E>>_vars
    <2>1. OpenUnpaid /\ A({2}) => \E d \in Charge : Expirable(d)
      BY DEF Pending, Expirable, OpenUnpaid
    <2> QED  BY <2>1 DEF ClockIsEnabled
  <1>6. IInv /\ OpenUnpaid /\ A({2}) /\ <<E>>_vars => ~P'
    <2> SUFFICES ASSUME IInv, OpenUnpaid, A({2}), E PROVE ~P'  OBVIOUS
    <2>1. charge[c] \in Rows /\ charge'[c] = [charge[c] EXCEPT !.status = "expired"]
      BY DEF E, _expire_stale_charges_inprocess, Pending, Expirable, OpenUnpaid, IInv, Shape, TypeOK
    <2> QED  BY <2>1 DEF Rows
  <1>7. ClockIsEnabled /\ ~running => ENABLED <<start>>_vars
    BY DEF ClockIsEnabled
  <1>8. IInv /\ [Next]_vars /\ [~stop]_vars /\ running => running'
    <2>1. start => running'  BY DEF start
    <2> QED  BY <2>1, ClockChange DEF vars
  <1>9. <<start>>_vars => running'
    BY DEF start
  <1>10. ~P => Q
    OBVIOUS
  <1> HIDE DEF P, Q, A, E
  <1>11. FairSpec /\ []ClockIsEnabled /\ StopsEnd => (P ~> Q)
    BY <1>10, <1>1, <1>2, <1>3, <1>4, <1>5, <1>6, <1>7, <1>8, <1>9, Invariance, OpenUnpaidInvariant, PTL
       DEF FairSpec, Spec, StopsEnd, E
  <1> QED  BY <1>11 DEF P, Q
=============================================================================
