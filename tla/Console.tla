------------------------------ MODULE Console ------------------------------
(***************************************************************************)
(* The console of a platform's developer and the API keys it manages: the  *)
(* secret key of each mode, the cache in which authenticate_platform keeps *)
(* the rows it has read, the webhook endpoint and its secret, and the      *)
(* number of platforms an owner may have.  Every request is a coroutine of *)
(* the one server process; what it reads and what it writes are two steps, *)
(* and what it does to the cache after its transaction is a third.         *)
(***************************************************************************)
EXTENDS Naturals, FiniteSets

CONSTANTS
    Request,        \* coroutines
    Key, Secret,    \* API keys and webhook secrets that may be drawn
    NoKey,          \* SQL NULL
    MaxPlatforms,   \* platforms an owner may have
    MaxAge          \* bound: minutes counted since a key was retired

\* What the constants are assumed to be: the modules that use this one assume it.
\* The platform that is modelled is one of its owner's, and there is room for
\* another.
ConsoleAssumption ==
    /\ IsFiniteSet(Request) /\ NoKey \notin Key
    /\ MaxPlatforms \in Nat \ {0, 1} /\ MaxAge \in Nat \ {0}

Mode == {"test", "live"}

VARIABLES
    platform,   \* the row of the platform: "active", "revoked" or "deleted"
    secret,     \* secret_key_test and secret_key_live_hash
    payout,     \* network of wallet_address: "none", "mainnet" or "testnet"
    cache,      \* auth_cache: the row as it was read for a key
    age,        \* 0, or 1 + the minutes since the key was taken back
    hooks,      \* secrets of the active rows of webhook_endpoints
    drawn,      \* webhook secrets drawn so far
    owned,      \* active platforms of the owner
    doing       \* what each coroutine does

keys  == <<platform, secret, cache, age>>
hook  == <<hooks, drawn>>
vars  == <<keys, payout, hook, owned, doing>>

Quiet == [at |-> "idle", key |-> NoKey, mode |-> "test", status |-> "active",
          secrets |-> {}, live |-> FALSE]

NotCached == [status |-> "absent", mode |-> "test", fresh |-> FALSE]

\* create_platform draws a test key; live keys are opt-in.
Init ==
    /\ platform = "active" /\ payout = "none"
    /\ \E k \in Key : secret = [m \in Mode |-> IF m = "test" THEN k ELSE NoKey]
    /\ cache = [k \in Key |-> NotCached]
    /\ age = [k \in Key |-> 0]
    /\ hooks = {} /\ drawn = {}
    /\ owned = MaxPlatforms - 1
    /\ doing = [r \in Request |-> Quiet]

busy(r, p) == doing[r].at = p
Do(r, q) == doing' = [doing EXCEPT ![r] = q]
Rest(r) == Do(r, Quiet)

\* os.urandom: a key that is not in use and never was.
Unused(k) == /\ age[k] = 0 /\ \A m \in Mode : secret[m] # k
             /\ \A r \in Request : doing[r].key # k

\* The keys that were the platform's and no longer open it.
TakeBack(ks) == age' = [k \in Key |-> IF k \in ks /\ age[k] = 0 THEN 1 ELSE age[k]]

\* Rows that are revoked or gone are not among get_user_platforms.
verify_platform_ownership(r) == busy(r, "idle") /\ platform = "active"

----------------------------------------------------------------------------
(* authenticate_platform.                                                  *)

\* A key that is not in the cache is looked up; one that is, is believed.
lookup(r) ==
    /\ busy(r, "idle") /\ platform # "deleted"
    /\ \E m \in Mode, k \in Key :
          /\ secret[m] = k /\ cache[k].status = "absent"
          /\ Do(r, [Quiet EXCEPT !.at = "cache", !.key = k, !.mode = m, !.status = platform])
    /\ UNCHANGED <<keys, payout, hook, owned>>

\* The row goes into the cache as it was when it was read, revoked or not.
cache_row(r) ==
    LET q == doing[r] IN
    /\ busy(r, "cache")
    /\ cache' = [cache EXCEPT ![q.key] =
                    [status |-> q.status, mode |-> q.mode, fresh |-> TRUE]]
    /\ Rest(r)
    /\ UNCHANGED <<platform, secret, age, payout, hook, owned>>

\* Mutant of Aged: an entry is kept for as long as it is asked for.
Aged_never(entry) == entry

\* TTLCache: an entry lives for a minute.
Aged(entry) == IF entry.fresh THEN [entry EXCEPT !.fresh = FALSE] ELSE NotCached

\* A minute passes, longer than any request takes.
Minute ==
    /\ \A r \in Request : busy(r, "idle")
    /\ \E k \in Key : cache[k].status # "absent" \/ age[k] \in 1 .. MaxAge - 1
    /\ cache' = [k \in Key |-> Aged(cache[k])]
    /\ age' = [k \in Key |-> IF age[k] \in 1 .. MaxAge - 1 THEN age[k] + 1 ELSE age[k]]
    /\ UNCHANGED <<platform, secret, payout, hook, owned, doing>>

----------------------------------------------------------------------------
(* The keys.                                                               *)

\* "Ensure they aren't already generated."
generate_live_keys(r) ==
    /\ verify_platform_ownership(r)
    /\ secret["live"] = NoKey
    /\ \E k \in Key : Unused(k) /\ Do(r, [Quiet EXCEPT !.at = "generate", !.key = k])
    /\ UNCHANGED <<keys, payout, hook, owned>>

\* UPDATE platforms ... WHERE id: whoever wrote first has a key that is not
\* stored any more.  A row that is gone fails the audit line's foreign key.
store_live_keys(r) ==
    /\ busy(r, "generate")
    /\ IF platform = "deleted"
          THEN UNCHANGED <<secret, age>>
          ELSE /\ secret' = [secret EXCEPT !["live"] = doing[r].key]
               /\ TakeBack({secret["live"]})
    /\ Rest(r)
    /\ UNCHANGED <<platform, cache, payout, hook, owned>>

\* Mutant of Rotated: the UPDATE names both columns.
Rotated_both(m, k) == [n \in Mode |-> IF n = m THEN k ELSE NoKey]

Rotated(m, k) == [secret EXCEPT ![m] = k]

regenerate_platform_keys(r) ==
    /\ verify_platform_ownership(r)
    /\ \E m \in Mode, k \in Key :
          /\ secret[m] # NoKey /\ Unused(k)
          /\ secret' = Rotated(m, k)
          /\ TakeBack({secret[m]})
          /\ Do(r, [Quiet EXCEPT !.at = "pop", !.mode = m])
    /\ UNCHANGED <<platform, cache, payout, hook, owned>>

\* The entries of the mode leave the cache, after the transaction.
pop_stale(r) ==
    /\ busy(r, "pop")
    /\ cache' = [k \in Key |-> IF cache[k].mode = doing[r].mode THEN NotCached ELSE cache[k]]
    /\ Rest(r)
    /\ UNCHANGED <<platform, secret, age, payout, hook, owned>>

\* The operator revokes the platform; the cache is left as it is.
revoke_platform ==
    /\ platform = "active"
    /\ platform' = "revoked" /\ owned' = owned - 1
    /\ TakeBack({secret[m] : m \in Mode})
    /\ UNCHANGED <<secret, cache, payout, hook, doing>>

\* The owner deletes the platform, or the operator does.
api_developer_delete_platform(r) ==
    /\ busy(r, "idle") /\ platform # "deleted"
    /\ platform' = "deleted"
    /\ owned' = IF platform = "active" THEN owned - 1 ELSE owned
    /\ TakeBack({secret[m] : m \in Mode})
    /\ hooks' = {}
    /\ Do(r, [Quiet EXCEPT !.at = "pop_all"])
    /\ UNCHANGED <<secret, cache, payout, drawn>>

pop_all(r) ==
    /\ busy(r, "pop_all")
    /\ cache' = [k \in Key |-> NotCached]
    /\ Rest(r)
    /\ UNCHANGED <<platform, secret, age, payout, hook, owned>>

----------------------------------------------------------------------------
(* The webhook endpoint.                                                   *)

\* An endpoint that exists gets the URL and keeps its secret: nothing changes
\* here.  Without one, the rows there are, are deactivated.
set_platform_webhook(r) ==
    /\ verify_platform_ownership(r) /\ hooks = {}
    /\ Do(r, [Quiet EXCEPT !.at = "hook"])
    /\ UNCHANGED <<keys, payout, hook, owned>>

deactivate(r) ==
    /\ busy(r, "hook")
    /\ Do(r, [Quiet EXCEPT !.at = "insert", !.secrets = hooks])
    /\ UNCHANGED <<keys, payout, hook, owned>>

\* The rows that the request deactivates are locked until it commits.
RowLocked == \E r \in Request : busy(r, "insert") /\ doing[r].secrets # {}

\* Mutant of Remaining: the INSERT yields to the row that was deactivated.
Remaining_half(r, h) ==
    IF doing[r].secrets = {} THEN hooks \cup {h} ELSE hooks \ doing[r].secrets

Remaining(r, h) == (hooks \ doing[r].secrets) \cup {h}

insert_endpoint(r) ==
    /\ busy(r, "insert")
    /\ \/ platform = "deleted" /\ UNCHANGED hook
       \/ /\ platform # "deleted"
          /\ \E h \in Secret \ drawn : hooks' = Remaining(r, h) /\ drawn' = drawn \cup {h}
    /\ Rest(r)
    /\ UNCHANGED <<keys, payout, owned>>

\* The UPDATE gives every active row one new secret.  db.execute returns
\* nothing, so that the check for "UPDATE 0" never holds.
rotate_webhook_secret ==
    /\ platform = "active" /\ ~RowLocked
    /\ \E h \in Secret \ drawn :
          /\ hooks' = IF hooks = {} THEN {} ELSE {h}
          /\ drawn' = drawn \cup {h}
    /\ UNCHANGED <<keys, payout, owned, doing>>

----------------------------------------------------------------------------
(* The payout wallet and the number of platforms.                          *)

\* The network is checked against the row that ownership was read from.
api_developer_update_wallet(r) ==
    /\ verify_platform_ownership(r)
    /\ Do(r, [Quiet EXCEPT !.at = "wallet", !.live = secret["live"] # NoKey])
    /\ UNCHANGED <<keys, payout, hook, owned>>

update_platform_wallet(r) ==
    /\ busy(r, "wallet")
    /\ \E net \in {"mainnet", "testnet"} :
          /\ doing[r].live => net = "mainnet"
          /\ payout' = IF platform = "deleted" THEN payout ELSE net
    /\ Rest(r)
    /\ UNCHANGED <<keys, hook, owned>>

Allowed == owned < MaxPlatforms

api_developer_platforms_create(r) ==
    /\ busy(r, "idle") /\ Allowed
    /\ Do(r, [Quiet EXCEPT !.at = "create"])
    /\ UNCHANGED <<keys, payout, hook, owned>>

create_platform(r) ==
    /\ busy(r, "create")
    /\ owned' = owned + 1
    /\ Rest(r)
    /\ UNCHANGED <<keys, payout, hook>>

Authentication == Minute \/ \E r \in Request : lookup(r) \/ cache_row(r)

Keys ==
    \/ revoke_platform
    \/ \E r \in Request :
          \/ generate_live_keys(r) \/ store_live_keys(r)
          \/ regenerate_platform_keys(r) \/ pop_stale(r)
          \/ api_developer_delete_platform(r) \/ pop_all(r)

Endpoint ==
    \/ rotate_webhook_secret
    \/ \E r \in Request :
          set_platform_webhook(r) \/ deactivate(r) \/ insert_endpoint(r)

Rows ==
    \E r \in Request :
        \/ api_developer_update_wallet(r) \/ update_platform_wallet(r)
        \/ api_developer_platforms_create(r) \/ create_platform(r)

Next == Authentication \/ Keys \/ Endpoint \/ Rows

Spec == Init /\ [][Next]_vars

----------------------------------------------------------------------------
(* Properties.                                                             *)

Entries == [status : {"absent", "active", "revoked"}, mode : Mode, fresh : BOOLEAN]

Coroutines == [at : {"idle", "cache", "generate", "pop", "pop_all", "hook", "insert",
                 "wallet", "create"},
           key : Key \cup {NoKey}, mode : Mode, status : {"active", "revoked"},
           secrets : SUBSET Secret, live : BOOLEAN]

TypeOK ==
    /\ platform \in {"active", "revoked", "deleted"}
    /\ secret \in [Mode -> Key \cup {NoKey}] /\ secret["test"] \in Key
    /\ payout \in {"none", "mainnet", "testnet"}
    /\ cache \in [Key -> Entries]
    /\ age \in [Key -> 0 .. MaxAge]
    /\ hooks \subseteq drawn /\ drawn \subseteq Secret
    /\ owned \in Nat
    /\ doing \in [Request -> Coroutines]

\* A key that was rotated, overwritten, revoked or deleted is forgotten: whatever
\* requests were under way when it was taken back, two minutes later no cached
\* row lets it in.
RetiredIsForgotten ==
    \A k \in Key : age[k] > 2 => cache[k].status # "active"

\* A platform that has an active endpoint has one until it is deleted: no request
\* leaves it without, whoever set it up at the same time.
EndpointIsKept == [][hooks # {} /\ platform' # "deleted" => hooks' # {}]_vars
=============================================================================
