--------------------------- MODULE ConsoleClaims ---------------------------
(***************************************************************************)
(* What the developer documentation, docstrings and comments say of keys,  *)
(* endpoints and platforms, and requests at the same time do not keep.     *)
(***************************************************************************)
EXTENDS Console

AtRest == \A r \in Request : busy(r, "idle")

\* src/docs/developer-integration.md:224 "The old key is **immediately
\* invalidated**": a request that read the row before the rotation caches it after
\* the entries were removed.
RotatedIsRefused ==
    AtRest /\ platform = "active" =>
        \A k \in Key : age[k] > 0 => cache[k].status # "active"

\* src/renewise/services/platform.py:162 "Revokes a platform's keys, preventing new
\* charges from being created": rows in the cache stay as they were read.
RevokedIsRefused ==
    platform = "revoked" /\ AtRest => \A k \in Key : cache[k].status # "active"

\* src/renewise/services/platform.py:92 "Generates live keys for a platform for the
\* first time": of two requests at once both return keys and one pair is dead.
FirstTimeOnly ==
    [][\A r \in Request : store_live_keys(r) => secret["live"] = NoKey \/ platform = "deleted"]_vars

\* src/renewise/services/platform.py:457 "If an endpoint already exists: updates the
\* URL only": two first requests leave two active endpoints.
OneEndpoint == Cardinality(hooks) <= 1

\* src/renewise/services/platform.py:512 "No active webhook endpoint found for this
\* platform" is never raised: a secret is returned that signs nothing.
RotatedSecretSigns == [][rotate_webhook_secret => hooks # {}]_vars

\* src/renewise/miniapp/server.py:1545 "Maximum of 3 platforms allowed per user."
MaximumOfPlatforms == owned <= MaxPlatforms

\* src/renewise/miniapp/server.py:1605 "Live platform (live keys generated): enforce
\* mainnet-only wallet": the wallet may be set before the keys are generated.
LivePaysOnMainnet == secret["live"] # NoKey => payout # "testnet"
=============================================================================
