---------------------------- MODULE OAuthTokens ----------------------------
(***************************************************************************)
(* The OpenAI sign-in (auth/openai): a credential source made from the     *)
(* stored tokens or by asking the user, its callers who want an API key,   *)
(* and the token store.  A key that is about to expire is renewed under    *)
(* the source's lock with the refresh token; the server, which is          *)
(* external, may hand out a new refresh token and refuse the old one.      *)
(***************************************************************************)
EXTENDS Naturals

CONSTANTS Sources,      \* processes that share one token store
          KeyCallers,   \* tasks of a source that ask for the key
          TokenStores,  \* kinds of store: "File", "Keychain" or "None"
          NoTokens, Torn,
          RefreshSkew, Lifetime,
          MaxTokenTime, MaxGrants, MaxTroubled

ASSUME SkewAssumption == RefreshSkew \in Nat /\ Lifetime \in Nat /\ RefreshSkew < Lifetime

ASSUME HolderAssumption == NoTokens \notin KeyCallers

VARIABLES kind,       \* selected_store_kind
          stored,     \* what the store holds
          source,     \* each source: its stage, tokens and who holds the lock
          keyUser,     \* each caller of each source
          grants,     \* the server: how many grants it made
          honoured,   \* the refresh tokens the server takes
          presented,  \* history: refresh tokens each source sent and whether the attempt failed
          instant, troubled

oauthVars == <<kind, stored, source, keyUser, grants, honoured, presented, instant, troubled>>

Tokens == [grant : 1..MaxGrants, api_key : BOOLEAN, expires_at : 0..MaxTokenTime + Lifetime]
KeyUsers == Sources \X KeyCallers
AtRest == [pc |-> "idle", key |-> NoTokens]
Granted(n, api_key) == [grant |-> n, api_key |-> api_key, expires_at |-> instant + Lifetime]

OAuthTypeOK ==
    /\ kind \in {"File", "Keychain", "None"}
    /\ stored \in Tokens \union {NoTokens, Torn}
    /\ source \in [Sources -> [stage : {"off", "asking", "coded", "saving", "on", "failed"},
                               tokens : Tokens \union {NoTokens}, lock : KeyCallers \union {NoTokens}]]
    /\ keyUser \in [KeyUsers -> [pc : {"idle", "waiting", "refreshing", "saving", "writing"},
                               key : Tokens \union {NoTokens}]]
    /\ honoured \subseteq 1..MaxGrants /\ grants \in 0..MaxGrants

OAuthInit ==
    /\ kind \in TokenStores /\ stored = NoTokens
    /\ source = [s \in Sources |-> [stage |-> "off", tokens |-> NoTokens, lock |-> NoTokens]]
    /\ keyUser = [c \in KeyUsers |-> AtRest]
    /\ grants = 0 /\ honoured = {} /\ presented = [s \in Sources |-> {}]
    /\ instant = 0 /\ troubled = 0

Trouble == troubled < MaxTroubled /\ troubled' = troubled + 1

SourceIs(s, stage, tokens, lock) ==
    source' = [source EXCEPT ![s] = [stage |-> stage, tokens |-> tokens, lock |-> lock]]
StageIs(s, stage) == SourceIs(s, stage, source[s].tokens, source[s].lock)
UserIs(s, c, pc, key) == keyUser' = [keyUser EXCEPT ![<<s, c>>] = [pc |-> pc, key |-> key]]

----------------------------------------------------------------------------
(* The store.  A file is truncated, then written. *)

SaveBegins == IF kind = "File" THEN Torn ELSE stored

----------------------------------------------------------------------------
(* Making a source. *)

\* from_store: tokens that do not parse are an error, not a reason to ask.
from_store(s) ==
    /\ source[s].stage = "off" /\ kind # "None"
    /\ CASE stored = Torn -> StageIs(s, "failed")
         [] stored = NoTokens -> StageIs(s, "asking")
         [] OTHER -> SourceIs(s, "on", stored, source[s].lock)
    /\ UNCHANGED <<kind, stored, keyUser, grants, honoured, presented, instant, troubled>>

\* OpenAIOAuthCredentialSource::new, after an authorization of the host's own.
authorize_without_store(s) ==
    /\ source[s].stage = "off" /\ kind = "None"
    /\ StageIs(s, "asking")
    /\ UNCHANGED <<kind, stored, keyUser, grants, honoured, presented, instant, troubled>>

\* The first connection to the listener decides: its state must be the one
\* sent out, and it must bring a code.
receive_code(s, ours, code) ==
    /\ source[s].stage = "asking"
    /\ IF ours /\ code THEN UNCHANGED troubled ELSE Trouble
    /\ StageIs(s, IF ours /\ code THEN "coded" ELSE "failed")
    /\ UNCHANGED <<kind, stored, keyUser, grants, honoured, presented, instant>>

CallbackTimeout(s) ==
    /\ source[s].stage = "asking" /\ Trouble
    /\ StageIs(s, "failed")
    /\ UNCHANGED <<kind, stored, keyUser, grants, honoured, presented, instant>>

exchange_code(s, api_key) ==
    /\ source[s].stage = "coded" /\ grants < MaxGrants
    /\ grants' = grants + 1 /\ honoured' = honoured \union {grants'}
    /\ SourceIs(s, IF kind = "None" THEN "on" ELSE "saving", Granted(grants', api_key), source[s].lock)
    /\ stored' = IF kind = "None" THEN stored ELSE SaveBegins
    /\ UNCHANGED <<kind, keyUser, presented, instant, troubled>>

\* from_store_or_authorize: the save that follows the exchange.
FirstSave(s, ok) ==
    /\ source[s].stage = "saving"
    /\ IF ok THEN stored' = source[s].tokens /\ StageIs(s, "on") /\ UNCHANGED troubled
       ELSE /\ Trouble /\ UNCHANGED stored
            /\ SourceIs(s, "failed", NoTokens, NoTokens)
    /\ UNCHANGED <<kind, keyUser, grants, honoured, presented, instant>>

----------------------------------------------------------------------------
(* current_api_key. *)

AskForKey(s, c) ==
    /\ source[s].stage = "on" /\ keyUser[<<s, c>>].pc = "idle"
    /\ UserIs(s, c, "waiting", NoTokens)
    /\ UNCHANGED <<kind, stored, source, grants, honoured, presented, instant, troubled>>

is_expired(tokens) == tokens.expires_at <= instant + RefreshSkew

\* Looks at the tokens without taking the lock.
current_api_key_Unlocked(s, c) ==
    /\ keyUser[<<s, c>>].pc = "waiting" /\ source[s].tokens # NoTokens
    /\ IF is_expired(source[s].tokens)
       THEN /\ UserIs(s, c, "refreshing", keyUser[<<s, c>>].key)
            /\ presented' = [presented EXCEPT ![s] = @ \union {<<source[s].tokens.grant, c>>}]
       ELSE /\ UserIs(s, c, "idle", source[s].tokens)
            /\ UNCHANGED presented
    /\ UNCHANGED <<kind, stored, source, grants, honoured, instant, troubled>>

\* The lock is held across the renewal.
current_api_key(s, c) ==
    /\ keyUser[<<s, c>>].pc = "waiting" /\ source[s].lock = NoTokens
    /\ IF is_expired(source[s].tokens)
       THEN /\ SourceIs(s, source[s].stage, source[s].tokens, c)
            /\ UserIs(s, c, "refreshing", keyUser[<<s, c>>].key)
            /\ presented' = [presented EXCEPT ![s] = @ \union {<<source[s].tokens.grant, c>>}]
       ELSE /\ UserIs(s, c, "idle", IF source[s].tokens.api_key THEN source[s].tokens ELSE NoTokens)
            /\ UNCHANGED <<source, presented>>
    /\ UNCHANGED <<kind, stored, grants, honoured, instant, troubled>>

\* The server renews, keeping or retiring the token it was shown.
refresh_tokens(s, c, api_key, rotates) ==
    /\ keyUser[<<s, c>>].pc = "refreshing" /\ source[s].tokens.grant \in honoured /\ grants < MaxGrants
    /\ grants' = grants + 1
    /\ honoured' = (IF rotates THEN honoured \ {source[s].tokens.grant} ELSE honoured) \union {grants'}
    /\ UserIs(s, c, "saving", Granted(grants', api_key))
    /\ UNCHANGED <<kind, stored, source, presented, instant, troubled>>

Unlocked(s, c) ==
    /\ SourceIs(s, source[s].stage, source[s].tokens, NoTokens)
    /\ UserIs(s, c, "idle", NoTokens)
    /\ presented' = [presented EXCEPT ![s] = {p \in @ : p[2] # c}]

\* The server refuses the token or cannot be reached, or the answer cannot
\* be read; the tokens in memory stay as they were.
RefreshFails(s, c) ==
    /\ keyUser[<<s, c>>].pc = "refreshing"
    /\ IF source[s].tokens.grant \in honoured THEN Trouble ELSE UNCHANGED troubled
    /\ Unlocked(s, c)
    /\ UNCHANGED <<kind, stored, grants, honoured, instant>>

BeginSave(s, c) ==
    /\ keyUser[<<s, c>>].pc = "saving" /\ kind # "None"
    /\ stored' = SaveBegins
    /\ UserIs(s, c, "writing", keyUser[<<s, c>>].key)
    /\ UNCHANGED <<kind, source, grants, honoured, presented, instant, troubled>>

\* The tokens are replaced in memory after the store has them.
UseRefreshed(s, c) ==
    /\ keyUser[<<s, c>>].pc = IF kind = "None" THEN "saving" ELSE "writing"
    /\ stored' = IF kind = "None" THEN stored ELSE keyUser[<<s, c>>].key
    /\ SourceIs(s, source[s].stage, keyUser[<<s, c>>].key, NoTokens)
    /\ UserIs(s, c, "idle", IF keyUser[<<s, c>>].key.api_key THEN keyUser[<<s, c>>].key ELSE NoTokens)
    /\ UNCHANGED <<kind, grants, honoured, presented, instant, troubled>>

\* A save that fails, or a caller's future dropped while it held the lock:
\* what the server granted is gone.
AbandonRefresh(s, c) ==
    /\ keyUser[<<s, c>>].pc \in {"saving", "writing"} /\ Trouble
    /\ Unlocked(s, c)
    /\ UNCHANGED <<kind, stored, grants, honoured, instant>>

----------------------------------------------------------------------------

\* TokenStore::clear, by the host.
clear ==
    /\ kind # "None" /\ stored # NoTokens /\ stored' = NoTokens
    /\ UNCHANGED <<kind, source, keyUser, grants, honoured, presented, instant, troubled>>

TimeGoesOn ==
    /\ instant < MaxTokenTime /\ instant' = instant + 1
    /\ keyUser' = [c \in KeyUsers |-> [pc |-> keyUser[c].pc, key |-> IF keyUser[c].pc = "idle" THEN NoTokens ELSE keyUser[c].key]]
    /\ UNCHANGED <<kind, stored, source, grants, honoured, presented, troubled>>

OAuthNext ==
    \/ \E s \in Sources : from_store(s) \/ authorize_without_store(s) \/ CallbackTimeout(s)
    \/ \E s \in Sources, ours, code \in BOOLEAN : receive_code(s, ours, code)
    \/ \E s \in Sources, b \in BOOLEAN : exchange_code(s, b) \/ FirstSave(s, b)
    \/ \E s \in Sources, c \in KeyCallers :
          \/ AskForKey(s, c) \/ current_api_key(s, c) \/ RefreshFails(s, c) \/ BeginSave(s, c)
          \/ UseRefreshed(s, c) \/ AbandonRefresh(s, c)
          \/ \E api_key, rotates \in BOOLEAN : refresh_tokens(s, c, api_key, rotates)
    \/ clear \/ TimeGoesOn

OAuthSpec == OAuthInit /\ [][OAuthNext]_oauthVars

----------------------------------------------------------------------------

(* A source never shows the server the same refresh token twice, from two  *)
(* callers, except after an attempt that failed: one renews, and the       *)
(* others wait for it and take the key it got (the lock of                 *)
(* current_api_key is held until the new tokens are in place).             *)
OneRefreshPerToken ==
    \A s \in Sources : \A p, q \in presented[s] : p[1] = q[1] => p = q
=============================================================================
