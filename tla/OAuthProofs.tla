----------------------------- MODULE OAuthProofs -----------------------------
(***************************************************************************)
(* Proof, for every number of sources, callers and grants, that a source   *)
(* presents a refresh token from one caller only.  The invariant that      *)
(* carries it says who may be inside the renewal (the holder of the lock), *)
(* that a token already presented is older than the one in memory unless   *)
(* its presenter still holds the lock, and that tokens about to be put in  *)
(* place are newer than the ones they replace.                             *)
(***************************************************************************)
EXTENDS OAuthTokens, TLAPS

TokenRecords == [grant : Nat, api_key : BOOLEAN, expires_at : Nat]
SourceStates == [stage : {"off", "asking", "coded", "saving", "on", "failed"},
                 tokens : TokenRecords \union {NoTokens}, lock : KeyCallers \union {NoTokens}]
UserStates == [pc : {"idle", "waiting", "refreshing", "saving", "writing"},
               key : TokenRecords \union {NoTokens}]

RecordsInv ==
    /\ source \in [Sources -> SourceStates]
    /\ keyUser \in [KeyUsers -> UserStates]
    /\ presented \in [Sources -> SUBSET (Nat \X KeyCallers)]
    /\ grants \in Nat /\ instant \in Nat
    /\ stored \notin {NoTokens, Torn} => stored \in TokenRecords /\ stored.grant <= grants

\* The tokens of a source that has any are a grant the server made.
TokensInv(s) ==
    source[s].stage \in {"saving", "on"} => source[s].tokens \in TokenRecords /\ source[s].tokens.grant <= grants

\* Nobody asks a source that is not ready.
ReadyInv(s) ==
    source[s].stage # "on" =>
        /\ source[s].lock = NoTokens /\ presented[s] = {}
        /\ \A c \in KeyCallers : keyUser[<<s, c>>].pc = "idle"

\* The caller inside the renewal holds the lock, and what it got is newer.
HolderInv(s) ==
    \A c \in KeyCallers :
        /\ keyUser[<<s, c>>].pc \in {"refreshing", "saving", "writing"} <=> source[s].lock = c
        /\ keyUser[<<s, c>>].pc \in {"saving", "writing"} =>
               /\ keyUser[<<s, c>>].key \in TokenRecords
               /\ source[s].tokens.grant < keyUser[<<s, c>>].key.grant
               /\ keyUser[<<s, c>>].key.grant <= grants

\* A token presented is behind the one in memory, or being renewed.
ShownInv(s) ==
    \A p \in presented[s] :
        p[1] <= source[s].tokens.grant /\ (p[1] = source[s].tokens.grant => source[s].lock = p[2])

OnceInv(s) == \A p, q \in presented[s] : p[1] = q[1] => p = q

SourceInv(s) == TokensInv(s) /\ ReadyInv(s) /\ HolderInv(s) /\ ShownInv(s) /\ OnceInv(s)

OAuthInv == RecordsInv /\ \A s \in Sources : SourceInv(s)

----------------------------------------------------------------------------

\* Nothing has been granted or presented when the program starts.
LEMMA OAuthInvInit == OAuthInit => OAuthInv
<1> SUFFICES ASSUME OAuthInit PROVE OAuthInv
  OBVIOUS
<1>1. RecordsInv
  BY DEF OAuthInit, RecordsInv, SourceStates, UserStates, KeyUsers, AtRest
<1>2. ASSUME NEW s \in Sources PROVE SourceInv(s)
  BY HolderAssumption DEF OAuthInit, SourceInv, TokensInv, ReadyInv, HolderInv, ShownInv, OnceInv, KeyUsers, AtRest
<1> QED
  BY <1>1, <1>2 DEF OAuthInv

\* What the fields of a source and of a caller are.
LEMMA Fields ==
    ASSUME RecordsInv, NEW s \in Sources, NEW c \in KeyCallers
    PROVE  /\ source[s].stage \in {"off", "asking", "coded", "saving", "on", "failed"}
           /\ source[s].tokens \in TokenRecords \union {NoTokens}
           /\ source[s].lock \in KeyCallers \union {NoTokens}
           /\ <<s, c>> \in KeyUsers
           /\ keyUser[<<s, c>>].pc \in {"idle", "waiting", "refreshing", "saving", "writing"}
           /\ keyUser[<<s, c>>].key \in TokenRecords \union {NoTokens}
<1>1. source[s] \in SourceStates /\ <<s, c>> \in KeyUsers
  BY DEF RecordsInv, KeyUsers
<1>2. keyUser[<<s, c>>] \in UserStates
  BY <1>1 DEF RecordsInv
<1> QED
  BY <1>1, <1>2 DEF SourceStates, UserStates

\* A step that leaves a source alone keeps what is known of it.
LEMMA UntouchedSource ==
    ASSUME NEW s \in Sources, SourceInv(s), grants \in Nat, grants' \in Nat, grants <= grants',
           RecordsInv, source'[s] = source[s], presented'[s] = presented[s],
           \A c \in KeyCallers : keyUser'[<<s, c>>].pc = keyUser[<<s, c>>].pc
                                 /\ (keyUser[<<s, c>>].pc # "idle" => keyUser'[<<s, c>>] = keyUser[<<s, c>>])
    PROVE  SourceInv(s)'
<1>1. TokensInv(s)'
  BY DEF SourceInv, TokensInv, TokenRecords
<1>2. ReadyInv(s)'
  BY DEF SourceInv, ReadyInv
<1>3. HolderInv(s)'
  BY DEF SourceInv, HolderInv, TokenRecords
<1>4. ShownInv(s)' /\ OnceInv(s)'
  BY DEF SourceInv, ShownInv, OnceInv
<1> QED
  BY <1>1, <1>2, <1>3, <1>4 DEF SourceInv

\* A step of one source leaves the others alone.
LEMMA OneSourceSteps ==
    ASSUME OAuthInv, NEW s \in Sources, RecordsInv', grants <= grants', SourceInv(s)',
           \A t \in Sources \ {s} :
              /\ source'[t] = source[t] /\ presented'[t] = presented[t]
              /\ \A c \in KeyCallers : keyUser'[<<t, c>>] = keyUser[<<t, c>>]
    PROVE  OAuthInv'
<1>1. ASSUME NEW t \in Sources \ {s} PROVE SourceInv(t)'
  BY <1>1, UntouchedSource DEF OAuthInv, RecordsInv
<1> QED
  BY <1>1 DEF OAuthInv

\* Making a source: nobody has asked it for a key yet.
LEMMA StageStepInv ==
    ASSUME OAuthInv, NEW s \in Sources, source[s].stage # "on", UNCHANGED <<keyUser, presented, instant>>,
           NEW stage \in {"off", "asking", "coded", "saving", "on", "failed"},
           NEW tokens \in TokenRecords \union {NoTokens},
           SourceIs(s, stage, tokens, NoTokens), grants' \in Nat, grants <= grants',
           stage \in {"saving", "on"} => tokens \in TokenRecords /\ tokens.grant <= grants',
           stored' \notin {NoTokens, Torn} => stored' \in TokenRecords /\ stored'.grant <= grants'
    PROVE  OAuthInv'
<1> DEFINE src == [stage |-> stage, tokens |-> tokens, lock |-> NoTokens]
<1>1. RecordsInv /\ SourceInv(s)
  BY DEF OAuthInv
<1>2. src \in SourceStates
  BY DEF SourceStates
<1>3. source' = [source EXCEPT ![s] = src]
  BY DEF SourceIs
<1>4. source'[s].stage = stage /\ source'[s].tokens = tokens /\ source'[s].lock = NoTokens
  BY <1>1, <1>3 DEF RecordsInv
<1> HIDE DEF src
<1>5. RecordsInv'
  BY <1>1, <1>2, <1>3 DEF RecordsInv
<1>6. presented[s] = {} /\ \A c \in KeyCallers : keyUser[<<s, c>>].pc = "idle"
  BY <1>1 DEF SourceInv, ReadyInv
<1>7. SourceInv(s)'
  BY <1>4, <1>6, HolderAssumption DEF SourceInv, TokensInv, ReadyInv, HolderInv, ShownInv, OnceInv
<1>8. \A t \in Sources \ {s} : source'[t] = source[t]
  BY <1>1, <1>3 DEF RecordsInv
<1> QED
  BY <1>5, <1>7, <1>8, OneSourceSteps

\* The tokens the server hands out.
LEMMA GrantedIsARecord ==
    ASSUME RecordsInv, grants' = grants + 1, NEW b \in BOOLEAN
    PROVE  /\ Granted(grants', b) \in TokenRecords /\ Granted(grants', b).grant = grants'
           /\ grants' \in Nat /\ grants < grants'
BY SkewAssumption DEF RecordsInv, Granted, TokenRecords

\* Every step of making a source.
LEMMA MakingInv ==
    ASSUME OAuthInv, NEW s \in Sources,
           \/ from_store(s) \/ authorize_without_store(s) \/ CallbackTimeout(s)
           \/ \E ours, code \in BOOLEAN : receive_code(s, ours, code)
           \/ \E b \in BOOLEAN : exchange_code(s, b) \/ FirstSave(s, b)
    PROVE  OAuthInv'
<1>1. RecordsInv /\ SourceInv(s)
  BY DEF OAuthInv
<1>2. /\ source[s].tokens \in TokenRecords \union {NoTokens}
      /\ source[s].stage # "on" => source[s].lock = NoTokens
  BY <1>1 DEF RecordsInv, SourceStates, SourceInv, ReadyInv
<1>3. CASE from_store(s)
  <2>1. CASE stored \in {Torn, NoTokens}
    <3>1. PICK stage \in {"failed", "asking"} : StageIs(s, stage)
      BY <1>3, <2>1 DEF from_store
    <3> QED
      BY <1>1, <1>2, <1>3, <3>1, StageStepInv DEF from_store, StageIs, RecordsInv
  <2>2. CASE stored \notin {Torn, NoTokens}
    <3>1. SourceIs(s, "on", stored, source[s].lock)
      BY <1>3, <2>2 DEF from_store
    <3> QED
      BY <1>1, <1>2, <1>3, <2>2, <3>1, StageStepInv DEF from_store, RecordsInv
  <2> QED
    BY <2>1, <2>2
<1>4. CASE \/ authorize_without_store(s) \/ CallbackTimeout(s)
           \/ \E ours, code \in BOOLEAN : receive_code(s, ours, code)
  <2>1. PICK stage \in {"asking", "failed", "coded"} : StageIs(s, stage)
    BY <1>4 DEF authorize_without_store, CallbackTimeout, receive_code
  <2>2. source[s].stage # "on" /\ UNCHANGED <<stored, keyUser, grants, presented, instant>>
    BY <1>4 DEF authorize_without_store, CallbackTimeout, receive_code
  <2> QED
    BY <1>1, <1>2, <2>1, <2>2, StageStepInv DEF StageIs, RecordsInv
<1>5. ASSUME NEW b \in BOOLEAN, exchange_code(s, b) PROVE OAuthInv'
  <2>1. PICK stage \in {"on", "saving"} : SourceIs(s, stage, Granted(grants', b), source[s].lock)
    BY <1>5 DEF exchange_code
  <2>2. Granted(grants', b) \in TokenRecords /\ Granted(grants', b).grant = grants' /\ grants' \in Nat /\ grants < grants'
    BY <1>1, <1>5, GrantedIsARecord DEF exchange_code
  <2>3. stored' \notin {NoTokens, Torn} => stored' \in TokenRecords /\ stored'.grant <= grants'
    BY <1>1, <1>5, <2>2 DEF exchange_code, SaveBegins, RecordsInv, TokenRecords
  <2>4. source[s].stage # "on" /\ UNCHANGED <<keyUser, presented, instant>> /\ grants <= grants'
    BY <1>1, <1>5, <2>2 DEF exchange_code, RecordsInv
  <2>5. Granted(grants', b).grant <= grants'
    BY <2>2
  <2> HIDE DEF Granted
  <2> QED
    BY <1>2, <2>1, <2>2, <2>3, <2>4, <2>5, StageStepInv
<1>6. ASSUME NEW b \in BOOLEAN, FirstSave(s, b) PROVE OAuthInv'
  <2>1. source[s].stage = "saving" /\ UNCHANGED <<keyUser, grants, presented, instant>>
    BY <1>6 DEF FirstSave
  <2>2. source[s].tokens \in TokenRecords /\ source[s].tokens.grant <= grants
    BY <1>1, <2>1 DEF SourceInv, TokensInv
  <2>3. CASE b
    BY <1>1, <1>2, <1>6, <2>1, <2>2, <2>3, StageStepInv DEF FirstSave, StageIs, RecordsInv
  <2>4. CASE ~b
    BY <1>1, <1>2, <1>6, <2>1, <2>2, <2>4, StageStepInv DEF FirstSave, RecordsInv
  <2> QED
    BY <2>3, <2>4
<1> QED
  BY <1>3, <1>4, <1>5, <1>6

\* What a step of a caller does to the callers.
LEMMA UserUpdate ==
    ASSUME RecordsInv, NEW s \in Sources, NEW c \in KeyCallers,
           NEW pc \in {"idle", "waiting", "refreshing", "saving", "writing"},
           NEW key \in TokenRecords \union {NoTokens}, UserIs(s, c, pc, key)
    PROVE  /\ keyUser' \in [KeyUsers -> UserStates]
           /\ keyUser'[<<s, c>>].pc = pc /\ keyUser'[<<s, c>>].key = key
           /\ \A t \in Sources, d \in KeyCallers : <<t, d>> # <<s, c>> => keyUser'[<<t, d>>] = keyUser[<<t, d>>]
<1> DEFINE usr == [pc |-> pc, key |-> key]
<1>1. usr \in UserStates /\ usr.pc = pc /\ usr.key = key
  BY DEF UserStates
<1>2. keyUser' = [keyUser EXCEPT ![<<s, c>>] = usr]
  BY DEF UserIs
<1> HIDE DEF usr
<1>3. <<s, c>> \in KeyUsers /\ keyUser \in [KeyUsers -> UserStates]
  BY DEF KeyUsers, RecordsInv
<1>4. keyUser' \in [KeyUsers -> UserStates] /\ keyUser'[<<s, c>>] = usr
  BY <1>1, <1>2, <1>3
<1>5. \A t \in Sources, d \in KeyCallers : <<t, d>> # <<s, c>> => keyUser'[<<t, d>>] = keyUser[<<t, d>>]
  BY <1>2, <1>3 DEF KeyUsers
<1> QED
  BY <1>1, <1>4, <1>5

\* What a step of a caller does to its source.
LEMMA SourceUpdate ==
    ASSUME RecordsInv, NEW s \in Sources, NEW tokens \in TokenRecords, NEW lock \in KeyCallers \union {NoTokens},
           SourceIs(s, source[s].stage, tokens, lock)
    PROVE  /\ source' \in [Sources -> SourceStates]
           /\ source'[s].stage = source[s].stage /\ source'[s].tokens = tokens /\ source'[s].lock = lock
           /\ \A t \in Sources \ {s} : source'[t] = source[t]
<1> DEFINE src == [stage |-> source[s].stage, tokens |-> tokens, lock |-> lock]
<1>1. src \in SourceStates /\ src.stage = source[s].stage /\ src.tokens = tokens /\ src.lock = lock
  BY DEF RecordsInv, SourceStates
<1>2. source' = [source EXCEPT ![s] = src] /\ source \in [Sources -> SourceStates]
  BY DEF SourceIs, RecordsInv
<1> HIDE DEF src
<1> QED
  BY <1>1, <1>2

\* The same, when the lock is let go.
LEMMA SourceUnlocked ==
    ASSUME RecordsInv, NEW s \in Sources, NEW tokens \in TokenRecords,
           SourceIs(s, source[s].stage, tokens, NoTokens)
    PROVE  /\ source' \in [Sources -> SourceStates]
           /\ source'[s].stage = source[s].stage /\ source'[s].tokens = tokens /\ source'[s].lock = NoTokens
           /\ \A t \in Sources \ {s} : source'[t] = source[t]
<1> DEFINE src == [stage |-> source[s].stage, tokens |-> tokens, lock |-> NoTokens]
<1>1. src \in SourceStates /\ src.stage = source[s].stage /\ src.tokens = tokens /\ src.lock = NoTokens
  BY DEF RecordsInv, SourceStates
<1>2. source' = [source EXCEPT ![s] = src] /\ source \in [Sources -> SourceStates]
  BY DEF SourceIs, RecordsInv
<1> HIDE DEF src
<1> QED
  BY <1>1, <1>2

\* The parts of the invariant a caller's step can disturb, in its source.
LEMMA CallerStepInv ==
    ASSUME OAuthInv, NEW s \in Sources, NEW c \in KeyCallers, RecordsInv', grants <= grants',
           source[s].stage = "on", source'[s].stage = "on",
           source'[s].tokens \in TokenRecords, source'[s].tokens.grant <= grants',
           keyUser'[<<s, c>>].pc \in {"refreshing", "saving", "writing"} <=> source'[s].lock = c,
           keyUser'[<<s, c>>].pc \in {"saving", "writing"} =>
              /\ keyUser'[<<s, c>>].key \in TokenRecords
              /\ source'[s].tokens.grant < keyUser'[<<s, c>>].key.grant
              /\ keyUser'[<<s, c>>].key.grant <= grants',
           \A d \in KeyCallers \ {c} : source[s].lock = d <=> source'[s].lock = d,
           source'[s].tokens = source[s].tokens \/ source[s].lock = c,
           ShownInv(s)', OnceInv(s)',
           \A t \in Sources, d \in KeyCallers : <<t, d>> # <<s, c>> => keyUser'[<<t, d>>] = keyUser[<<t, d>>],
           \A t \in Sources \ {s} : source'[t] = source[t] /\ presented'[t] = presented[t]
    PROVE  OAuthInv'
<1>1. RecordsInv /\ SourceInv(s)
  BY DEF OAuthInv
<1>2. TokensInv(s)' /\ ReadyInv(s)'
  BY DEF TokensInv, ReadyInv
<1>3. ASSUME NEW d \in KeyCallers
      PROVE  /\ (keyUser[<<s, d>>].pc \in {"refreshing", "saving", "writing"} <=> source[s].lock = d)'
             /\ (keyUser[<<s, d>>].pc \in {"saving", "writing"} =>
                   /\ keyUser[<<s, d>>].key \in TokenRecords
                   /\ source[s].tokens.grant < keyUser[<<s, d>>].key.grant
                   /\ keyUser[<<s, d>>].key.grant <= grants)'
  <2>1. CASE d = c
    BY <2>1
  <2>2. CASE d # c
    <3>1. keyUser'[<<s, d>>] = keyUser[<<s, d>>]
      BY <2>2
    <3>2. /\ keyUser[<<s, d>>].pc \in {"refreshing", "saving", "writing"} <=> source[s].lock = d
          /\ keyUser[<<s, d>>].pc \in {"saving", "writing"} =>
                /\ keyUser[<<s, d>>].key \in TokenRecords
                /\ source[s].tokens.grant < keyUser[<<s, d>>].key.grant
                /\ keyUser[<<s, d>>].key.grant <= grants
      BY <1>1 DEF SourceInv, HolderInv
    <3>3. keyUser[<<s, d>>].key \in TokenRecords => keyUser[<<s, d>>].key.grant \in Nat
      BY DEF TokenRecords
    <3>4. grants \in Nat /\ grants' \in Nat
      BY <1>1 DEF RecordsInv
    <3> QED
      BY <2>2, <3>1, <3>2, <3>3, <3>4
  <2> QED
    BY <2>1, <2>2
<1>4. HolderInv(s)'
  BY <1>3 DEF HolderInv
<1>5. SourceInv(s)'
  BY <1>2, <1>4 DEF SourceInv
<1>6. \A t \in Sources \ {s} : \A d \in KeyCallers : keyUser'[<<t, d>>] = keyUser[<<t, d>>]
  OBVIOUS
<1> QED
  BY <1>5, <1>6, OneSourceSteps

\* A caller that holds the lock, or asks, belongs to a source that is ready.
LEMMA BusyIsReady ==
    ASSUME OAuthInv, NEW s \in Sources, NEW c \in KeyCallers, keyUser[<<s, c>>].pc # "idle"
    PROVE  /\ source[s].stage = "on" /\ source[s].tokens \in TokenRecords
           /\ source[s].tokens.grant \in Nat /\ source[s].tokens.grant <= grants
BY DEF OAuthInv, SourceInv, ReadyInv, TokensInv, TokenRecords

\* What is known of a source's history and of who is inside the renewal.
LEMMA KnownOfSource ==
    ASSUME OAuthInv, NEW s \in Sources
    PROVE  /\ presented \in [Sources -> SUBSET (Nat \X KeyCallers)]
           /\ presented[s] \in SUBSET (Nat \X KeyCallers)
           /\ \A p \in presented[s] : p[1] \in Nat /\ p[2] \in KeyCallers
           /\ \A p \in presented[s] : p[1] <= source[s].tokens.grant
                                      /\ (p[1] = source[s].tokens.grant => source[s].lock = p[2])
           /\ \A p, q \in presented[s] : p[1] = q[1] => p = q
           /\ source[s].lock \in KeyCallers \union {NoTokens}
           /\ grants \in Nat
           /\ stored \notin {NoTokens, Torn} => stored \in TokenRecords /\ stored.grant <= grants
<1>1. source[s] \in SourceStates
  BY DEF OAuthInv, RecordsInv
<1> QED
  BY <1>1 DEF OAuthInv, RecordsInv, SourceStates, SourceInv, ShownInv, OnceInv

\* Every step of a caller.
LEMMA CallerInv ==
    ASSUME OAuthInv, NEW s \in Sources, NEW c \in KeyCallers
    PROVE  \/ AskForKey(s, c) \/ current_api_key(s, c) \/ RefreshFails(s, c) \/ BeginSave(s, c)
           \/ UseRefreshed(s, c) \/ AbandonRefresh(s, c)
           \/ \E api_key, rotates \in BOOLEAN : refresh_tokens(s, c, api_key, rotates)
           => OAuthInv'
<1>1. RecordsInv /\ SourceInv(s)
  BY DEF OAuthInv
<1>2. /\ keyUser[<<s, c>>].pc \in {"idle", "waiting", "refreshing", "saving", "writing"}
      /\ keyUser[<<s, c>>].key \in TokenRecords \union {NoTokens}
  BY <1>1, Fields
<1>3. /\ keyUser[<<s, c>>].pc \in {"refreshing", "saving", "writing"} <=> source[s].lock = c
      /\ keyUser[<<s, c>>].pc \in {"saving", "writing"} =>
            /\ keyUser[<<s, c>>].key \in TokenRecords
            /\ source[s].tokens.grant < keyUser[<<s, c>>].key.grant
            /\ keyUser[<<s, c>>].key.grant <= grants
  BY <1>1 DEF SourceInv, HolderInv
<1>4. keyUser[<<s, c>>].pc # "idle" =>
         /\ source[s].stage = "on" /\ source[s].tokens \in TokenRecords
         /\ source[s].tokens.grant \in Nat /\ source[s].tokens.grant <= grants
  BY BusyIsReady
<1>5. UNCHANGED <<source, presented>> => ShownInv(s)' /\ OnceInv(s)'
  BY <1>1 DEF SourceInv, ShownInv, OnceInv
<1>6. ASSUME AskForKey(s, c) PROVE OAuthInv'
  <2>1. source[s].stage = "on" /\ source[s].tokens \in TokenRecords /\ source[s].tokens.grant <= grants
    BY <1>1, <1>6 DEF AskForKey, SourceInv, TokensInv
  <2>2. /\ keyUser[<<s, c>>].pc = "idle" /\ UserIs(s, c, "waiting", NoTokens)
        /\ UNCHANGED <<stored, source, grants, presented, instant>>
    BY <1>6 DEF AskForKey
  <2>3. /\ keyUser' \in [KeyUsers -> UserStates] /\ keyUser'[<<s, c>>].pc = "waiting"
        /\ \A t \in Sources, d \in KeyCallers : <<t, d>> # <<s, c>> => keyUser'[<<t, d>>] = keyUser[<<t, d>>]
    BY <1>1, <2>2, UserUpdate
  <2>4. RecordsInv'
    BY <1>1, <2>2, <2>3 DEF RecordsInv
  <2>5. grants <= grants'
    BY <1>1, <2>2 DEF RecordsInv
  <2> QED
    BY <1>3, <1>5, <2>1, <2>2, <2>3, <2>4, <2>5, CallerStepInv
<1>7. ASSUME current_api_key(s, c) /\ is_expired(source[s].tokens) PROVE OAuthInv'
  <2> DEFINE shown == presented[s] \union {<<source[s].tokens.grant, c>>}
  <2>1. /\ keyUser[<<s, c>>].pc = "waiting" /\ source[s].lock = NoTokens
        /\ SourceIs(s, source[s].stage, source[s].tokens, c)
        /\ UserIs(s, c, "refreshing", keyUser[<<s, c>>].key) /\ presented' = [presented EXCEPT ![s] = shown]
        /\ UNCHANGED <<stored, grants, instant>>
    BY <1>7 DEF current_api_key
  <2>2. /\ keyUser' \in [KeyUsers -> UserStates] /\ keyUser'[<<s, c>>].pc = "refreshing"
        /\ \A t \in Sources, d \in KeyCallers : <<t, d>> # <<s, c>> => keyUser'[<<t, d>>] = keyUser[<<t, d>>]
    <3>1. UserIs(s, c, "refreshing", keyUser[<<s, c>>].key)
      BY <2>1
    <3> QED
      BY <1>1, <1>2, <3>1, UserUpdate
  <2>3. /\ source' \in [Sources -> SourceStates] /\ source'[s].stage = source[s].stage
        /\ source'[s].tokens = source[s].tokens /\ source'[s].lock = c
        /\ \A t \in Sources \ {s} : source'[t] = source[t]
    BY <1>1, <1>4, <2>1, SourceUpdate
  <2>4. \A p \in presented[s] : p[1] \in Nat /\ p[1] < source[s].tokens.grant
    BY <1>4, <2>1, KnownOfSource, HolderAssumption
  <2>5. shown \in SUBSET (Nat \X KeyCallers)
    BY <1>4, <2>1, KnownOfSource
  <2>6. \A p \in shown : p[1] <= source[s].tokens.grant /\ (p[1] = source[s].tokens.grant => c = p[2])
    BY <1>4, <2>1, <2>4
  <2>7. \A p, q \in shown : p[1] = q[1] => p = q
    <3>1. \A p, q \in presented[s] : p[1] = q[1] => p = q
      BY KnownOfSource
    <3>2. \A p \in shown : p \in presented[s] \/ p = <<source[s].tokens.grant, c>>
      OBVIOUS
    <3>3. source[s].tokens.grant \in Nat
      BY <1>4, <2>1
    <3> QED
      BY ONLY <2>4, <3>1, <3>2, <3>3
  <2> HIDE DEF shown
  <2>8. /\ presented' \in [Sources -> SUBSET (Nat \X KeyCallers)] /\ presented'[s] = shown
        /\ \A t \in Sources \ {s} : presented'[t] = presented[t]
    BY <2>1, <2>5, KnownOfSource
  <2>9. RecordsInv' /\ grants <= grants'
    BY <1>1, <2>1, <2>2, <2>3, <2>8 DEF RecordsInv
  <2>10. ShownInv(s)' /\ OnceInv(s)'
    BY <2>3, <2>6, <2>7, <2>8 DEF ShownInv, OnceInv
  <2>11. \A d \in KeyCallers \ {c} : source[s].lock = d <=> source'[s].lock = d
    BY <2>1, <2>3, HolderAssumption
  <2>12. /\ source[s].stage = "on" /\ source'[s].stage = "on"
         /\ source'[s].tokens \in TokenRecords /\ source'[s].tokens.grant <= grants'
    BY <1>4, <2>1, <2>3
  <2>13. keyUser'[<<s, c>>].pc = "refreshing" /\ source'[s].lock = c /\ source'[s].tokens = source[s].tokens
    BY <2>2, <2>3
  <2>14. /\ \A t \in Sources, d \in KeyCallers : <<t, d>> # <<s, c>> => keyUser'[<<t, d>>] = keyUser[<<t, d>>]
         /\ \A t \in Sources \ {s} : source'[t] = source[t] /\ presented'[t] = presented[t]
    BY <2>2, <2>3, <2>8
  <2> QED
    BY <2>9, <2>10, <2>11, <2>12, <2>13, <2>14, CallerStepInv
<1>8. ASSUME current_api_key(s, c) /\ ~is_expired(source[s].tokens) PROVE OAuthInv'
  <2>1. PICK key \in TokenRecords \union {NoTokens} : UserIs(s, c, "idle", key)
    BY <1>4, <1>8 DEF current_api_key
  <2>2. /\ keyUser[<<s, c>>].pc = "waiting" /\ source[s].lock = NoTokens
        /\ UNCHANGED <<stored, source, grants, presented, instant>>
    BY <1>8 DEF current_api_key
  <2>3. /\ keyUser' \in [KeyUsers -> UserStates] /\ keyUser'[<<s, c>>].pc = "idle"
        /\ \A t \in Sources, d \in KeyCallers : <<t, d>> # <<s, c>> => keyUser'[<<t, d>>] = keyUser[<<t, d>>]
    BY <1>1, <2>1, UserUpdate
  <2>4. RecordsInv' /\ grants <= grants'
    BY <1>1, <2>2, <2>3 DEF RecordsInv
  <2> QED
    BY <1>3, <1>4, <1>5, <2>2, <2>3, <2>4, CallerStepInv
<1>9. ASSUME RefreshFails(s, c) \/ AbandonRefresh(s, c) PROVE OAuthInv'
  <2> DEFINE shown == {p \in presented[s] : p[2] # c}
  <2>1. keyUser[<<s, c>>].pc \in {"refreshing", "saving", "writing"} /\ Unlocked(s, c) /\ UNCHANGED <<stored, grants, instant>>
    BY <1>9 DEF RefreshFails, AbandonRefresh
  <2>2. /\ SourceIs(s, source[s].stage, source[s].tokens, NoTokens) /\ UserIs(s, c, "idle", NoTokens)
        /\ presented' = [presented EXCEPT ![s] = shown] /\ source[s].lock = c
    BY <1>3, <2>1 DEF Unlocked
  <2>3. /\ keyUser' \in [KeyUsers -> UserStates] /\ keyUser'[<<s, c>>].pc = "idle"
        /\ \A t \in Sources, d \in KeyCallers : <<t, d>> # <<s, c>> => keyUser'[<<t, d>>] = keyUser[<<t, d>>]
    <3>1. UserIs(s, c, "idle", NoTokens)
      BY <2>2
    <3> QED
      BY <1>1, <3>1, UserUpdate
  <2>4. /\ source' \in [Sources -> SourceStates] /\ source'[s].stage = source[s].stage
        /\ source'[s].tokens = source[s].tokens /\ source'[s].lock = NoTokens
        /\ \A t \in Sources \ {s} : source'[t] = source[t]
    <3>1. SourceIs(s, source[s].stage, source[s].tokens, NoTokens) /\ source[s].tokens \in TokenRecords
      BY <1>4, <2>1, <2>2
    <3> QED
      BY ONLY <1>1, <3>1, s \in Sources, SourceUnlocked
  <2>5. /\ shown \in SUBSET (Nat \X KeyCallers)
        /\ \A p \in shown : p[1] <= source[s].tokens.grant /\ p[1] # source[s].tokens.grant
        /\ \A p, q \in shown : p[1] = q[1] => p = q
    BY <2>2, KnownOfSource
  <2> HIDE DEF shown
  <2>6. /\ presented' \in [Sources -> SUBSET (Nat \X KeyCallers)] /\ presented'[s] = shown
        /\ \A t \in Sources \ {s} : presented'[t] = presented[t]
    BY <2>2, <2>5, KnownOfSource
  <2>7. RecordsInv' /\ grants <= grants'
    BY <1>1, <2>1, <2>3, <2>4, <2>6 DEF RecordsInv
  <2>8. ShownInv(s)' /\ OnceInv(s)'
    BY <2>4, <2>5, <2>6 DEF ShownInv, OnceInv
  <2>9. \A d \in KeyCallers \ {c} : source[s].lock = d <=> source'[s].lock = d
    BY <2>2, <2>4, HolderAssumption
  <2>10. /\ source[s].stage = "on" /\ source'[s].stage = "on"
         /\ source'[s].tokens \in TokenRecords /\ source'[s].tokens.grant <= grants'
    BY <1>4, <2>1, <2>4
  <2>11. keyUser'[<<s, c>>].pc = "idle" /\ source'[s].lock # c /\ source'[s].tokens = source[s].tokens
    BY <2>3, <2>4, HolderAssumption
  <2>12. /\ \A t \in Sources, d \in KeyCallers : <<t, d>> # <<s, c>> => keyUser'[<<t, d>>] = keyUser[<<t, d>>]
         /\ \A t \in Sources \ {s} : source'[t] = source[t] /\ presented'[t] = presented[t]
    BY <2>3, <2>4, <2>6
  <2> QED
    BY <2>7, <2>8, <2>9, <2>10, <2>11, <2>12, CallerStepInv
<1>10. ASSUME BeginSave(s, c) PROVE OAuthInv'
  <2>1. /\ keyUser[<<s, c>>].pc = "saving" /\ UserIs(s, c, "writing", keyUser[<<s, c>>].key)
        /\ UNCHANGED <<source, grants, presented, instant>>
    BY <1>10 DEF BeginSave
  <2>2. stored' \notin {NoTokens, Torn} => stored' \in TokenRecords /\ stored'.grant <= grants'
    BY <1>10, <2>1, KnownOfSource DEF BeginSave, SaveBegins
  <2>3. /\ keyUser' \in [KeyUsers -> UserStates]
        /\ keyUser'[<<s, c>>].pc = "writing" /\ keyUser'[<<s, c>>].key = keyUser[<<s, c>>].key
        /\ \A t \in Sources, d \in KeyCallers : <<t, d>> # <<s, c>> => keyUser'[<<t, d>>] = keyUser[<<t, d>>]
    BY <1>1, <1>2, <2>1, UserUpdate
  <2>4. RecordsInv' /\ grants <= grants'
    BY <1>1, <2>1, <2>2, <2>3 DEF RecordsInv
  <2> QED
    BY <1>3, <1>4, <1>5, <2>1, <2>3, <2>4, CallerStepInv
<1>11. ASSUME UseRefreshed(s, c) PROVE OAuthInv'
  <2>1. /\ keyUser[<<s, c>>].pc \in {"saving", "writing"}
        /\ SourceIs(s, source[s].stage, keyUser[<<s, c>>].key, NoTokens)
        /\ UNCHANGED <<grants, presented, instant>> /\ source[s].lock = c
    BY <1>3, <1>11 DEF UseRefreshed
  <2>2. PICK key \in TokenRecords \union {NoTokens} : UserIs(s, c, "idle", key)
    BY <1>3, <1>11, <2>1 DEF UseRefreshed
  <2>3. /\ keyUser[<<s, c>>].key \in TokenRecords /\ keyUser[<<s, c>>].key.grant \in Nat
        /\ source[s].tokens.grant < keyUser[<<s, c>>].key.grant /\ keyUser[<<s, c>>].key.grant <= grants
    BY <1>3, <2>1 DEF TokenRecords
  <2>4. stored' \notin {NoTokens, Torn} => stored' \in TokenRecords /\ stored'.grant <= grants'
    BY <1>11, <2>1, <2>3, KnownOfSource DEF UseRefreshed
  <2>5. \A p \in presented[s] : p[1] <= keyUser[<<s, c>>].key.grant /\ p[1] # keyUser[<<s, c>>].key.grant
    <3>1. \A p \in presented[s] : p[1] \in Nat /\ p[1] <= source[s].tokens.grant
      BY KnownOfSource
    <3>2. source[s].tokens.grant \in Nat
      BY <1>4, <2>1
    <3>3. \A n \in Nat : n <= source[s].tokens.grant => n <= keyUser[<<s, c>>].key.grant /\ n # keyUser[<<s, c>>].key.grant
      BY ONLY <2>3, <3>2
    <3> QED
      BY ONLY <3>1, <3>3
  <2>6. /\ keyUser' \in [KeyUsers -> UserStates] /\ keyUser'[<<s, c>>].pc = "idle"
        /\ \A t \in Sources, d \in KeyCallers : <<t, d>> # <<s, c>> => keyUser'[<<t, d>>] = keyUser[<<t, d>>]
    BY <1>1, <2>2, UserUpdate
  <2>7. /\ source' \in [Sources -> SourceStates] /\ source'[s].stage = source[s].stage
        /\ source'[s].tokens = keyUser[<<s, c>>].key /\ source'[s].lock = NoTokens
        /\ \A t \in Sources \ {s} : source'[t] = source[t]
    <3>1. PICK new \in TokenRecords : new = keyUser[<<s, c>>].key /\ SourceIs(s, source[s].stage, new, NoTokens)
      BY <2>1, <2>3
    <3>2. /\ source' \in [Sources -> SourceStates] /\ source'[s].stage = source[s].stage
          /\ source'[s].tokens = new /\ source'[s].lock = NoTokens
          /\ \A t \in Sources \ {s} : source'[t] = source[t]
      BY ONLY <1>1, <3>1, s \in Sources, new \in TokenRecords, SourceUnlocked
    <3> QED
      BY <3>1, <3>2
  <2>8. RecordsInv' /\ grants <= grants'
    BY <1>1, <2>1, <2>4, <2>6, <2>7 DEF RecordsInv
  <2>9. ShownInv(s)' /\ OnceInv(s)'
    BY <2>1, <2>5, <2>7, KnownOfSource DEF ShownInv, OnceInv
  <2>10. \A d \in KeyCallers \ {c} : source[s].lock = d <=> source'[s].lock = d
    BY <2>1, <2>7, HolderAssumption
  <2>11. /\ source[s].stage = "on" /\ source'[s].stage = "on"
         /\ source'[s].tokens \in TokenRecords /\ source'[s].tokens.grant <= grants'
    BY <1>4, <2>1, <2>3, <2>7
  <2>12. keyUser'[<<s, c>>].pc = "idle" /\ source'[s].lock # c /\ source[s].lock = c
    BY <2>1, <2>6, <2>7, HolderAssumption
  <2>13. \A t \in Sources \ {s} : source'[t] = source[t] /\ presented'[t] = presented[t]
    BY <2>1, <2>7
  <2> QED
    BY <2>6, <2>8, <2>9, <2>10, <2>11, <2>12, <2>13, CallerStepInv
<1>12. ASSUME NEW api_key \in BOOLEAN, NEW rotates \in BOOLEAN, refresh_tokens(s, c, api_key, rotates)
       PROVE  OAuthInv'
  <2> DEFINE key == Granted(grants', api_key)
  <2>1. /\ keyUser[<<s, c>>].pc = "refreshing" /\ UserIs(s, c, "saving", key) /\ grants' = grants + 1
        /\ UNCHANGED <<stored, source, presented, instant>>
    BY <1>12 DEF refresh_tokens
  <2>2. key \in TokenRecords /\ key.grant = grants' /\ grants' \in Nat /\ grants < grants'
    BY <1>1, <2>1, GrantedIsARecord
  <2>3. stored' \notin {NoTokens, Torn} => stored' \in TokenRecords /\ stored'.grant <= grants'
    BY <2>1, <2>2, KnownOfSource DEF TokenRecords
  <2> HIDE DEF key
  <2>4. /\ keyUser' \in [KeyUsers -> UserStates]
        /\ keyUser'[<<s, c>>].pc = "saving" /\ keyUser'[<<s, c>>].key = key
        /\ \A t \in Sources, d \in KeyCallers : <<t, d>> # <<s, c>> => keyUser'[<<t, d>>] = keyUser[<<t, d>>]
    BY <1>1, <2>1, <2>2, UserUpdate
  <2>5. RecordsInv' /\ grants <= grants'
    BY <1>1, <2>1, <2>2, <2>3, <2>4 DEF RecordsInv
  <2>6. source[s].tokens.grant <= grants' /\ source[s].tokens.grant < key.grant /\ key.grant <= grants'
    BY <1>1, <1>4, <2>1, <2>2 DEF RecordsInv
  <2> QED
    BY <1>3, <1>4, <1>5, <2>1, <2>2, <2>4, <2>5, <2>6, CallerStepInv
<1> QED
  BY <1>6, <1>7, <1>8, <1>9, <1>10, <1>11, <1>12

\* The clearing of the store and the passing of time, which drops the keys
\* idle callers were given.
LEMMA HostStepInv == OAuthInv /\ (clear \/ TimeGoesOn \/ UNCHANGED oauthVars) => OAuthInv'
<1> SUFFICES ASSUME OAuthInv, clear \/ TimeGoesOn \/ UNCHANGED oauthVars PROVE OAuthInv'
  OBVIOUS
<1>1. RecordsInv
  BY DEF OAuthInv
<1>2. UNCHANGED <<source, presented, grants>>
  BY DEF clear, TimeGoesOn, oauthVars
<1>3. CASE clear \/ UNCHANGED oauthVars
  <2>1. UNCHANGED keyUser /\ RecordsInv'
    BY <1>1, <1>3 DEF clear, oauthVars, RecordsInv
  <2>2. ASSUME NEW s \in Sources PROVE SourceInv(s)'
    BY <1>2, <2>1 DEF OAuthInv, SourceInv, TokensInv, ReadyInv, HolderInv, ShownInv, OnceInv
  <2> QED
    BY <2>1, <2>2 DEF OAuthInv
<1>4. CASE TimeGoesOn
  <2>1. \A u \in KeyUsers : keyUser[u].pc \in {"idle", "waiting", "refreshing", "saving", "writing"}
                            /\ keyUser[u].key \in TokenRecords \union {NoTokens}
    BY <1>1 DEF RecordsInv, UserStates
  <2>2. \A u \in KeyUsers : /\ keyUser'[u].pc = keyUser[u].pc
                            /\ keyUser'[u].key = IF keyUser[u].pc = "idle" THEN NoTokens ELSE keyUser[u].key
    BY <1>4 DEF TimeGoesOn
  <2>3. keyUser' \in [KeyUsers -> UserStates]
    BY <1>4, <2>1 DEF TimeGoesOn, UserStates
  <2>4. RecordsInv' /\ grants <= grants'
    BY <1>1, <1>2, <1>4, <2>3 DEF TimeGoesOn, RecordsInv
  <2>5. ASSUME NEW s \in Sources PROVE SourceInv(s)'
    <3>1. SourceInv(s)
      BY DEF OAuthInv
    <3>2. \A c \in KeyCallers : <<s, c>> \in KeyUsers
      BY DEF KeyUsers
    <3>3. \A c \in KeyCallers : /\ keyUser'[<<s, c>>].pc = keyUser[<<s, c>>].pc
                                /\ keyUser[<<s, c>>].pc # "idle" => keyUser'[<<s, c>>].key = keyUser[<<s, c>>].key
      BY <2>2, <3>2
    <3>4. HolderInv(s)'
      BY ONLY <1>2, <3>1, <3>3 DEF SourceInv, HolderInv
    <3>5. TokensInv(s)' /\ ReadyInv(s)' /\ ShownInv(s)' /\ OnceInv(s)'
      BY ONLY <1>2, <3>1, <3>3 DEF SourceInv, TokensInv, ReadyInv, ShownInv, OnceInv
    <3> QED
      BY <3>4, <3>5 DEF SourceInv
  <2> QED
    BY <2>4, <2>5 DEF OAuthInv
<1> QED
  BY <1>3, <1>4

\* No step of the sign-in breaks the invariant.
LEMMA OAuthInvNext == OAuthInv /\ [OAuthNext]_oauthVars => OAuthInv'
<1> SUFFICES ASSUME OAuthInv, [OAuthNext]_oauthVars PROVE OAuthInv'
  OBVIOUS
<1>1. CASE clear \/ TimeGoesOn \/ UNCHANGED oauthVars
  BY <1>1, HostStepInv
<1>2. ASSUME NEW s \in Sources,
             \/ from_store(s) \/ authorize_without_store(s) \/ CallbackTimeout(s)
             \/ \E ours, code \in BOOLEAN : receive_code(s, ours, code)
             \/ \E b \in BOOLEAN : exchange_code(s, b) \/ FirstSave(s, b)
      PROVE  OAuthInv'
  BY <1>2, MakingInv
<1>3. ASSUME NEW s \in Sources, NEW c \in KeyCallers,
             \/ AskForKey(s, c) \/ current_api_key(s, c) \/ RefreshFails(s, c) \/ BeginSave(s, c)
             \/ UseRefreshed(s, c) \/ AbandonRefresh(s, c)
             \/ \E api_key, rotates \in BOOLEAN : refresh_tokens(s, c, api_key, rotates)
      PROVE  OAuthInv'
  BY <1>3, CallerInv
<1> QED
  BY <1>1, <1>2, <1>3 DEF OAuthNext

(* However many callers a source has, and however the server answers, a    *)
(* refresh token is presented by one of them: the lock of current_api_key  *)
(* is held until newer tokens are in place or the attempt has failed.      *)
THEOREM RefreshIsNeverRepeated == OAuthSpec => []OneRefreshPerToken
<1>1. OAuthInv => OneRefreshPerToken
  BY DEF OAuthInv, SourceInv, OnceInv, OneRefreshPerToken
<1> QED
  BY <1>1, OAuthInvInit, OAuthInvNext, PTL DEF OAuthSpec
=============================================================================
