------------------------------ MODULE Keyring -------------------------------
(***************************************************************************)
(* Secrets at rest (store/crypto.go): which key each stored ciphertext is  *)
(* under, which keys the running server knows, and the Rekey at startup,   *)
(* with the handlers that write secrets (store/settings.go, store/apis.go) *)
(* and the operator who restarts the server with other keys.  A key stands *)
(* for its key id: distinct keys have distinct ids.                        *)
(***************************************************************************)
EXTENDS Naturals

CONSTANTS
    Key,            \* encryption keys
    NoKey,
    Api,            \* API definitions, each with its injected headers
    Secret,         \* plaintexts
    Blank,          \* no plaintext: the column holds ''
    Saver,          \* requests that can be saving a secret together
    FollowsReadme   \* TRUE: the operator changes keys only as the README says

ASSUME KeyringConstants ==
    /\ NoKey \notin Key
    /\ Blank \notin Secret
    /\ Api \cap {"ldap", "azure"} = {}
    /\ FollowsReadme \in BOOLEAN

\* encryptedColumns: the columns Rekey knows.
EncryptedColumns == {"ldap", "azure"}

\* Every place that holds a ciphertext, inject_headers_enc included.
Slot == EncryptedColumns \cup Api

\* A stored value: its key id mark (NoKey: written by 1.3.0 or older, no prefix), the
\* key that sealed it and the plaintext.
Stored == [mark : Key \cup {NoKey}, key : Key \cup {NoKey}, text : Secret \cup {Blank}]

Empty == [mark |-> NoKey, key |-> NoKey, text |-> Blank]

VARIABLES
    column,   \* column[s]: the stored value of a slot
    rows,     \* API definitions that exist
    dbKey,    \* the key in app_secrets, or NoKey
    phase,    \* "down", "starting" (keyring made, Rekey to come) or "up"
    ring,     \* the Keyring in memory
    cfg,      \* DATA_ENCRYPTION_KEY and _PREVIOUS of the last start
    settled,  \* that start got as far as serving
    born,     \* keys generated so far
    save      \* save[w]: the request saving a secret

vars == <<column, rows, dbKey, phase, ring, cfg, settled, born, save>>

Ring == [current : Key \cup {NoKey}, keys : SUBSET Key, legacy : Key \cup {NoKey},
         external : BOOLEAN]

NoRing == [current |-> NoKey, keys |-> {}, legacy |-> NoKey, external |-> FALSE]

NoSave == [pc |-> "idle", slot |-> "ldap", given |-> Blank, text |-> Blank]

Save == [pc : {"idle", "read", "write"}, slot : Slot,
         given : Secret \cup {Blank}, text : Secret \cup {Blank}]

-----------------------------------------------------------------------------
(* The Keyring *)

\* Keyring.encrypt: nothing stays nothing, anything else goes under the current key.
Encrypt(text) ==
    IF text = Blank THEN Empty
    ELSE [mark |-> ring.current, key |-> ring.current, text |-> text]

\* Keyring.decrypt, the key it takes: the one the mark names, if it is known; the
\* database key for a value without a mark.
KeyFor(r, c) ==
    IF c.mark = NoKey THEN r.legacy
    ELSE IF c.mark \in r.keys THEN c.mark ELSE NoKey

\* Keyring.decrypt succeeds: AES-GCM rejects every key but the one that sealed.
Readable(r, c) == c = Empty \/ (KeyFor(r, c) # NoKey /\ KeyFor(r, c) = c.key)

\* Mutant of NeedsRekey: an unprefixed value is left alone.
NeedsRekeyMarked(c) == c.mark # NoKey /\ c.mark # ring.current

NeedsRekey(c) == c # Empty /\ c.mark # ring.current

-----------------------------------------------------------------------------
(* Startup *)

\* The README: start again with the same keys; once a start has come up, drop the
\* previous key, or put a new key in DATA_ENCRYPTION_KEY and the old one in _PREVIOUS.
AsDocumented(current, previous) ==
    \/ [current |-> current, previous |-> previous] = cfg
    \/ settled /\ current = cfg.current /\ previous = NoKey
    \/ settled /\ current \in Key \ born /\ previous = cfg.current

\* Mutant of Start: a previous key that is not configured is kept as a key.
StartKeepsNoKey(current, previous) ==
    /\ phase = "down"
    /\ FollowsReadme => AsDocumented(current, previous)
    /\ \E made \in Key \cup {NoKey} :
          /\ IF current = NoKey /\ dbKey = NoKey
             THEN made \in Key \ (born \cup {previous})
             ELSE made = dbKey
          /\ dbKey' = made
          /\ ring' = [current  |-> IF current # NoKey THEN current ELSE made,
                      keys     |-> {current, previous, made},
                      legacy   |-> made,
                      external |-> current # NoKey]
          /\ born' = born \cup ({current, previous, made} \ {NoKey})
    /\ cfg' = [current |-> current, previous |-> previous]
    /\ settled' = FALSE
    /\ phase' = "starting"
    /\ UNCHANGED <<column, rows, save>>

\* New / newKeyring: the database key is loaded, and made if no key is configured and
\* there is none.
Start(current, previous) ==
    /\ phase = "down"
    /\ FollowsReadme => AsDocumented(current, previous)
    /\ \E made \in Key \cup {NoKey} :
          /\ IF current = NoKey /\ dbKey = NoKey
             THEN made \in Key \ (born \cup {previous})
             ELSE made = dbKey
          /\ dbKey' = made
          /\ ring' = [current  |-> IF current # NoKey THEN current ELSE made,
                      keys     |-> {current, previous, made} \ {NoKey},
                      legacy   |-> made,
                      external |-> current # NoKey]
          /\ born' = born \cup ({current, previous, made} \ {NoKey})
    /\ cfg' = [current |-> current, previous |-> previous]
    /\ settled' = FALSE
    /\ phase' = "starting"
    /\ UNCHANGED <<column, rows, save>>

\* The whole transaction is rolled back when a value cannot be read.
Rekeyable ==
    \A s \in EncryptedColumns : NeedsRekey(column[s]) => Readable(ring, column[s])

\* Rekey at startup, then serving begins either way (a failure is logged).  With an
\* external key the database key goes, from the table and from memory.
Rekey ==
    LET drop == ring.external /\ ring.legacy # NoKey
    IN  /\ phase = "starting"
        /\ IF Rekeyable
           THEN /\ column' = [s \in Slot |->
                      IF s \in EncryptedColumns /\ NeedsRekey(column[s])
                      THEN Encrypt(column[s].text) ELSE column[s]]
                /\ dbKey' = IF drop THEN NoKey ELSE dbKey
                /\ ring' = IF drop THEN [ring EXCEPT !.keys = @ \ {ring.legacy},
                                                     !.legacy = NoKey]
                           ELSE ring
           ELSE UNCHANGED <<column, dbKey, ring>>
        /\ phase' = "up"
        /\ settled' = TRUE
        /\ UNCHANGED <<rows, cfg, born, save>>

\* The server stops or crashes, at startup or later; requests under way are lost.
Stop ==
    /\ phase # "down"
    /\ phase' = "down"
    /\ ring' = NoRing
    /\ save' = [w \in Saver |-> NoSave]
    /\ UNCHANGED <<column, rows, dbKey, cfg, settled, born>>

-----------------------------------------------------------------------------
(* Saving a secret *)

\* A request arrives: the LDAP or Azure AD settings, or an API's headers, with a value
\* or with none, which is to keep the stored one.
Arrive(w, s, given) ==
    /\ phase = "up"
    /\ save[w].pc = "idle"
    /\ s \in Api => s \in rows
    /\ save' = [save EXCEPT ![w] = [pc |-> "read", slot |-> s, given |-> given, text |-> given]]
    /\ UNCHANGED <<column, rows, dbKey, phase, ring, cfg, settled, born>>

\* GetLDAPConfig / GetAzureADConfig: a decryption error is dropped, the secret blank.
StoredText(s) == IF Readable(ring, column[s]) THEN column[s].text ELSE Blank

\* UpdateLDAPConfig, UpdateAzureADConfig: the stored secret is read if none is given.
\* UpdateAPIDefinition always reads it, and refuses when it cannot be decrypted.
ReadStored(w) ==
    LET r == save[w]
        s == r.slot
    IN  /\ r.pc = "read"
        /\ save' = [save EXCEPT ![w] =
              IF s \in Api /\ ~Readable(ring, column[s]) THEN NoSave
              ELSE [r EXCEPT !.pc = "write",
                             !.text = IF r.given = Blank THEN StoredText(s) ELSE r.given]]
        /\ UNCHANGED <<column, rows, dbKey, phase, ring, cfg, settled, born>>

\* The UPDATE.
WriteSecret(w) ==
    /\ save[w].pc = "write"
    /\ column' = [column EXCEPT ![save[w].slot] = Encrypt(save[w].text)]
    /\ save' = [save EXCEPT ![w] = NoSave]
    /\ UNCHANGED <<rows, dbKey, phase, ring, cfg, settled, born>>

\* CreateAPIDefinition: one INSERT.
CreateAPI(a, given) ==
    /\ phase = "up"
    /\ a \in Api \ rows
    /\ rows' = rows \cup {a}
    /\ column' = [column EXCEPT ![a] = Encrypt(given)]
    /\ UNCHANGED <<dbKey, phase, ring, cfg, settled, born, save>>

-----------------------------------------------------------------------------
\* A new database, or one of 1.3.0 or older with unprefixed values.
Init ==
    /\ dbKey \in Key \cup {NoKey}
    /\ column \in [Slot -> {Empty} \cup [mark : {NoKey}, key : {dbKey} \ {NoKey}, text : Secret]]
    /\ \A a \in Api : column[a] = Empty
    /\ rows = {}
    /\ phase = "down" /\ ring = NoRing
    /\ cfg = [current |-> NoKey, previous |-> NoKey]
    /\ settled = TRUE
    /\ born = {dbKey} \ {NoKey}
    /\ save = [w \in Saver |-> NoSave]

Next ==
    \/ \E current, previous \in Key \cup {NoKey} : Start(current, previous)
    \/ Rekey
    \/ Stop
    \/ \E w \in Saver, s \in Slot, given \in Secret \cup {Blank} : Arrive(w, s, given)
    \/ \E w \in Saver : ReadStored(w) \/ WriteSecret(w)
    \/ \E a \in Api, given \in Secret \cup {Blank} : CreateAPI(a, given)

Spec == Init /\ [][Next]_vars

-----------------------------------------------------------------------------
(* Properties *)

\* Every variable has its type.
TypeOK ==
    /\ column \in [Slot -> Stored]
    /\ rows \subseteq Api
    /\ dbKey \in Key \cup {NoKey}
    /\ phase \in {"down", "starting", "up"}
    /\ ring \in Ring
    /\ cfg \in [current : Key \cup {NoKey}, previous : Key \cup {NoKey}]
    /\ settled \in BOOLEAN
    /\ born \subseteq Key
    /\ save \in [Saver -> Save]

\* Keys changed as the README says, the server can always read the LDAP and Azure AD
\* secrets, whatever is saved and wherever it crashes in between.
ConfigReadable ==
    phase # "down" => \A s \in EncryptedColumns : Readable(ring, column[s])

\* With an external key the server only serves once the database holds no key and no
\* LDAP or Azure AD secret under another key: a copy of the database says nothing.
DatabaseAloneSaysNothing ==
    phase = "up" /\ ring.external =>
        /\ dbKey = NoKey
        /\ \A s \in EncryptedColumns : column[s] # Empty => column[s].key = cfg.current

\* The key in the database is deleted only when no LDAP or Azure AD secret needs it any
\* more, and is never replaced by another one, whatever the operator configures.
DatabaseKeyGoesLast ==
    [][dbKey # NoKey /\ dbKey' # dbKey =>
          /\ dbKey' = NoKey
          /\ \A s \in EncryptedColumns :
                column'[s] # Empty => column'[s].mark = cfg.current /\ cfg.current # NoKey]_vars

\* Keys changed as the README says, every stored secret can be read, the injected
\* headers too (the comment on encryptedColumns: "every column").
EverySecretReadable ==
    phase # "down" => \A s \in Slot : Readable(ring, column[s])

=============================================================================
