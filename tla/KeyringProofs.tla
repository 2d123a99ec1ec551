--------------------------- MODULE KeyringProofs ----------------------------
(***************************************************************************)
(* Proofs about Keyring for every set of keys, APIs, secrets and requests: *)
(* types; the database key goes last, whatever the operator does; and, when*)
(* keys are changed as the README says, the LDAP and Azure AD secrets stay *)
(* readable and the database alone says nothing.                           *)
(***************************************************************************)
EXTENDS Keyring, TLAPS

MaybeKey == Key \cup {NoKey}

-----------------------------------------------------------------------------
(* Types *)

\* Keyring.encrypt returns a stored value, under the current key if it is not empty.
LEMMA EncryptType ==
    ASSUME TypeOK, NEW text \in Secret \cup {Blank}
    PROVE  Encrypt(text) \in Stored
<1>1. ring.current \in Key \cup {NoKey}
  BY DEF TypeOK, Ring
<1> QED
  BY <1>1 DEF Encrypt, Stored, Empty

\* Every step of the Keyring specification keeps the types.
LEMMA TypeStep == TypeOK /\ [Next]_vars => TypeOK'
<1> SUFFICES ASSUME TypeOK, [Next]_vars PROVE TypeOK'
  OBVIOUS
<1> USE KeyringConstants DEF TypeOK, Slot, EncryptedColumns
<1>1. ASSUME NEW current \in MaybeKey, NEW previous \in MaybeKey, Start(current, previous)
      PROVE TypeOK'
  <2>1. PICK made \in Key \cup {NoKey} :
           /\ dbKey' = made
           /\ ring' = [current  |-> IF current # NoKey THEN current ELSE made,
                       keys     |-> {current, previous, made} \ {NoKey},
                       legacy   |-> made,
                       external |-> current # NoKey]
           /\ born' = born \cup ({current, previous, made} \ {NoKey})
    BY <1>1, Zenon DEF Start
  <2>2. ring' \in Ring
    <3>1. {current, previous, made} \ {NoKey} \in SUBSET Key
      BY DEF MaybeKey
    <3>2. (IF current # NoKey THEN current ELSE made) \in Key \cup {NoKey}
      BY DEF MaybeKey
    <3>3. (current # NoKey) \in BOOLEAN
      OBVIOUS
    <3> QED
      BY <2>1, <3>1, <3>2, <3>3, Zenon DEF Ring
  <2>3. born' \subseteq Key /\ dbKey' \in Key \cup {NoKey}
    BY <2>1 DEF MaybeKey
  <2> QED
    BY <1>1, <2>2, <2>3 DEF Start, MaybeKey
<1>2. ASSUME Rekey PROVE TypeOK'
  <2>1. column' \in [Slot -> Stored]
    BY <1>2, EncryptType DEF Rekey, Stored
  <2>2. ring' \in Ring /\ dbKey' \in Key \cup {NoKey}
    <3>1. [ring EXCEPT !.keys = @ \ {ring.legacy}, !.legacy = NoKey] \in Ring
      BY DEF Ring
    <3> QED
      BY <1>2, <3>1 DEF Rekey
  <2> QED
    BY <1>2, <2>1, <2>2 DEF Rekey
<1>3. ASSUME Stop PROVE TypeOK'
  BY <1>3 DEF Stop, NoRing, Ring, NoSave, Save
<1>4. ASSUME NEW w \in Saver, NEW s \in Slot, NEW given \in Secret \cup {Blank},
             Arrive(w, s, given)
      PROVE TypeOK'
  BY <1>4 DEF Arrive, Save
<1>5. ASSUME NEW w \in Saver, ReadStored(w) PROVE TypeOK'
  <2>1. save[w] \in Save
    OBVIOUS
  <2>2. StoredText(save[w].slot) \in Secret \cup {Blank}
    BY <2>1 DEF StoredText, Stored, Save
  <2>3. save'[w] \in Save
    <3>1. save'[w] = IF save[w].slot \in Api /\ ~Readable(ring, column[save[w].slot]) THEN NoSave
                     ELSE [save[w] EXCEPT !.pc = "write",
                             !.text = IF save[w].given = Blank THEN StoredText(save[w].slot)
                                      ELSE save[w].given]
      BY <1>5, <2>1 DEF ReadStored
    <3>2. NoSave \in Save
      BY DEF NoSave, Save
    <3>3. (IF save[w].given = Blank THEN StoredText(save[w].slot) ELSE save[w].given)
             \in Secret \cup {Blank}
      BY <2>1, <2>2 DEF Save
    <3> QED
      BY <2>1, <3>1, <3>2, <3>3, ZenonT(30) DEF Save
  <2>4. save' = [save EXCEPT ![w] = save'[w]]
    BY <1>5 DEF ReadStored
  <2> QED
    BY <1>5, <2>3, <2>4 DEF ReadStored
<1>6. ASSUME NEW w \in Saver, WriteSecret(w) PROVE TypeOK'
  <2>1. save[w] \in Save /\ NoSave \in Save
    BY DEF NoSave, Save
  <2>2. column' \in [Slot -> Stored]
    BY <1>6, <2>1, EncryptType DEF WriteSecret, Save
  <2> QED
    BY <1>6, <2>1, <2>2 DEF WriteSecret
<1>7. ASSUME NEW a \in Api, NEW given \in Secret \cup {Blank}, CreateAPI(a, given)
      PROVE TypeOK'
  BY <1>7, EncryptType DEF CreateAPI
<1>8. CASE UNCHANGED vars
  BY <1>8 DEF vars
<1> QED
  BY <1>1, <1>2, <1>3, <1>4, <1>5, <1>6, <1>7, <1>8 DEF Next, MaybeKey

\* The columns, the keyring in memory and the requests saving a secret keep their types.
THEOREM TypeCorrect == Spec => []TypeOK
<1>1. Init => TypeOK
  BY KeyringConstants DEF Init, TypeOK, Slot, EncryptedColumns, Stored, Empty, Ring, NoRing,
     Save, NoSave
<1> QED
  BY <1>1, TypeStep, PTL DEF Spec

-----------------------------------------------------------------------------
(* The database key goes last *)

\* newKeyring: the ring is made from the configuration and the database key.
RingFromCfg ==
    phase # "down" =>
        /\ ring.external = (cfg.current # NoKey)
        /\ ring.external => ring.current = cfg.current
        /\ ring.legacy # NoKey => ring.legacy = dbKey
        /\ dbKey # NoKey => ring.legacy = dbKey

\* The ring keeps its relation to the configuration for as long as the server runs.
LEMMA RingStep == TypeOK /\ RingFromCfg /\ [Next]_vars => RingFromCfg'
<1> SUFFICES ASSUME TypeOK, RingFromCfg, [Next]_vars PROVE RingFromCfg'
  OBVIOUS
<1> USE DEF RingFromCfg
<1>1. ASSUME NEW current \in MaybeKey, NEW previous \in MaybeKey, Start(current, previous)
      PROVE RingFromCfg'
  <2>1. PICK made \in Key \cup {NoKey} :
           /\ dbKey' = made
           /\ ring' = [current  |-> IF current # NoKey THEN current ELSE made,
                       keys     |-> {current, previous, made} \ {NoKey},
                       legacy   |-> made,
                       external |-> current # NoKey]
    BY <1>1, Zenon DEF Start
  <2>2. cfg' = [current |-> current, previous |-> previous]
    BY <1>1 DEF Start
  <2> QED
    BY <2>1, <2>2
<1>2. ASSUME Rekey PROVE RingFromCfg'
  BY <1>2 DEF Rekey, TypeOK, Ring
<1>3. ASSUME Stop PROVE RingFromCfg'
  BY <1>3 DEF Stop
<1>4. CASE UNCHANGED <<phase, ring, cfg, dbKey>>
  BY <1>4
<1> QED
  BY <1>1, <1>2, <1>3, <1>4
     DEF Next, MaybeKey, vars, Arrive, ReadStored, WriteSecret, CreateAPI

\* Rekey, with any configuration: when it takes the key out of the database, what is
\* left in the columns it knows is under the configured key.
LEMMA DropStep ==
    TypeOK /\ RingFromCfg /\ [Next]_vars =>
        (dbKey # NoKey /\ dbKey' # dbKey =>
            /\ dbKey' = NoKey
            /\ \A s \in EncryptedColumns :
                  column'[s] # Empty => column'[s].mark = cfg.current /\ cfg.current # NoKey)
<1> SUFFICES ASSUME TypeOK, RingFromCfg, [Next]_vars, dbKey # NoKey, dbKey' # dbKey
             PROVE  /\ dbKey' = NoKey
                    /\ \A s \in EncryptedColumns :
                          column'[s] # Empty =>
                              column'[s].mark = cfg.current /\ cfg.current # NoKey
  OBVIOUS
<1>1. Rekey
  BY DEF Next, vars, Start, Stop, Arrive, ReadStored, WriteSecret, CreateAPI
<1>2. /\ Rekeyable /\ dbKey' = NoKey
      /\ ring.external /\ ring.current = cfg.current /\ cfg.current # NoKey
  BY <1>1 DEF Rekey, RingFromCfg
<1>3. ASSUME NEW s \in EncryptedColumns, column'[s] # Empty
      PROVE  column'[s].mark = cfg.current
  <2>1. column'[s] = IF NeedsRekey(column[s]) THEN Encrypt(column[s].text) ELSE column[s]
    BY <1>1, <1>2 DEF Rekey, Slot
  <2> QED
    BY <1>2, <1>3, <2>1 DEF NeedsRekey, Encrypt
<1> QED
  BY <1>2, <1>3

\* The key in app_secrets is deleted only after every column Rekey knows is under the
\* external key, and is never replaced, whatever keys the operator configures.
THEOREM DatabaseKeyLast == Spec => DatabaseKeyGoesLast
<1>1. Init => TypeOK /\ RingFromCfg
  <2>1. Init => TypeOK
    BY KeyringConstants DEF Init, TypeOK, Slot, EncryptedColumns, Stored, Empty, Ring,
       NoRing, Save, NoSave
  <2> QED
    BY <2>1 DEF Init, RingFromCfg
<1>2. TypeOK /\ RingFromCfg /\ [Next]_vars => (TypeOK /\ RingFromCfg)'
  BY TypeStep, RingStep
<1>3. TypeOK /\ RingFromCfg /\ [Next]_vars =>
        [dbKey # NoKey /\ dbKey' # dbKey =>
            /\ dbKey' = NoKey
            /\ \A s \in EncryptedColumns :
                  column'[s] # Empty =>
                      column'[s].mark = cfg.current /\ cfg.current # NoKey]_vars
  BY DropStep
<1> QED
  BY <1>1, <1>2, <1>3, PTL DEF Spec, DatabaseKeyGoesLast

-----------------------------------------------------------------------------
(* Keys changed as the README says *)

\* A value the next start can read: unprefixed under the database key, or marked with
\* the configured key, the database key or, until a start came up, the previous one.
Within(v) ==
    \/ v = Empty
    \/ v.mark = NoKey /\ v.key = dbKey /\ dbKey # NoKey
    \/ /\ v.mark # NoKey /\ v.key = v.mark
       /\ v.mark = cfg.current \/ v.mark = dbKey \/ (~settled /\ v.mark = cfg.previous)

\* The inductive invariant: nothing is under a key that a documented restart leaves
\* behind, the configured key is not the database's, and once Rekey has run everything
\* is under the ring's current key.
KeysInv ==
    /\ \A w \in Saver : save[w].pc # "idle" => phase = "up"
    /\ dbKey # NoKey => dbKey \in born
    /\ cfg.current # NoKey => cfg.current \in born /\ cfg.current # dbKey
    /\ phase = "down" => \A s \in EncryptedColumns : Within(column[s])
    /\ phase = "starting" =>
          /\ \A s \in EncryptedColumns : Within(column[s])
          /\ ~settled
          /\ ring.keys = {cfg.current, cfg.previous, dbKey} \ {NoKey}
          /\ ring.legacy = dbKey
          /\ ring.external = (cfg.current # NoKey)
          /\ ring.current = IF cfg.current # NoKey THEN cfg.current ELSE dbKey
          /\ ring.current # NoKey
    /\ phase = "up" =>
          /\ settled
          /\ ring.current \in ring.keys /\ ring.current # NoKey
          /\ ring.external = (cfg.current # NoKey)
          /\ ring.current = IF cfg.current # NoKey THEN cfg.current ELSE dbKey
          /\ ring.external => dbKey = NoKey
          /\ \A s \in EncryptedColumns :
                column[s] # Empty => column[s].mark = ring.current /\ column[s].key = ring.current

\* Keys changed as the README says keep KeysInv.
LEMMA KeysStep ==
    ASSUME FollowsReadme, TypeOK, KeysInv, [Next]_vars
    PROVE  KeysInv'
<1> USE KeyringConstants
<1>1. ASSUME NEW current \in MaybeKey, NEW previous \in MaybeKey, Start(current, previous)
      PROVE KeysInv'
  <2>1. PICK made \in Key \cup {NoKey} :
           /\ IF current = NoKey /\ dbKey = NoKey
              THEN made \in Key \ (born \cup {previous})
              ELSE made = dbKey
           /\ dbKey' = made
           /\ ring' = [current  |-> IF current # NoKey THEN current ELSE made,
                       keys     |-> {current, previous, made} \ {NoKey},
                       legacy   |-> made,
                       external |-> current # NoKey]
           /\ born' = born \cup ({current, previous, made} \ {NoKey})
    BY <1>1, Zenon DEF Start
  <2>2. /\ phase = "down" /\ phase' = "starting" /\ ~settled' /\ column' = column
        /\ cfg' = [current |-> current, previous |-> previous]
        /\ AsDocumented(current, previous)
    BY <1>1 DEF Start
  <2>3. /\ dbKey' # NoKey => dbKey' \in born'
        /\ cfg'.current # NoKey => cfg'.current \in born' /\ cfg'.current # dbKey'
    BY <2>1, <2>2 DEF AsDocumented, KeysInv, TypeOK
  <2>4. ASSUME NEW s \in EncryptedColumns PROVE Within(column[s])'
    BY <2>1, <2>2 DEF AsDocumented, KeysInv, Within, TypeOK
  <2>5. /\ ring'.keys = {cfg'.current, cfg'.previous, dbKey'} \ {NoKey}
        /\ ring'.legacy = dbKey'
        /\ ring'.external = (cfg'.current # NoKey)
        /\ ring'.current = IF cfg'.current # NoKey THEN cfg'.current ELSE dbKey'
        /\ ring'.current # NoKey
    BY <2>1, <2>2
  <2> QED
    BY <1>1, <2>2, <2>3, <2>4, <2>5 DEF KeysInv, Start
<1>2. ASSUME Rekey PROVE KeysInv'
  <2>1. /\ phase = "starting" /\ phase' = "up" /\ settled' /\ cfg' = cfg /\ born' = born
    BY <1>2 DEF Rekey
  <2>2. Rekeyable
    BY <2>1 DEF Rekeyable, KeysInv, Within, Readable, KeyFor, NeedsRekey
  <2>3. ASSUME NEW s \in EncryptedColumns, column'[s] # Empty
        PROVE  column'[s].mark = ring.current /\ column'[s].key = ring.current
    <3>1. column'[s] = IF NeedsRekey(column[s]) THEN Encrypt(column[s].text) ELSE column[s]
      BY <1>2, <2>2 DEF Rekey, Slot
    <3> QED
      BY <2>1, <2>3, <3>1 DEF NeedsRekey, Encrypt, KeysInv, Within
  <2>4. dbKey' = IF cfg.current # NoKey THEN NoKey ELSE dbKey
    BY <1>2, <2>1, <2>2 DEF Rekey, KeysInv
  <2>5. ring' = IF ring.external /\ ring.legacy # NoKey
                THEN [ring EXCEPT !.keys = @ \ {ring.legacy}, !.legacy = NoKey] ELSE ring
    BY <1>2, <2>2 DEF Rekey
  <2>6. ring'.current = ring.current /\ ring'.external = ring.external
    BY <2>5 DEF TypeOK, Ring
  <2>7. ring.current \in ring.keys /\ (ring.external => ring.current # ring.legacy)
    BY <2>1 DEF KeysInv, TypeOK
  <2>8. ring'.current \in ring'.keys
    BY <2>5, <2>6, <2>7 DEF TypeOK, Ring
  <2> QED
    BY <1>2, <2>1, <2>3, <2>4, <2>6, <2>8 DEF KeysInv, Rekey
<1>3. ASSUME Stop PROVE KeysInv'
  <2>1. ASSUME NEW s \in EncryptedColumns PROVE Within(column[s])
    BY <1>3 DEF Stop, KeysInv, Within, TypeOK
  <2>2. \A w \in Saver : save'[w].pc = "idle"
    BY <1>3 DEF Stop, NoSave
  <2>3. phase' = "down" /\ UNCHANGED <<column, dbKey, cfg, settled, born>>
    BY <1>3 DEF Stop
  <2>4. \A s \in EncryptedColumns : Within(column[s])'
    BY <2>1, <2>3 DEF Within
  <2> QED
    BY <2>2, <2>3, <2>4 DEF KeysInv
<1>4. ASSUME NEW w \in Saver, NEW s \in Slot, NEW given \in Secret \cup {Blank},
             Arrive(w, s, given)
      PROVE KeysInv'
  BY <1>4 DEF Arrive, KeysInv, Within, TypeOK
<1>5. ASSUME NEW w \in Saver, ReadStored(w) PROVE KeysInv'
  <2>1. phase = "up"
    BY <1>5 DEF ReadStored, KeysInv
  <2> QED
    BY <1>5, <2>1 DEF ReadStored, KeysInv, TypeOK
<1>6. ASSUME NEW w \in Saver, WriteSecret(w) PROVE KeysInv'
  <2>1. phase = "up" /\ phase' = "up"
    BY <1>6 DEF WriteSecret, KeysInv
  <2>2. ASSUME NEW s \in EncryptedColumns, column'[s] # Empty
        PROVE  column'[s].mark = ring.current /\ column'[s].key = ring.current
    BY <1>6, <2>1, <2>2 DEF WriteSecret, Encrypt, KeysInv, TypeOK, Slot
  <2>3. \A v \in Saver : save'[v].pc # "idle" => phase' = "up"
    BY <2>1
  <2> QED
    BY <1>6, <2>1, <2>2, <2>3 DEF WriteSecret, KeysInv
<1>7. ASSUME NEW a \in Api, NEW given \in Secret \cup {Blank}, CreateAPI(a, given)
      PROVE KeysInv'
  <2>1. \A s \in EncryptedColumns : column'[s] = column[s]
    BY <1>7 DEF CreateAPI, EncryptedColumns
  <2> QED
    BY <1>7, <2>1 DEF CreateAPI, KeysInv
<1>8. CASE UNCHANGED vars
  BY <1>8 DEF vars, KeysInv, Within
<1> QED
  BY <1>1, <1>2, <1>3, <1>4, <1>5, <1>6, <1>7, <1>8 DEF Next, MaybeKey

\* Whatever is in KeysInv holds in every state of a documented operation.
LEMMA KeysHold == ASSUME FollowsReadme PROVE Spec => [](TypeOK /\ KeysInv)
<1>1. Init => TypeOK /\ KeysInv
  <2>1. Init => TypeOK
    BY KeyringConstants DEF Init, TypeOK, Slot, EncryptedColumns, Stored, Empty, Ring,
       NoRing, Save, NoSave
  <2>2. Init => KeysInv
    BY KeyringConstants DEF Init, KeysInv, Within, NoSave, Slot, Empty
  <2> QED
    BY <2>1, <2>2
<1>2. TypeOK /\ KeysInv /\ [Next]_vars => (TypeOK /\ KeysInv)'
  BY TypeStep, KeysStep
<1> QED
  BY <1>1, <1>2, PTL DEF Spec

\* With keys changed as the README says, the LDAP and Azure AD secrets can be read in
\* every state in which the server runs, crashes in the middle of a rotation included.
THEOREM RotationKeepsSecrets == FollowsReadme => (Spec => []ConfigReadable)
<1> SUFFICES ASSUME FollowsReadme PROVE Spec => []ConfigReadable
  OBVIOUS
<1>1. TypeOK /\ KeysInv => ConfigReadable
  BY DEF TypeOK, KeysInv, ConfigReadable, Within, Readable, KeyFor
<1> QED
  BY <1>1, KeysHold, PTL

\* With keys changed as the README says, a server with an external key only serves
\* when the database holds neither a key nor a configuration secret under another one.
THEOREM DatabaseAlone == FollowsReadme => (Spec => []DatabaseAloneSaysNothing)
<1> SUFFICES ASSUME FollowsReadme PROVE Spec => []DatabaseAloneSaysNothing
  OBVIOUS
<1>1. TypeOK /\ KeysInv => DatabaseAloneSaysNothing
  BY DEF KeysInv, DatabaseAloneSaysNothing
<1> QED
  BY <1>1, KeysHold, PTL

=============================================================================
