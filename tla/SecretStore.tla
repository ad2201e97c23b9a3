----------------------------- MODULE SecretStore -----------------------------
(* The secrets inside config.json across runs of the program: versions that  *)
(* know nothing of sealing, that seal single values, and that seal groups;   *)
(* Windows accounts that cannot open each other's sealed values; sealing     *)
(* that fails.  A password stands for every value sealed by itself, one      *)
(* group for an identity key and the pairings made with it.  A save is one   *)
(* step here: SettingsFile has the steps it takes on disk.                   *)
EXTENDS Naturals, FiniteSets

CONSTANTS None, Accounts, MaxMade, MaxRuns

VARIABLES
    file,       \* config.json: its plain fields and its `protected` object
    run,        \* the running program's settings, None while none runs
    want,       \* what the user stored and has not removed
    held,       \* the settings of the last run to end, None before it
    made,       \* values made so far
    runs        \* programs started so far

vars == <<file, run, want, held, made, runs>>

Versions == {"plain", "units", "groups", "later"}
\* A group is an identity key, the pairings made with it and a later version's
\* fields; a value is sealed by the account that can open it.
Group == [key : Nat, pairs : SUBSET (Nat \X Nat), later : BOOLEAN]
Secrets == [unit : Nat, group : Group]
SealedBy(values) == [by : Accounts, value : values]
Locked == [unit : SealedBy(Nat) \union {None}, group : SealedBy(Group) \union {None},
           pending : SealedBy(Group) \union {None}]
RunState == [version : Versions, account : Accounts, secrets : Secrets, locked : Locked]

ASSUME NoneAssumption == None \notin SealedBy(Nat) \union SealedBy(Group) \union RunState

NoGroup == [key |-> 0, pairs |-> {}, later |-> FALSE]
NoSecrets == [unit |-> 0, group |-> NoGroup]
NothingSealed == [unit |-> None, group |-> None, pending |-> None]

Sealed(account, value) == [by |-> account, value |-> value]
Opens(sealed, account) == sealed # None /\ sealed.by = account
KnowsGroups(version) == version \in {"groups", "later"}
Blank(group) == group.key = 0 /\ group.pairs = {}

(* A version that lists no `later` field neither restores nor edits it.      *)
Listed(group, version) == IF version = "later" THEN group ELSE [group EXCEPT !.later = FALSE]
HasUnlisted(group, version) == group.later /\ version # "later"

------------------------------------------------------------------------------
(* The group a load takes, the sealed entries it keeps aside, by the name    *)
(* they are filed under.                                                     *)
UnsealGroup(tree, account, version) ==
    LET plain  == tree.fields.group
        stored == tree.protected.group
        aside  == tree.protected.pending
        kept(group, pending) == [unit |-> None, group |-> group, pending |-> pending]
    IN  IF ~KnowsGroups(version)
        THEN [group |-> plain, locked |-> kept(stored, aside)]
        ELSE IF plain.pairs # {}
        THEN [group |-> plain, locked |-> NothingSealed]
        ELSE IF Opens(stored, account)
        THEN [group |-> Listed(stored.value, version),
              locked |-> IF HasUnlisted(stored.value, version) THEN kept(stored, None) ELSE NothingSealed]
        ELSE IF Opens(aside, account)
        THEN [group |-> Listed(aside.value, version), locked |-> kept(stored, None)]
        ELSE [group |-> plain, locked |-> kept(stored, aside)]

(* A plain value is newer than its sealed copy; a copy that does not open is *)
(* kept aside.                                                               *)
UnsealUnit(tree, account) ==
    LET plain == tree.fields.unit
        stored == tree.protected.unit
    IN  IF plain # 0 THEN [unit |-> plain, locked |-> None]
        ELSE IF Opens(stored, account) THEN [unit |-> stored.value, locked |-> None]
        ELSE [unit |-> 0, locked |-> stored]

Unseal(tree, account, version) ==
    IF version = "plain"
    THEN [secrets |-> tree.fields, locked |-> tree.protected]
    ELSE LET g == UnsealGroup(tree, account, version)
             u == UnsealUnit(tree, account)
         IN  [secrets |-> [unit |-> u.unit, group |-> g.group],
              locked |-> [g.locked EXCEPT !.unit = u.locked]]

(* The file holds plain secrets this version seals.                          *)
NeedsSave(tree, version) ==
    version # "plain"
      /\ \/ tree.fields.unit # 0
         \/ KnowsGroups(version) /\ ~Blank(tree.fields.group)

------------------------------------------------------------------------------
(* Mutant: it always takes the place of the stored group.                    *)
GroupSlotAlways(group, kept, account) == "group"

(* Where a group is filed: an identity nothing is paired with does not       *)
(* replace a stored group this account cannot open.                          *)
GroupSlot(group, kept, account) ==
    IF group.pairs = {} /\ kept # None /\ ~Opens(kept, account) THEN "pending" ELSE "group"

(* The tree a save writes.  `fails` are the entries sealing failed for.      *)
Seal(secrets, locked, account, version, fails) ==
    LET sealsUnit == version # "plain" /\ secrets.unit # 0 /\ "unit" \notin fails
        sealsGroup == KnowsGroups(version) /\ ~Blank(secrets.group) /\ "group" \notin fails
        kept  == locked.group
        carries == KnowsGroups(version) /\ Opens(kept, account)
        unlisted == carries /\ kept.value.later
        slot == GroupSlot(secrets.group, kept, account)
        whole == [secrets.group EXCEPT !.later = @ \/ unlisted]
        plainUnit == IF sealsUnit THEN 0 ELSE secrets.unit
        plainGroup == IF sealsGroup THEN NoGroup ELSE secrets.group
        protected ==
            [unit |-> IF sealsUnit THEN Sealed(account, secrets.unit)
                      ELSE IF version # "plain" /\ plainUnit # 0 THEN None ELSE locked.unit,
             group |-> IF sealsGroup /\ slot = "group" THEN Sealed(account, whole)
                       ELSE IF carries /\ Blank(secrets.group) THEN None ELSE kept,
             pending |-> IF sealsGroup /\ slot = "pending" THEN Sealed(account, whole)
                         ELSE locked.pending]
    IN  [fields |-> [unit |-> plainUnit, group |-> plainGroup], protected |-> protected]

(* Sealing may fail.  Left out: for the version after this one, and for a    *)
(* group while another is kept aside, when the next load takes the one kept  *)
(* aside, a pairing removed since included.                                  *)
Fails(version, locked) ==
    IF version \in {"plain", "later"} THEN {{}}
    ELSE SUBSET ({"unit"} \union (IF locked.group = None THEN {"group"} ELSE {}))

------------------------------------------------------------------------------
Init ==
    /\ file = [fields |-> NoSecrets, protected |-> NothingSealed]
    /\ run = None
    /\ want = NoSecrets
    /\ held = None
    /\ made = 0
    /\ runs = 0

(* load_from_with, with the save it makes at once when the file has plain    *)
(* secrets.                                                                  *)
Start(version, account) ==
    /\ run = None /\ runs < MaxRuns
    /\ LET loaded == Unseal(file, account, version)
       IN  /\ run' = [version |-> version, account |-> account,
                      secrets |-> loaded.secrets, locked |-> loaded.locked]
           /\ IF NeedsSave(file, version)
              THEN \E fails \in Fails(version, loaded.locked) :
                      file' = Seal(loaded.secrets, loaded.locked, account, version, fails)
              ELSE file' = file
    /\ runs' = runs + 1
    /\ UNCHANGED <<want, held, made>>

(* A change to the settings and the save that follows it.                    *)
Save(secrets, locked) ==
    /\ run' = [run EXCEPT !.secrets = secrets, !.locked = locked]
    /\ \E fails \in Fails(run.version, locked) :
          file' = Seal(secrets, locked, run.account, run.version, fails)
    /\ UNCHANGED <<held, runs>>

StorePassword ==
    /\ run # None /\ made < MaxMade
    /\ made' = made + 1
    /\ want' = [want EXCEPT !.unit = made']
    /\ Save([run.secrets EXCEPT !.unit = made'], run.locked)

(* remove_airplay_password drops the sealed copy kept aside as well; a       *)
(* version before sealing knows of none.                                     *)
RemovePassword ==
    /\ run # None /\ run.version # "plain"
    /\ want' = [want EXCEPT !.unit = 0]
    /\ Save([run.secrets EXCEPT !.unit = 0], [run.locked EXCEPT !.unit = None])
    /\ UNCHANGED made

MintIdentity ==
    /\ run # None /\ made < MaxMade /\ Blank(run.secrets.group)
    /\ made' = made + 1
    /\ Save([run.secrets EXCEPT !.group.key = made', !.group.later = (run.version = "later")], run.locked)
    /\ UNCHANGED want

(* A pairing is made with the identity in use.                               *)
Pair ==
    /\ run # None /\ made < MaxMade /\ run.secrets.group.key # 0
    /\ made' = made + 1
    /\ LET group == [run.secrets.group EXCEPT !.pairs = @ \union {<<run.secrets.group.key, made'>>}]
       IN  /\ want' = [want EXCEPT !.group = group]
           /\ Save([run.secrets EXCEPT !.group = group], run.locked)

Unpair ==
    /\ run # None
    /\ \E p \in run.secrets.group.pairs :
          LET group == [run.secrets.group EXCEPT !.pairs = @ \ {p}]
          IN  /\ want' = [want EXCEPT !.group = IF group.pairs = {} THEN NoGroup ELSE group]
              /\ Save([run.secrets EXCEPT !.group = group], run.locked)
    /\ UNCHANGED made

(* The program ends, or is killed: every change was saved when it was made.  *)
Stop ==
    /\ run # None
    /\ held' = run /\ run' = None
    /\ UNCHANGED <<file, want, made, runs>>

Next ==
    \/ \E v \in Versions, a \in Accounts : Start(v, a)
    \/ StorePassword
    \/ RemovePassword
    \/ MintIdentity
    \/ Pair
    \/ Unpair
    \/ Stop

Spec == Init /\ [][Next]_vars

------------------------------------------------------------------------------
Entries == {file.protected.group, file.protected.pending} \ {None}
Groups == {file.fields.group} \union {s.value : s \in Entries}

(* A password the user stored, and a group the user paired, are in the file  *)
(* until they are replaced or removed, whatever versions and accounts ran    *)
(* since and whether they could open them.  A later version's fields of the  *)
(* group stay with it.                                                       *)
NeverLost ==
    /\ want.unit # 0 =>
         \/ file.fields.unit = want.unit
         \/ file.protected.unit # None /\ file.protected.unit.value = want.unit
    /\ want.group # NoGroup =>
         \E g \in Groups : g.key = want.group.key /\ want.group.pairs \subseteq g.pairs

(* No pairing is ever filed with another identity than its own.              *)
Together == \A g \in Groups : \A p \in g.pairs : p[1] = g.key

(* The next run of the same version under the same account has the secrets   *)
(* the last one had, a pending identity included.                            *)
ReloadKeeps ==
    (run = None /\ held # None) =>
        Unseal(file, held.account, held.version).secrets = held.secrets

SecretsKept == NeverLost /\ Together /\ ReloadKeeps
==============================================================================
