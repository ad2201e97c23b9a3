---------------------------- MODULE ServiceProofs ----------------------------
(* The parts of MCService that share no state: each one's invariant, for     *)
(* every value of the constants, and at the end all of them of the service.  *)
EXTENDS MCService, FiniteSetTheorems, WellFoundedInduction, TLAPS

-----------------------------------------------------------------------------
(* SecretStore: no secret is lost, for any accounts and any number of runs.  *)
(* Over a single step that is not so: what a save writes depends on what the *)
(* run has in memory and keeps aside, and that on the file it was loaded     *)
(* from.  The invariant says of both that the value which counts is the      *)
(* wanted one (Stored, Good), and of what is kept aside that the account     *)
(* cannot open it (KeptAside), for otherwise the next load would take it in  *)
(* place of what was saved.  Its two halves are the lemmas that loading a    *)
(* good tree gives good settings (UnsealGood) and saving good settings a     *)
(* good tree that loads as the same settings (SealGood).                     *)

\* A group of one identity: every pairing was made with its key, and no key means nothing at all.
Sound(g) ==
    /\ g \in Group
    /\ \A p \in g.pairs : p[1] = g.key
    /\ g.key = 0 => g = NoGroup

\* What is sealed is sound and not blank.
SoundSealed(s) == Sound(s.value) /\ s.value.key # 0

\* Sealed entries as they are filed: no pairing waits in the pending slot.
Filed(locked) ==
    /\ locked \in Locked
    /\ locked.unit # None => locked.unit.value # 0
    /\ locked.group # None => SoundSealed(locked.group)
    /\ locked.pending # None => SoundSealed(locked.pending) /\ locked.pending.value.pairs = {}

\* The password that counts: the plain one, or else the one sealed.
Current(plain, sealed) == IF plain # 0 THEN plain ELSE IF sealed # None THEN sealed.value ELSE 0

\* Group g holds what the user wants kept of w.
Covers(g, w) == g.key = w.key /\ w.pairs \subseteq g.pairs

\* The wanted group is the plain one when that has pairings, and the sealed one otherwise.
GroupThere(w, plain, sealed) ==
    w # NoGroup => IF plain.pairs # {} THEN Covers(plain, w)
                   ELSE sealed # None /\ Covers(sealed.value, w)

\* A tree that holds what is wanted.
Stored(w, tree) ==
    /\ tree \in [fields : Secrets, protected : Locked]
    /\ Filed(tree.protected) /\ Sound(tree.fields.group) /\ tree.fields.group.later = FALSE
    /\ Current(tree.fields.unit, tree.protected.unit) = w.unit
    /\ GroupThere(w.group, tree.fields.group, tree.protected.group)

\* What a run keeps aside it cannot open, but for a group it has opened
\* and whose later fields it does not know.
KeptAside(w, secrets, locked, account, version) ==
    /\ version # "plain" /\ secrets.unit = 0 => ~Opens(locked.unit, account)
    /\ KnowsGroups(version) => ~Opens(locked.pending, account)
    /\ version = "later" => ~Opens(locked.group, account)
    /\ KnowsGroups(version) /\ w.group # NoGroup /\ secrets.group.pairs = {}
         => ~Opens(locked.group, account)

\* The settings and sealed entries of a run hold what is wanted.
Good(w, secrets, locked, account, version) ==
    /\ secrets \in Secrets /\ Filed(locked) /\ Sound(secrets.group)
    /\ version # "later" => secrets.group.later = FALSE
    /\ Current(secrets.unit, locked.unit) = w.unit
    /\ GroupThere(w.group, secrets.group, locked.group)
    /\ KeptAside(w, secrets, locked, account, version)

\* A wanted group has pairings.
WantOK(w) ==
    /\ w \in Secrets
    /\ w.group # NoGroup => w.group.pairs # {}

\* The inductive invariant: the file and the run each hold what is wanted, and
\* the file gives the run its own settings back.
IInv ==
    /\ WantOK(want) /\ made \in Nat
    /\ Stored(want, file)
    /\ run # None =>
         /\ run \in RunState
         /\ Good(want, run.secrets, run.locked, run.account, run.version)
         /\ Unseal(file, run.account, run.version).secrets = run.secrets
    /\ run = None /\ held # None =>
         Unseal(file, held.account, held.version).secrets = held.secrets

-----------------------------------------------------------------------------
(* Loading. *)

\* A version that does not list the later fields loses nothing else.
LEMMA ListedSound ==
  ASSUME NEW g, Sound(g), NEW v
  PROVE  /\ Sound(Listed(g, v)) /\ Listed(g, v).key = g.key /\ Listed(g, v).pairs = g.pairs
         /\ v # "later" => Listed(g, v).later = FALSE
         /\ v = "later" \/ g.later = FALSE => Listed(g, v) = g
  <1> DEFINE h == [g EXCEPT !.later = FALSE]
  <1>1. CASE v = "later"
    BY <1>1 DEF Listed
  <1>2. CASE v # "later"
    <2>1. Listed(g, v) = h
      BY <1>2 DEF Listed
    <2>2. h.key = g.key /\ h.pairs = g.pairs
      BY DEF Sound, Group
    <2>3. h.later = FALSE
      BY DEF Sound, Group
    <2>4. h \in Group
      BY DEF Sound, Group
    <2>5. g.later = FALSE => h = g
      BY DEF Sound, Group
    <2>6. g.key = 0 => h = NoGroup
      <3>1. NoGroup.later = FALSE
        BY DEF NoGroup
      <3> QED BY <2>5, <3>1 DEF Sound
    <2>7. Sound(h)
      BY <2>2, <2>4, <2>6 DEF Sound
    <2> QED BY <1>2, <2>1, <2>2, <2>3, <2>5, <2>7
  <1> QED BY <1>1, <1>2

\* A load takes the password that counts, and keeps aside only what it cannot open.
LEMMA UnsealUnitGood ==
  ASSUME NEW w, NEW tree, Stored(w, tree), NEW a \in Accounts
  PROVE  LET u == UnsealUnit(tree, a) IN
         /\ u.unit \in Nat /\ u.locked \in SealedBy(Nat) \union {None}
         /\ u.locked # None => u.locked.value # 0
         /\ Current(u.unit, u.locked) = w.unit
         /\ u.unit = 0 => ~Opens(u.locked, a)
  BY NoneAssumption DEF Stored, UnsealUnit, Current, Opens, Filed, Locked, SealedBy, Secrets

\* A load takes the wanted group, or keeps it aside.
LEMMA UnsealGroupGood ==
  ASSUME NEW w, WantOK(w), NEW tree, Stored(w, tree), NEW a \in Accounts, NEW v \in Versions
  PROVE  LET g == UnsealGroup(tree, a, v) IN
         /\ Sound(g.group) /\ Filed(g.locked)
         /\ v # "later" => g.group.later = FALSE
         /\ GroupThere(w.group, g.group, g.locked.group)
         /\ KnowsGroups(v) => ~Opens(g.locked.pending, a)
         /\ v = "later" => ~Opens(g.locked.group, a)
         /\ KnowsGroups(v) /\ w.group # NoGroup /\ g.group.pairs = {}
              => ~Opens(g.locked.group, a)
  <1> DEFINE plain == tree.fields.group
             stored == tree.protected.group
             aside == tree.protected.pending
             kept(x, y) == [unit |-> None, group |-> x, pending |-> y]
             g == UnsealGroup(tree, a, v)
  <1>1. /\ Sound(plain) /\ plain.later = FALSE
        /\ GroupThere(w.group, plain, stored)
        /\ stored # None => SoundSealed(stored)
        /\ aside # None => SoundSealed(aside) /\ aside.value.pairs = {}
        /\ stored \in SealedBy(Group) \union {None} /\ aside \in SealedBy(Group) \union {None}
    BY DEF Stored, Filed, Locked
  <1>2. ASSUME NEW x \in {stored, None}, NEW y \in {aside, None} PROVE Filed(kept(x, y))
    BY <1>1, <1>2 DEF Filed, Locked
  <1>3. NothingSealed = kept(None, None)
    BY DEF NothingSealed
  <1>4. ~Opens(None, a)
    BY DEF Opens
  <1>5. w.group # NoGroup => w.group.pairs # {}
    BY DEF WantOK
  <1>6. CASE ~KnowsGroups(v)
    BY <1>1, <1>2, <1>6 DEF UnsealGroup, KnowsGroups
  <1>7. CASE KnowsGroups(v) /\ plain.pairs # {}
    BY <1>1, <1>2, <1>3, <1>4, <1>7 DEF UnsealGroup, GroupThere
  <1>8. CASE KnowsGroups(v) /\ plain.pairs = {} /\ Opens(stored, a)
    <2>1. g = [group |-> Listed(stored.value, v),
               locked |-> IF HasUnlisted(stored.value, v) THEN kept(stored, None)
                          ELSE NothingSealed]
      BY <1>8 DEF UnsealGroup
    <2>2. stored # None /\ SoundSealed(stored)
      BY <1>1, <1>8 DEF Opens
    <2>3. /\ Sound(g.group) /\ g.group.key = stored.value.key
          /\ g.group.pairs = stored.value.pairs
          /\ v # "later" => g.group.later = FALSE
      <3> DEFINE h == Listed(stored.value, v)
      <3>1. Sound(stored.value) /\ g.group = h
        BY <2>1, <2>2 DEF SoundSealed
      <3>2. /\ Sound(h) /\ h.key = stored.value.key /\ h.pairs = stored.value.pairs
            /\ v # "later" => h.later = FALSE
        BY <3>1, ListedSound
      <3> HIDE DEF g, h
      <3> QED BY <2>2, <3>1, <3>2
    <2>4. GroupThere(w.group, g.group, g.locked.group) /\ (w.group # NoGroup => g.group.pairs # {})
      BY <1>1, <1>5, <1>8, <2>3 DEF GroupThere, Covers
    <2>5. g.locked = kept(stored, None) \/ g.locked = kept(None, None)
      BY <2>1, <1>3
    <2>6. v = "later" => g.locked = kept(None, None)
      BY <2>1, <1>3 DEF HasUnlisted
    <2> QED BY <1>2, <1>4, <2>3, <2>4, <2>5, <2>6
  <1>9. CASE KnowsGroups(v) /\ plain.pairs = {} /\ ~Opens(stored, a) /\ Opens(aside, a)
    <2>1. g = [group |-> Listed(aside.value, v), locked |-> kept(stored, None)]
      BY <1>9 DEF UnsealGroup
    <2>2. aside # None /\ SoundSealed(aside) /\ aside.value.pairs = {}
      BY <1>1, <1>9 DEF Opens
    <2>3. Sound(g.group) /\ g.group.pairs = {} /\ (v # "later" => g.group.later = FALSE)
      <3> DEFINE h == Listed(aside.value, v)
      <3>1. Sound(aside.value) /\ g.group = h
        BY <2>1, <2>2 DEF SoundSealed
      <3>2. /\ Sound(h) /\ h.key = aside.value.key /\ h.pairs = aside.value.pairs
            /\ v # "later" => h.later = FALSE
        BY <3>1, ListedSound
      <3> HIDE DEF g, h
      <3> QED BY <2>2, <3>1, <3>2
    <2>4. GroupThere(w.group, g.group, stored)
      BY <1>1, <1>9, <2>3 DEF GroupThere
    <2> QED BY <1>2, <1>4, <1>9, <2>1, <2>3, <2>4
  <1>10. CASE KnowsGroups(v) /\ plain.pairs = {} /\ ~Opens(stored, a) /\ ~Opens(aside, a)
    <2>1. g = [group |-> plain, locked |-> kept(stored, aside)]
      BY <1>10 DEF UnsealGroup
    <2> QED BY <1>1, <1>2, <1>10, <2>1
  <1> QED BY <1>6, <1>7, <1>8, <1>9, <1>10

\* What a load makes of a good tree is good.
LEMMA UnsealGood ==
  ASSUME NEW w, WantOK(w), NEW tree, Stored(w, tree), NEW a \in Accounts, NEW v \in Versions
  PROVE  LET u == Unseal(tree, a, v) IN Good(w, u.secrets, u.locked, a, v)
  <1>1. CASE v = "plain"
    BY <1>1 DEF Unseal, Stored, Good, KeptAside, KnowsGroups
  <1>2. CASE v # "plain"
    <2> DEFINE u == UnsealUnit(tree, a)
               g == UnsealGroup(tree, a, v)
               t == Unseal(tree, a, v)
    <2>1. t = [secrets |-> [unit |-> u.unit, group |-> g.group],
               locked |-> [g.locked EXCEPT !.unit = u.locked]]
      BY <1>2 DEF Unseal
    <2>2. /\ Sound(g.group) /\ Filed(g.locked)
          /\ v # "later" => g.group.later = FALSE
          /\ GroupThere(w.group, g.group, g.locked.group)
          /\ KnowsGroups(v) => ~Opens(g.locked.pending, a)
          /\ v = "later" => ~Opens(g.locked.group, a)
          /\ KnowsGroups(v) /\ w.group # NoGroup /\ g.group.pairs = {}
              => ~Opens(g.locked.group, a)
      BY UnsealGroupGood
    <2>3. /\ u.unit \in Nat /\ u.locked \in SealedBy(Nat) \union {None}
          /\ u.locked # None => u.locked.value # 0
          /\ Current(u.unit, u.locked) = w.unit
          /\ u.unit = 0 => ~Opens(u.locked, a)
      BY UnsealUnitGood
    <2>4. /\ t.secrets.unit = u.unit /\ t.secrets.group = g.group /\ t.locked.unit = u.locked
          /\ t.locked.group = g.locked.group /\ t.locked.pending = g.locked.pending
          /\ t.locked \in Locked /\ t.secrets \in Secrets
      BY <2>1, <2>2, <2>3 DEF Filed, Locked, Sound, Secrets
    <2>5. Filed(t.locked)
      BY <2>2, <2>3, <2>4 DEF Filed
    <2>6. KeptAside(w, t.secrets, t.locked, a, v)
      BY <2>2, <2>3, <2>4 DEF KeptAside
    <2> QED BY <2>2, <2>3, <2>4, <2>5, <2>6 DEF Good
  <1> QED BY <1>1, <1>2

-----------------------------------------------------------------------------
(* Saving. *)

\* The blank group.
LEMMA NoGroupSound ==
  Sound(NoGroup) /\ NoGroup.pairs = {} /\ NoGroup.key = 0 /\ NoGroup.later = FALSE
  BY DEF Sound, NoGroup, Group

\* The password a save writes counts, and comes out of the file again.
LEMMA SealUnit ==
  ASSUME NEW w, NEW s, NEW l, NEW a \in Accounts, NEW v \in Versions, NEW fails,
         Good(w, s, l, a, v)
  PROVE  LET t == Seal(s, l, a, v, fails) IN
         /\ t.fields.unit \in Nat /\ t.protected.unit \in SealedBy(Nat) \union {None}
         /\ t.protected.unit # None => t.protected.unit.value # 0
         /\ Current(t.fields.unit, t.protected.unit) = w.unit
         /\ v = "plain" => t.fields.unit = s.unit
         /\ v # "plain" => UnsealUnit(t, a).unit = s.unit
  <1> DEFINE t == Seal(s, l, a, v, fails)
             seals == v # "plain" /\ s.unit # 0 /\ "unit" \notin fails
  <1>1. /\ s.unit \in Nat /\ l.unit \in SealedBy(Nat) \union {None}
        /\ l.unit # None => l.unit.value # 0
        /\ Current(s.unit, l.unit) = w.unit
        /\ v # "plain" /\ s.unit = 0 => ~Opens(l.unit, a)
    BY DEF Good, Secrets, Filed, Locked, KeptAside
  <1>2. CASE seals
    <2>1. t.fields.unit = 0 /\ t.protected.unit = Sealed(a, s.unit)
      BY <1>2 DEF Seal
    <2>2. /\ Sealed(a, s.unit) \in SealedBy(Nat) /\ Sealed(a, s.unit).value = s.unit
          /\ Sealed(a, s.unit) # None /\ Opens(Sealed(a, s.unit), a)
      BY <1>1, NoneAssumption DEF Sealed, SealedBy, Opens
    <2> QED BY <1>1, <1>2, <2>1, <2>2 DEF Current, UnsealUnit
  <1>3. CASE ~seals
    <2>1. t.fields.unit = s.unit
      BY <1>3 DEF Seal
    <2>2. t.protected.unit = IF v # "plain" /\ s.unit # 0 THEN None ELSE l.unit
      BY <1>3 DEF Seal
    <2>3. UnsealUnit(t, a).unit = s.unit \/ v = "plain"
      BY <1>1, <2>1, <2>2 DEF UnsealUnit
    <2> QED BY <1>1, <2>1, <2>2, <2>3 DEF Current
  <1> QED BY <1>2, <1>3

\* The group of the settings s is in the tree t, and comes out of it again.
GroupSealed(w, s, a, v, t) ==
    /\ Sound(t.fields.group) /\ t.fields.group.later = FALSE
    /\ t.protected.group \in SealedBy(Group) \union {None}
    /\ t.protected.group # None => SoundSealed(t.protected.group)
    /\ t.protected.pending \in SealedBy(Group) \union {None}
    /\ t.protected.pending # None =>
         SoundSealed(t.protected.pending) /\ t.protected.pending.value.pairs = {}
    /\ GroupThere(w.group, t.fields.group, t.protected.group)
    /\ v = "plain" => t.fields.group = s.group
    /\ v # "plain" => UnsealGroup(t, a, v).group = s.group

\* No save drops or covers the wanted group, not even one of a new identity.
LEMMA SealGroup ==
  ASSUME NEW w, WantOK(w), NEW s, NEW l, NEW a \in Accounts, NEW v \in Versions,
         Good(w, s, l, a, v), NEW fails \in Fails(v, l)
  PROVE  GroupSealed(w, s, a, v, Seal(s, l, a, v, fails))
  <1> DEFINE t == Seal(s, l, a, v, fails)
             seals == KnowsGroups(v) /\ ~Blank(s.group) /\ "group" \notin fails
             carries == KnowsGroups(v) /\ Opens(l.group, a)
             whole == [s.group EXCEPT !.later = @ \/ (carries /\ l.group.value.later)]
  <1>1. /\ Sound(s.group) /\ (v # "later" => s.group.later = FALSE)
        /\ l.group \in SealedBy(Group) \union {None}
        /\ l.group # None => SoundSealed(l.group)
        /\ l.pending \in SealedBy(Group) \union {None}
        /\ l.pending # None => SoundSealed(l.pending) /\ l.pending.value.pairs = {}
        /\ GroupThere(w.group, s.group, l.group)
    BY DEF Good, Filed, Locked
  <1>2. /\ KnowsGroups(v) => ~Opens(l.pending, a)
        /\ v = "later" => ~Opens(l.group, a)
        /\ KnowsGroups(v) /\ w.group # NoGroup /\ s.group.pairs = {} => ~Opens(l.group, a)
    BY DEF Good, KeptAside
  <1>3. w.group # NoGroup => w.group.pairs # {}
    BY DEF WantOK
  <1>4. "group" \in fails => l.group = None
    BY DEF Fails
  <1>5. CASE ~KnowsGroups(v)
    <2>1. t.fields.group = s.group /\ t.protected.group = l.group /\ t.protected.pending = l.pending
      BY <1>5 DEF Seal
    <2>2. s.group.later = FALSE
      BY <1>1, <1>5 DEF KnowsGroups
    <2>3. UnsealGroup(t, a, v).group = t.fields.group
      BY <1>5 DEF UnsealGroup
    <2> QED BY <1>1, <2>1, <2>2, <2>3 DEF GroupSealed
  <1>6. CASE KnowsGroups(v) /\ ~seals
    <2>1. t.fields.group = s.group /\ t.protected.pending = l.pending
      BY <1>6 DEF Seal
    <2>2. t.protected.group = IF Opens(l.group, a) /\ Blank(s.group) THEN None ELSE l.group
      BY <1>6 DEF Seal
    <2>3. ~Opens(t.protected.group, a)
      BY <1>4, <1>6, <2>2 DEF Opens
    <2>4. s.group.later = FALSE
      <3>1. CASE Blank(s.group)
        BY <1>1, <3>1, NoGroupSound DEF Sound, Blank
      <3>2. CASE "group" \in fails
        BY <1>1, <3>2 DEF Fails
      <3> QED BY <1>6, <3>1, <3>2
    <2>5. GroupThere(w.group, s.group, t.protected.group)
      BY <1>1, <1>2, <1>6, <2>2 DEF GroupThere, Blank
    <2>6. ~Opens(t.protected.pending, a)
      BY <1>2, <1>6, <2>1
    <2>7. UnsealGroup(t, a, v).group = t.fields.group
      BY <1>6, <2>3, <2>6 DEF UnsealGroup
    <2>8. t.protected.group \in {None, l.group}
      BY <2>2
    <2> QED BY <1>1, <2>1, <2>4, <2>5, <2>7, <2>8 DEF GroupSealed
  <1>7. ASSUME seals
        PROVE  /\ Sound(whole) /\ whole.key = s.group.key /\ whole.pairs = s.group.pairs
               /\ whole.key # 0 /\ Listed(whole, v) = s.group
               /\ Sealed(a, whole) \in SealedBy(Group) /\ SoundSealed(Sealed(a, whole))
               /\ Opens(Sealed(a, whole), a) /\ Sealed(a, whole).value = whole
    <2> DEFINE unlisted == carries /\ l.group.value.later
    <2>1. s.group \in Group /\ s.group.key # 0 /\ \A p \in s.group.pairs : p[1] = s.group.key
      BY <1>1, <1>7, NoGroupSound DEF Sound, Blank
    <2>2. whole.key = s.group.key /\ whole.pairs = s.group.pairs
      BY <2>1 DEF Group
    <2>3. whole \in Group
      BY <2>1 DEF Group
    <2>4. Sound(whole)
      BY <2>1, <2>2, <2>3 DEF Sound
    <2>5. Listed(whole, v) = s.group
      <3>1. CASE v = "later"
        <4>1. ~unlisted
          BY <1>2, <3>1
        <4>2. whole = s.group
          BY <4>1, <2>1 DEF Group
        <4> QED BY <3>1, <4>2 DEF Listed
      <3>2. CASE v # "later"
        <4>1. Listed(whole, v) = [whole EXCEPT !.later = FALSE]
          BY <3>2 DEF Listed
        <4>2. s.group.later = FALSE
          BY <1>1, <3>2
        <4> QED BY <2>1, <4>1, <4>2, ZenonT(60) DEF Group
      <3> QED BY <3>1, <3>2
    <2> HIDE DEF whole
    <2>6. /\ Sealed(a, whole) \in SealedBy(Group) /\ Sealed(a, whole).value = whole
          /\ Sealed(a, whole).by = a
      BY <2>3 DEF Sealed, SealedBy
    <2>7. Sealed(a, whole) # None
      BY <2>6, NoneAssumption
    <2> QED BY <2>1, <2>2, <2>4, <2>5, <2>6, <2>7 DEF SoundSealed, Opens
  <1>8. CASE seals /\ GroupSlot(s.group, l.group, a) = "group"
    <2>1. /\ t.fields.group = NoGroup /\ t.protected.group = Sealed(a, whole)
          /\ t.protected.pending = l.pending
      BY <1>8 DEF Seal
    <2>2. GroupThere(w.group, NoGroup, Sealed(a, whole))
      BY <1>1, <1>2, <1>3, <1>7, <1>8, NoGroupSound DEF GroupThere, GroupSlot, Covers, Opens
    <2>3. UnsealGroup(t, a, v).group = Listed(whole, v)
      BY <1>7, <1>8, <2>1, NoGroupSound DEF UnsealGroup
    <2> QED BY <1>1, <1>7, <1>8, <2>1, <2>2, <2>3, NoGroupSound DEF KnowsGroups, GroupSealed
  <1>9. CASE seals /\ GroupSlot(s.group, l.group, a) = "pending"
    <2>1. s.group.pairs = {} /\ l.group # None /\ ~Opens(l.group, a)
      BY <1>9 DEF GroupSlot
    <2>2. /\ t.fields.group = NoGroup /\ t.protected.group = l.group
          /\ t.protected.pending = Sealed(a, whole)
      BY <1>9, <2>1 DEF Seal
    <2>3. UnsealGroup(t, a, v).group = Listed(whole, v)
      BY <1>7, <1>9, <2>1, <2>2, NoGroupSound DEF UnsealGroup
    <2>4. GroupThere(w.group, NoGroup, l.group)
      BY <1>1, <2>1, NoGroupSound DEF GroupThere
    <2> QED BY <1>1, <1>7, <1>9, <2>1, <2>2, <2>3, <2>4, NoGroupSound, ZenonT(60) DEF KnowsGroups,
               GroupSealed
  <1> QED BY <1>5, <1>6, <1>8, <1>9 DEF GroupSlot

\* A save of good settings writes a good tree that gives them back.
LEMMA SealGood ==
  ASSUME NEW w, WantOK(w), NEW s, NEW l, NEW a \in Accounts, NEW v \in Versions,
         Good(w, s, l, a, v), NEW fails \in Fails(v, l)
  PROVE  LET t == Seal(s, l, a, v, fails) IN
         Stored(w, t) /\ Unseal(t, a, v).secrets = s
  <1> DEFINE t == Seal(s, l, a, v, fails)
  <1>1. /\ t.fields.unit \in Nat /\ t.protected.unit \in SealedBy(Nat) \union {None}
        /\ t.protected.unit # None => t.protected.unit.value # 0
        /\ Current(t.fields.unit, t.protected.unit) = w.unit
        /\ v = "plain" => t.fields.unit = s.unit
        /\ v # "plain" => UnsealUnit(t, a).unit = s.unit
    BY SealUnit
  <1>2. GroupSealed(w, s, a, v, t)
    BY SealGroup
  <1>3. \E u, g, pu, pg, pp :
           t = [fields |-> [unit |-> u, group |-> g],
                protected |-> [unit |-> pu, group |-> pg, pending |-> pp]]
    BY DEF Seal
  <1>4. PICK u, g, pu, pg, pp :
           t = [fields |-> [unit |-> u, group |-> g],
                protected |-> [unit |-> pu, group |-> pg, pending |-> pp]]
    BY <1>3
  <1>5. t.fields = [unit |-> u, group |-> g]
        /\ t.protected = [unit |-> pu, group |-> pg, pending |-> pp]
    BY <1>4
  <1>6. t.fields \in Secrets
    BY <1>1, <1>2, <1>5 DEF Secrets, Sound, GroupSealed
  <1>7. t.protected \in Locked
    BY <1>1, <1>2, <1>5 DEF Locked, GroupSealed
  <1>8. t \in [fields : Secrets, protected : Locked]
    BY <1>4, <1>5, <1>6, <1>7
  <1>9. Filed(t.protected)
    BY <1>1, <1>2, <1>7 DEF Filed, GroupSealed
  <1>10. Stored(w, t)
    BY <1>1, <1>2, <1>8, <1>9 DEF Stored, GroupSealed
  <1>11. Unseal(t, a, v).secrets = s
    <2>1. s = [unit |-> s.unit, group |-> s.group]
      BY DEF Good, Secrets
    <2>2. CASE v = "plain"
      <3>1. t.fields = [unit |-> t.fields.unit, group |-> t.fields.group]
        BY <1>5
      <3> QED BY <1>1, <1>2, <2>1, <2>2, <3>1 DEF Unseal, GroupSealed
    <2>3. CASE v # "plain"
      <3>1. Unseal(t, a, v).secrets
              = [unit |-> UnsealUnit(t, a).unit, group |-> UnsealGroup(t, a, v).group]
        BY <2>3 DEF Unseal
      <3> QED BY <1>1, <1>2, <2>1, <2>3, <3>1 DEF GroupSealed
    <2> QED BY <2>2, <2>3
  <1> QED BY <1>10, <1>11

-----------------------------------------------------------------------------
(* The steps. *)

\* Nothing is wanted of an empty file.
LEMMA InitInv == Init => IInv
  <1> SUFFICES ASSUME Init PROVE IInv
    OBVIOUS
  <1>1. NoSecrets \in Secrets /\ NothingSealed \in Locked
    BY NoGroupSound DEF NoSecrets, NothingSealed, Secrets, Locked, Sound
  <1>2. file \in [fields : Secrets, protected : Locked]
    BY <1>1 DEF Init
  <1>3. Filed(file.protected)
    BY <1>1 DEF Init, Filed, NothingSealed
  <1>4. Stored(want, file)
    BY <1>2, <1>3, NoGroupSound DEF Init, Stored, Current, GroupThere, NoSecrets, NothingSealed
  <1>5. WantOK(want)
    BY <1>1 DEF Init, WantOK, NoSecrets
  <1> QED BY <1>4, <1>5 DEF Init, IInv

\* A change of the settings keeps the invariant if what it makes of them is good.
LEMMA SaveGood ==
  ASSUME IInv, run # None, NEW s, NEW l, Save(s, l), WantOK(want'), made' \in Nat,
         Good(want', s, l, run.account, run.version)
  PROVE  IInv'
  <1>1. run \in RunState
    BY DEF IInv
  <1>2. /\ run' = [run EXCEPT !.secrets = s, !.locked = l]
        /\ s \in Secrets /\ l \in Locked
    BY DEF Save, Good, Filed
  <1>3. /\ run' \in RunState /\ run'.secrets = s /\ run'.locked = l
        /\ run'.account = run.account /\ run'.version = run.version
        /\ run.account \in Accounts /\ run.version \in Versions
    BY <1>1, <1>2 DEF RunState
  <1>4. PICK fails \in Fails(run.version, l) :
           file' = Seal(s, l, run.account, run.version, fails)
    BY DEF Save
  <1>5. Stored(want', file') /\ Unseal(file', run.account, run.version).secrets = s
    BY <1>3, <1>4, SealGood
  <1>6. run' # None
    BY <1>3, NoneAssumption
  <1> QED BY <1>3, <1>5, <1>6 DEF IInv

\* Starting the program keeps the invariant.
LEMMA StartGood == ASSUME IInv, NEW v \in Versions, NEW a \in Accounts, Start(v, a) PROVE IInv'
  <1> DEFINE u == Unseal(file, a, v)
  <1>1. WantOK(want) /\ Stored(want, file)
    BY DEF IInv
  <1>2. Good(want, u.secrets, u.locked, a, v)
    BY <1>1, UnsealGood
  <1>3. run' = [version |-> v, account |-> a, secrets |-> u.secrets, locked |-> u.locked]
    BY DEF Start
  <1>4. u.secrets \in Secrets /\ u.locked \in Locked
    BY <1>2 DEF Good, Filed
  <1>5. /\ run' \in RunState /\ run'.version = v /\ run'.account = a
        /\ run'.secrets = u.secrets /\ run'.locked = u.locked
    BY <1>3, <1>4 DEF RunState
  <1>6. run' # None
    BY <1>5, NoneAssumption
  <1>7. Stored(want, file') /\ Unseal(file', a, v).secrets = u.secrets
    <2>1. CASE NeedsSave(file, v)
      <3>1. PICK fails \in Fails(v, u.locked) : file' = Seal(u.secrets, u.locked, a, v, fails)
        BY <2>1 DEF Start
      <3> QED BY <1>1, <1>2, <3>1, SealGood
    <2>2. CASE ~NeedsSave(file, v)
      <3>1. file' = file
        BY <2>2 DEF Start
      <3> QED BY <1>1, <3>1
    <2> QED BY <2>1, <2>2
  <1>8. want' = want /\ made' = made
    BY DEF Start
  <1> QED BY <1>2, <1>5, <1>6, <1>7, <1>8 DEF IInv

\* A new password takes the old one's place.
LEMMA StorePasswordGood == ASSUME IInv, StorePassword PROVE IInv'
  <1> DEFINE s == [run.secrets EXCEPT !.unit = made']
  <1>1. /\ run # None /\ run \in RunState /\ made \in Nat /\ WantOK(want)
        /\ Good(want, run.secrets, run.locked, run.account, run.version)
    BY DEF IInv, StorePassword
  <1>2. made' \in Nat /\ made' # 0 /\ want' = [want EXCEPT !.unit = made']
    BY <1>1 DEF StorePassword
  <1>3. Save(s, run.locked)
    BY DEF StorePassword
  <1>4. s \in Secrets /\ s.unit = made' /\ s.group = run.secrets.group
    BY <1>1, <1>2 DEF Good, Secrets
  <1>5. want' \in Secrets /\ want'.unit = made' /\ want'.group = want.group
    BY <1>1, <1>2 DEF WantOK, Secrets
  <1> HIDE DEF s
  <1>6. Good(want', s, run.locked, run.account, run.version)
    BY <1>1, <1>2, <1>4, <1>5 DEF Good, Current, KeptAside
  <1> QED BY <1>1, <1>2, <1>3, <1>5, <1>6, SaveGood DEF WantOK

\* A removed password is removed where it was kept aside too.
LEMMA RemovePasswordGood == ASSUME IInv, RemovePassword PROVE IInv'
  <1> DEFINE s == [run.secrets EXCEPT !.unit = 0]
             l == [run.locked EXCEPT !.unit = None]
  <1>1. /\ run # None /\ run \in RunState /\ made' \in Nat /\ WantOK(want)
        /\ Good(want, run.secrets, run.locked, run.account, run.version)
    BY DEF IInv, RemovePassword
  <1>2. want' = [want EXCEPT !.unit = 0] /\ Save(s, l)
    BY DEF RemovePassword
  <1>3. s \in Secrets /\ s.unit = 0 /\ s.group = run.secrets.group
    BY <1>1 DEF Good, Secrets
  <1>4. /\ l \in Locked /\ l.unit = None
        /\ l.group = run.locked.group /\ l.pending = run.locked.pending
    BY <1>1 DEF Good, Filed, Locked
  <1>5. want' \in Secrets /\ want'.unit = 0 /\ want'.group = want.group
    BY <1>1, <1>2 DEF WantOK, Secrets
  <1> HIDE DEF s, l
  <1>6. Filed(l)
    BY <1>1, <1>4 DEF Good, Filed
  <1>7. Good(want', s, l, run.account, run.version)
    BY <1>1, <1>3, <1>4, <1>5, <1>6 DEF Good, Current, KeptAside, Opens
  <1> QED BY <1>1, <1>2, <1>5, <1>7, SaveGood DEF WantOK

\* A change of the group in use keeps the invariant.
LEMMA GroupChange ==
  ASSUME IInv, run # None, NEW g, Sound(g), made' \in Nat,
         run.version # "later" => g.later = FALSE,
         want' \in Secrets, want'.unit = want.unit,
         \/ want'.group = want.group /\ g.pairs = run.secrets.group.pairs /\ g.pairs = {}
         \/ want'.group = NoGroup
         \/ want'.group = g /\ g.pairs # {},
         Save([run.secrets EXCEPT !.group = g], run.locked)
  PROVE  IInv'
  <1> DEFINE s == [run.secrets EXCEPT !.group = g]
  <1>1. /\ run \in RunState /\ WantOK(want)
        /\ Good(want, run.secrets, run.locked, run.account, run.version)
    BY DEF IInv
  <1>2. s \in Secrets /\ s.unit = run.secrets.unit /\ s.group = g
    BY <1>1 DEF Good, Secrets, Sound
  <1> HIDE DEF s
  <1>3. GroupThere(want'.group, s.group, run.locked.group)
    BY <1>1, <1>2 DEF Good, GroupThere, Covers
  <1>4. KeptAside(want', s, run.locked, run.account, run.version)
    BY <1>1, <1>2 DEF Good, KeptAside
  <1>5. Good(want', s, run.locked, run.account, run.version)
    BY <1>1, <1>2, <1>3, <1>4 DEF Good
  <1>6. WantOK(want')
    BY <1>1 DEF WantOK
  <1> QED BY <1>5, <1>6, SaveGood DEF s

\* A new identity has no pairings to be confused with.
LEMMA MintIdentityGood == ASSUME IInv, MintIdentity PROVE IInv'
  <1> DEFINE old == run.secrets.group
             g == [old EXCEPT !.key = made', !.later = (run.version = "later")]
  <1>1. run # None /\ Sound(old) /\ made' \in Nat /\ made' # 0 /\ Blank(old)
    BY DEF IInv, Good, MintIdentity
  <1>2. old = NoGroup
    BY <1>1 DEF Sound, Blank
  <1>3. g.key = made' /\ g.pairs = {} /\ old.pairs = {}
    BY <1>2 DEF NoGroup
  <1>4. run.version # "later" => g.later = FALSE
    BY <1>2 DEF NoGroup
  <1>5. g \in Group
    <2>1. (run.version = "later") \in BOOLEAN
      OBVIOUS
    <2>2. old \in Group
      BY <1>1 DEF Sound
    <2> QED BY <1>1, <2>1, <2>2 DEF Group
  <1>6. Sound(g)
    BY <1>1, <1>3, <1>5 DEF Sound
  <1>7. want' = want /\ want \in Secrets
    BY DEF MintIdentity, IInv, WantOK
  <1>8. Save([run.secrets EXCEPT !.group = g], run.locked)
    BY DEF MintIdentity
  <1> HIDE DEF g
  <1> QED BY <1>1, <1>3, <1>4, <1>6, <1>7, <1>8, GroupChange

\* Pairing makes the group in use the wanted one.
LEMMA PairGood == ASSUME IInv, Pair PROVE IInv'
  <1> DEFINE old == run.secrets.group
             g == [old EXCEPT !.pairs = @ \union {<<old.key, made'>>}]
  <1>1. /\ run # None /\ Sound(old) /\ made' \in Nat /\ old.key # 0
        /\ run.version # "later" => old.later = FALSE
        /\ want \in Secrets
    BY DEF IInv, Good, Pair, WantOK
  <1>2. old \in Group
    BY <1>1 DEF Sound
  <1>3. g.key = old.key /\ g.pairs = old.pairs \union {<<old.key, made'>>}
    BY <1>2 DEF Group
  <1>4. g.later = old.later
    BY <1>2 DEF Group
  <1>5. g \in Group
    BY <1>1, <1>2 DEF Group
  <1>6. Sound(g)
    BY <1>1, <1>3, <1>5 DEF Sound
  <1>7. want' = [want EXCEPT !.group = g] /\ Save([run.secrets EXCEPT !.group = g], run.locked)
    BY DEF Pair
  <1> HIDE DEF g
  <1>8. want' \in Secrets /\ want'.unit = want.unit /\ want'.group = g
    BY <1>1, <1>5, <1>7 DEF Secrets
  <1> QED BY <1>1, <1>3, <1>4, <1>6, <1>7, <1>8, GroupChange

\* Unpairing leaves the group in use the wanted one, or none.
LEMMA UnpairGood == ASSUME IInv, Unpair PROVE IInv'
  <1> DEFINE old == run.secrets.group
  <1>1. /\ run # None /\ Sound(old) /\ made' \in Nat
        /\ run.version # "later" => old.later = FALSE
        /\ want \in Secrets
    BY DEF IInv, Good, Unpair, WantOK
  <1>2. PICK p \in old.pairs :
          LET g == [old EXCEPT !.pairs = @ \ {p}] IN
          /\ want' = [want EXCEPT !.group = IF g.pairs = {} THEN NoGroup ELSE g]
          /\ Save([run.secrets EXCEPT !.group = g], run.locked)
    BY DEF Unpair
  <1> DEFINE g == [old EXCEPT !.pairs = @ \ {p}]
             left == IF g.pairs = {} THEN NoGroup ELSE g
  <1>3. old \in Group
    BY <1>1 DEF Sound
  <1>4. g.key = old.key /\ g.pairs = old.pairs \ {p}
    BY <1>3 DEF Group
  <1>5. g.later = old.later
    BY <1>3 DEF Group
  <1>6. g \in Group
    BY <1>3 DEF Group
  <1>7. old.key # 0
    BY <1>1, <1>2, NoGroupSound DEF Sound
  <1>8. Sound(g)
    BY <1>1, <1>4, <1>6, <1>7 DEF Sound
  <1>9. want' = [want EXCEPT !.group = left] /\ Save([run.secrets EXCEPT !.group = g], run.locked)
    BY <1>2
  <1>10. left \in Group /\ (left = NoGroup \/ (left = g /\ g.pairs # {}))
    BY <1>6, NoGroupSound DEF Sound
  <1> HIDE DEF g, left
  <1>11. want' \in Secrets /\ want'.unit = want.unit /\ want'.group = left
    BY <1>1, <1>9, <1>10 DEF Secrets
  <1> QED BY <1>1, <1>5, <1>8, <1>9, <1>10, <1>11, GroupChange

\* A run that ends has nothing that is not saved.
LEMMA StopGood == ASSUME IInv, Stop PROVE IInv'
  <1>1. run # None /\ run' = None /\ held' = run /\ UNCHANGED <<file, want, made>>
    BY DEF Stop
  <1> QED BY <1>1 DEF IInv

\* Every step keeps the invariant.
LEMMA NextInv == IInv /\ [Next]_vars => IInv'
  <1> SUFFICES ASSUME IInv, [Next]_vars PROVE IInv'
    OBVIOUS
  <1>1. CASE UNCHANGED vars
    BY <1>1 DEF vars, IInv
  <1> QED BY <1>1, StartGood, StorePasswordGood, RemovePasswordGood, MintIdentityGood, PairGood,
             UnpairGood, StopGood DEF Next

\* The file, and beside it the running program, hold what the user stored, for
\* any accounts and any number of runs of any versions (unseal_with, seal_with).
THEOREM SecretsAccounted == Spec => []IInv
  BY InitInv, NextInv, PTL DEF Spec

\* No password and no pairing is lost or parted from its identity, and a run of
\* the same version and account loads what the last one had.
THEOREM SecretsAreKept == Spec => []SecretsKept
  <1>1. IInv => SecretsKept
    <2> SUFFICES ASSUME IInv PROVE SecretsKept
      OBVIOUS
    <2>1. Stored(want, file)
      BY DEF IInv
    <2>2. NeverLost
      <3>1. want.unit # 0 =>
              \/ file.fields.unit = want.unit
              \/ file.protected.unit # None /\ file.protected.unit.value = want.unit
        BY <2>1 DEF Stored, Current
      <3>2. want.group # NoGroup =>
              \E g \in Groups : g.key = want.group.key /\ want.group.pairs \subseteq g.pairs
        BY <2>1 DEF Stored, GroupThere, Covers, Groups, Entries
      <3> QED BY <3>1, <3>2 DEF NeverLost
    <2>3. Together
      BY <2>1 DEF Stored, Filed, SoundSealed, Sound, Together, Groups, Entries
    <2>4. ReloadKeeps
      BY DEF IInv, ReloadKeeps
    <2> QED BY <2>2, <2>3, <2>4 DEF SecretsKept
  <1> QED BY <1>1, SecretsAccounted, PTL

-----------------------------------------------------------------------------
(* SettingsFile: what was printed and saved last (PrintedInv, KeptInv) is in *)
(* config.json and in every text a process still holds that may be written   *)
(* there. It rests on one process saving at a time (AloneInv): outside a     *)
(* moment when both save, config.json.tmp and the open handle are of the one *)
(* that does. A step in which both save ends all promises (OverlapInv), so   *)
(* each action is proved for the others.                                     *)

Values == [key : Nat, setting : Nat]
Texts == [whole : BOOLEAN, here : BOOLEAN, key : Nat, setting : Nat]
Saves == {"open", "write", "rename"}
Places == [app |-> {"off", "idle", "saved", "failed"} \cup Saves,
           link |-> {"off", "load", "check", "saved", "failed"} \cup Saves]
Process(p) == [at : Places[p], mem : Values, keep : BOOLEAN,
               doing : {"none", "setting", "enable", "link"}, out : Values, before : Nat]
App == fProc["app"]
Link == fProc["link"]
Config == fDisk.config
Resting == {"off", "idle"}

FileTypes ==
    /\ fDisk \in [config : Texts, tmp : Texts]
    /\ fHandle \in [Settings!Processes -> {"none", "tmp", "config"}]
    /\ DOMAIN fProc = Settings!Processes /\ App \in Process("app") /\ Link \in Process("link")
    /\ fWeb \in [on : BOOLEAN, secret : Nat] /\ fKeys \in Nat

\* What holds of a process and of the web UI whoever else runs.
ProcessInv ==
    /\ Config.whole => Config.here
    /\ \A p \in Settings!Processes :
          /\ fHandle[p] # "none" => fProc[p].at = "write"
          /\ fProc[p].at = "off" => fProc[p] = Settings!NotRunning
          /\ fProc[p].keep => fProc[p].at \notin Saves
    /\ App.at = "idle" => App.doing = "none"
    /\ App.doing \in {"enable", "link"} => App.mem.key # 0
    /\ fWeb.on => /\ App.at # "off" /\ fWeb.secret # 0 /\ App.doing # "enable"
                  /\ fWeb.secret = IF App.doing = "link" THEN App.before ELSE App.mem.key

\* One writes while the other rests: config.json.tmp holds what it wrote, and
\* config.json what was loaded for the check.
AloneInv ==
    ~fBoth =>
        /\ Link.at = "off" \/ App.at \in Resting
        /\ \A p \in Settings!Processes :
              /\ fProc[p].at = "write" => fHandle[p] = "tmp" /\ ~fDisk.tmp.whole
              /\ fProc[p].at = "rename" => fDisk.tmp = Settings!Text(fProc[p].out.key, fProc[p].out.setting)
        /\ Link.at = "check" /\ Link.mem.key # 0 => Config.whole /\ Config.key = Link.mem.key

\* The setting saved last is in config.json and in what a link's save holds.
KeptInv ==
    fKept # 0 =>
        /\ ~fBoth /\ Config.whole /\ Config.setting = fKept
        /\ ~Link.keep /\ Link.at \in {"load"} \cup Saves => Link.mem.setting = fKept
        /\ Link.at \in Saves => Link.out.setting = fKept

\* The key printed last is in config.json and in whatever may be saved or gone back to.
PrintedInv ==
    fPrinted # 0 =>
        /\ ~fBoth /\ Config.whole /\ Config.key = fPrinted
        /\ App.at # "off" /\ ~App.keep =>
              /\ App.doing # "enable"
              /\ App.doing # "link" => App.mem.key \in {0, fPrinted} /\ (App.at \in Saves => App.out.key = fPrinted)
              /\ App.doing = "link" => App.at # "saved" /\ App.before = fPrinted
        /\ Link.at = "load" /\ ~Link.keep => Link.mem.key = fPrinted
        /\ Link.at \notin Saves

NotedTypes == fBoth \in BOOLEAN /\ fPrinted \in Nat /\ fKept \in Nat

SettingsInv == NotedTypes /\ FileTypes /\ ProcessInv /\ AloneInv /\ KeptInv /\ PrintedInv

\* Of a step: both save, the app's save gets its rename done, the link's run is over.
Overlap == fBoth \/ (Link'.at # "off" /\ App'.at \notin Resting)
Renames == App.at = "rename" /\ App'.at = "saved"
Ends == Link.at = "check" /\ Link'.at = "off"
Printable == Link.mem.key # 0 /\ Link.mem.key = Link.before /\ App.mem.key \in {0, Link.before}

LEMMA NoteIs ==
    ASSUME Settings!Note
    PROVE  /\ fBoth' = (Overlap /\ ~(Link'.at = "off" /\ App'.at \in Resting))
           /\ fPrinted' = IF Overlap \/ (Renames /\ App.doing = "link") THEN 0
                          ELSE IF Ends /\ Printable THEN Link.before ELSE fPrinted
           /\ fKept' = IF Overlap THEN 0 ELSE IF Renames THEN App.out.setting ELSE fKept
  BY DEF Settings!Note, Settings!At, Overlap, Renames, Ends, Printable, App, Link, Resting

LEMMA TheOther == Settings!Other("app") = "link" /\ Settings!Other("link") = "app"
  BY DEF Settings!Other, Settings!Processes

LEMMA SettingsInitInv == Settings!Init => SettingsInv
  <1> SUFFICES ASSUME Settings!Init PROVE SettingsInv
    OBVIOUS
  <1>1. fDisk = [config |-> Settings!Missing, tmp |-> Settings!Missing]
    BY DEF Settings!Init
  <1>2. fHandle = [p \in Settings!Processes |-> "none"] /\ fProc = [p \in Settings!Processes |-> Settings!NotRunning]
    BY DEF Settings!Init
  <1>3. fWeb = [on |-> FALSE, secret |-> 0] /\ fKeys = 0 /\ fBoth = FALSE /\ fPrinted = 0 /\ fKept = 0
    BY DEF Settings!Init
  <1>4. App = Settings!NotRunning /\ Link = Settings!NotRunning
    BY <1>2 DEF App, Link, Settings!Processes
  <1>5. Settings!NotRunning \in Process("app") /\ Settings!NotRunning \in Process("link")
    BY DEF Settings!NotRunning, Process, Places, Values, Settings!Defaults
  <1>6. FileTypes
    BY <1>1, <1>2, <1>3, <1>4, <1>5 DEF FileTypes, Texts, Settings!Missing
  <1>7. ProcessInv
    BY <1>1, <1>2, <1>3, <1>4 DEF ProcessInv, Config, Settings!Missing, Settings!NotRunning, Saves
  <1>8. AloneInv
    BY <1>2, <1>4 DEF AloneInv, Settings!NotRunning
  <1> QED BY <1>3, <1>6, <1>7, <1>8 DEF SettingsInv, NotedTypes, KeptInv, PrintedInv

\* When both save nothing is promised.
LEMMA OverlapInv ==
    ASSUME SettingsInv, Settings!Note, FileTypes', ProcessInv', Overlap
    PROVE  SettingsInv'
  <1>1. fPrinted' = 0 /\ fKept' = 0 /\ fBoth' \in BOOLEAN
    BY NoteIs
  <1>2. ~fBoth' => Link'.at = "off" /\ App'.at \in Resting
    BY NoteIs
  <1>3. \A p \in Settings!Processes : fProc'[p] = App' \/ fProc'[p] = Link'
    BY DEF Settings!Processes, App, Link
  <1>4. AloneInv'
    <2> SUFFICES ASSUME ~fBoth' PROVE AloneInv'
      BY DEF AloneInv
    <2>1. Link'.at = "off" /\ App'.at \in Resting
      BY <1>2
    <2>2. \A p \in Settings!Processes : fProc'[p].at \notin {"write", "rename"}
      BY <1>3, <2>1 DEF Resting
    <2> QED BY <2>1, <2>2 DEF AloneInv
  <1> QED BY <1>1, <1>4 DEF SettingsInv, NotedTypes, KeptInv, PrintedInv

\* Otherwise the promises are those of before, but for a save of the app and
\* the end of a link's run.
LEMMA AloneIs ==
    ASSUME SettingsInv, Settings!Note, FileTypes', ProcessInv', ~Overlap
    PROVE  /\ fBoth = FALSE /\ fBoth' = FALSE /\ (Link'.at = "off" \/ App'.at \in Resting)
           /\ NotedTypes'
           /\ fKept' = IF Renames THEN App.out.setting ELSE fKept
           /\ fPrinted' = IF Renames /\ App.doing = "link" THEN 0
                          ELSE IF Ends /\ Printable THEN Link.before ELSE fPrinted
  <1>1. fBoth = FALSE /\ fBoth' = FALSE /\ (Link'.at = "off" \/ App'.at \in Resting)
    BY NoteIs DEF Overlap, SettingsInv, NotedTypes
  <1>2. fKept' = IF Renames THEN App.out.setting ELSE fKept
    BY NoteIs
  <1>3. fPrinted' = IF Renames /\ App.doing = "link" THEN 0
                    ELSE IF Ends /\ Printable THEN Link.before ELSE fPrinted
    BY NoteIs
  <1>4. App.out.setting \in Nat /\ Link.before \in Nat
    BY DEF SettingsInv, FileTypes, Process, Values
  <1> QED BY <1>1, <1>2, <1>3, <1>4 DEF SettingsInv, NotedTypes

-----------------------------------------------------------------------------
\* A step of a save, of either process.
LEMMA OpenInv == ASSUME SettingsInv, NEW p \in Settings!Processes, Settings!Open(p), Settings!Note PROVE SettingsInv'
  <1>1. /\ fProc[p].at = "open" /\ fDisk' = [fDisk EXCEPT !.tmp = Settings!Torn]
        /\ fHandle' = [fHandle EXCEPT ![p] = "tmp"] /\ fProc' = [fProc EXCEPT ![p].at = "write"]
        /\ UNCHANGED <<fWeb, fKeys>>
    BY DEF Settings!Open, Settings!At
  <1>2. FileTypes'
    BY <1>1, ZenonT(60) DEF SettingsInv, FileTypes, Texts, Values, Settings!Processes, App, Link, Config,
       Process, Places, Saves, Settings!Torn
  <1>3. ProcessInv'
    BY <1>1 DEF SettingsInv, FileTypes, ProcessInv, Texts, Values, Settings!Processes, App, Link, Config,
       Process, Places, Saves, Settings!Torn
  <1>4. CASE ~Overlap
    <2>1. fBoth = FALSE /\ fBoth' = FALSE /\ (Link'.at = "off" \/ App'.at \in Resting) /\ NotedTypes'
      BY <1>2, <1>3, <1>4, AloneIs
    <2>2. fKept' = fKept /\ fPrinted' = fPrinted
      BY <1>1, <1>2, <1>3, <1>4, AloneIs DEF Renames, Ends, Printable, SettingsInv, FileTypes, App, Link,
         Settings!Processes, Process, Settings!Torn
    <2>3. AloneInv'
      BY <1>1, <1>2, <2>1, <2>2 DEF SettingsInv, FileTypes, ProcessInv, AloneInv, Settings!Processes, App,
         Link, Config, Process, Places, Saves, Resting, Settings!Torn
    <2>4. KeptInv'
      BY <1>1, <1>2, <2>1, <2>2 DEF SettingsInv, FileTypes, ProcessInv, AloneInv, KeptInv,
         Settings!Processes, App, Link, Config, Process, Places, Saves, Resting, Settings!Torn
    <2>5. PrintedInv'
      BY <1>1, <1>2, <2>1, <2>2 DEF SettingsInv, FileTypes, ProcessInv, AloneInv, PrintedInv,
         Settings!Processes, App, Link, Config, Process, Places, Saves, Resting, Settings!Torn
    <2> QED BY <1>2, <1>3, <2>1, <2>3, <2>4, <2>5 DEF SettingsInv
  <1> QED BY <1>2, <1>3, <1>4, OverlapInv

LEMMA WriteInv == ASSUME SettingsInv, NEW p \in Settings!Processes, Settings!Write(p), Settings!Note PROVE SettingsInv'
  <1>1. /\ fProc[p].at = "write"
        /\ fHandle' = [fHandle EXCEPT ![p] = "none"] /\ fProc' = [fProc EXCEPT ![p].at = "rename"]
        /\ fDisk' \in [config : Texts, tmp : Texts] /\ (fDisk'.config.whole => fDisk'.config.here)
        /\ fHandle[p] = "tmp" /\ fHandle[Settings!Other(p)] = "none" /\ ~fDisk.tmp.whole =>
              fDisk' = [fDisk EXCEPT !.tmp = Settings!Text(fProc[p].out.key, fProc[p].out.setting)]
        /\ UNCHANGED <<fWeb, fKeys>>
    <2>1. fProc[p].at = "write" /\ UNCHANGED <<fWeb, fKeys>>
      BY DEF Settings!Write, Settings!At
    <2>2. fHandle' = [fHandle EXCEPT ![p] = "none"] /\ fProc' = [fProc EXCEPT ![p].at = "rename"]
      BY DEF Settings!Write
    <2> DEFINE text == Settings!Text(fProc[p].out.key, fProc[p].out.setting)
               f == fHandle[p]
    <2>3. text \in Texts /\ Settings!Torn \in Texts /\ text.here /\ ~Settings!Torn.whole
      BY DEF SettingsInv, FileTypes, Texts, Values, Settings!Text, Settings!Torn, Settings!Processes, App,
         Link, Process
    <2>4. fDisk \in [config : Texts, tmp : Texts] /\ (Config.whole => Config.here)
      BY DEF SettingsInv, FileTypes, ProcessInv
    <2>5. CASE f \in Settings!Files
      <3>1. PICK mixed \in (IF fHandle[Settings!Other(p)] = f \/ fDisk[f].whole THEN BOOLEAN ELSE {FALSE}) :
                   fDisk' = [fDisk EXCEPT ![f] = IF mixed THEN Settings!Torn ELSE text]
        BY <2>5 DEF Settings!Write
      <3>2. fDisk' \in [config : Texts, tmp : Texts] /\ (fDisk'.config.whole => fDisk'.config.here)
        BY <2>3, <2>4, <2>5, <3>1 DEF Settings!Files, Config
      <3>3. f = "tmp" /\ fHandle[Settings!Other(p)] = "none" /\ ~fDisk.tmp.whole => mixed = FALSE
        BY <3>1
      <3> QED BY <2>1, <2>2, <3>1, <3>2, <3>3
    <2>6. CASE f \notin Settings!Files
      <3>1. fDisk' = fDisk /\ f # "tmp"
        BY <2>6 DEF Settings!Write, Settings!Files
      <3> QED BY <2>1, <2>2, <2>4, <3>1 DEF Config
    <2> QED BY <2>5, <2>6
  <1>2. FileTypes'
    BY <1>1 DEF SettingsInv, FileTypes, Texts, Values, Settings!Processes, App, Link, Config, Process,
       Places, Saves
  <1>3. ProcessInv'
    BY <1>1 DEF SettingsInv, FileTypes, ProcessInv, Texts, Values, Settings!Processes, App, Link, Config,
       Process, Places, Saves
  <1>4. CASE ~Overlap
    <2>1. fBoth = FALSE /\ fBoth' = FALSE /\ (Link'.at = "off" \/ App'.at \in Resting) /\ NotedTypes'
      BY <1>2, <1>3, <1>4, AloneIs
    <2>2. fKept' = fKept /\ fPrinted' = fPrinted
      BY <1>1, <1>2, <1>3, <1>4, AloneIs DEF Renames, Ends, Printable, SettingsInv, FileTypes, App, Link,
         Settings!Processes, Process
    <2>3. fDisk' = [fDisk EXCEPT !.tmp = Settings!Text(fProc[p].out.key, fProc[p].out.setting)]
      <3>1. fHandle[p] = "tmp" /\ ~fDisk.tmp.whole
        BY <1>1, <2>1 DEF SettingsInv, AloneInv
      <3>2. fHandle[Settings!Other(p)] = "none"
        BY <1>1, <2>1, TheOther DEF SettingsInv, FileTypes, ProcessInv, Settings!Processes, App, Link,
           Resting
      <3> QED BY <1>1, <3>1, <3>2
    <2>4. AloneInv'
      BY <1>1, <1>2, <2>1, <2>2, <2>3 DEF SettingsInv, FileTypes, ProcessInv, AloneInv,
         Settings!Processes, App, Link, Config, Process, Places, Saves, Resting, Settings!Text
    <2>5. KeptInv'
      BY <1>1, <1>2, <2>1, <2>2, <2>3 DEF SettingsInv, FileTypes, ProcessInv, AloneInv, KeptInv,
         Settings!Processes, App, Link, Config, Process, Places, Saves, Resting, Settings!Text
    <2>6. PrintedInv'
      BY <1>1, <1>2, <2>1, <2>2, <2>3 DEF SettingsInv, FileTypes, ProcessInv, AloneInv, PrintedInv,
         Settings!Processes, App, Link, Config, Process, Places, Saves, Resting, Settings!Text
    <2> QED BY <1>2, <1>3, <2>1, <2>4, <2>5, <2>6 DEF SettingsInv
  <1> QED BY <1>2, <1>3, <1>4, OverlapInv

LEMMA WriteFailsInv == ASSUME SettingsInv, NEW p \in Settings!Processes, Settings!WriteFails(p), Settings!Note PROVE SettingsInv'
  <1>1. /\ fProc[p].at \in {"open", "write"} /\ UNCHANGED fDisk
        /\ fHandle' = [fHandle EXCEPT ![p] = "none"] /\ fProc' = [fProc EXCEPT ![p].at = "failed"]
        /\ UNCHANGED <<fWeb, fKeys>>
    BY DEF Settings!WriteFails
  <1>2. FileTypes'
    BY <1>1 DEF SettingsInv, FileTypes, Texts, Values, Settings!Processes, App, Link, Config, Process,
       Places, Saves
  <1>3. ProcessInv'
    BY <1>1 DEF SettingsInv, FileTypes, ProcessInv, Texts, Values, Settings!Processes, App, Link, Config,
       Process, Places, Saves
  <1>4. CASE ~Overlap
    <2>1. fBoth = FALSE /\ fBoth' = FALSE /\ (Link'.at = "off" \/ App'.at \in Resting) /\ NotedTypes'
      BY <1>2, <1>3, <1>4, AloneIs
    <2>2. fKept' = fKept /\ fPrinted' = fPrinted
      BY <1>1, <1>2, <1>3, <1>4, AloneIs DEF Renames, Ends, Printable, SettingsInv, FileTypes, App, Link,
         Settings!Processes, Process
    <2>3. AloneInv'
      BY <1>1, <1>2, <2>1, <2>2 DEF SettingsInv, FileTypes, ProcessInv, AloneInv, Settings!Processes, App,
         Link, Config, Process, Places, Saves, Resting
    <2>4. KeptInv'
      BY <1>1, <1>2, <2>1, <2>2 DEF SettingsInv, FileTypes, ProcessInv, AloneInv, KeptInv,
         Settings!Processes, App, Link, Config, Process, Places, Saves, Resting
    <2>5. PrintedInv'
      BY <1>1, <1>2, <2>1, <2>2 DEF SettingsInv, FileTypes, ProcessInv, AloneInv, PrintedInv,
         Settings!Processes, App, Link, Config, Process, Places, Saves, Resting
    <2> QED BY <1>2, <1>3, <2>1, <2>3, <2>4, <2>5 DEF SettingsInv
  <1> QED BY <1>2, <1>3, <1>4, OverlapInv

LEMMA RenameInv == ASSUME SettingsInv, NEW p \in Settings!Processes, Settings!Rename(p), Settings!Note PROVE SettingsInv'
  <1>1. /\ fProc[p].at = "rename" /\ fDisk.tmp.here /\ fDisk' = [config |-> fDisk.tmp, tmp |-> Settings!Missing]
        /\ fHandle' \in [Settings!Processes -> {"none", "config"}]
        /\ \A q \in Settings!Processes : fHandle[q] = "none" => fHandle'[q] = "none"
        /\ fProc' = [fProc EXCEPT ![p].at = "saved"]
        /\ UNCHANGED <<fWeb, fKeys>>
    BY DEF Settings!Rename, Settings!At
  <1>2. FileTypes'
    BY <1>1 DEF SettingsInv, FileTypes, Texts, Values, Settings!Processes, App, Link, Config, Process,
       Places, Saves, Settings!Missing
  <1>3. ProcessInv'
    BY <1>1 DEF SettingsInv, FileTypes, ProcessInv, Texts, Values, Settings!Processes, App, Link, Config,
       Process, Places, Saves, Settings!Missing
  <1>4. CASE ~Overlap
    <2>1. fBoth = FALSE /\ fBoth' = FALSE /\ (Link'.at = "off" \/ App'.at \in Resting) /\ NotedTypes'
      BY <1>2, <1>3, <1>4, AloneIs
    <2>2. /\ fKept' = IF p = "app" THEN App.out.setting ELSE fKept
         /\ fPrinted' = IF p = "app" /\ App.doing = "link" THEN 0 ELSE fPrinted
      BY <1>1, <1>2, <1>3, <1>4, AloneIs DEF Renames, Ends, Printable, SettingsInv, FileTypes, App, Link,
         Settings!Processes, Process, Settings!Missing
    <2>3. AloneInv'
      BY <1>1, <1>2, <2>1, <2>2 DEF SettingsInv, FileTypes, ProcessInv, AloneInv, Settings!Processes, App,
         Link, Config, Process, Places, Saves, Resting, Settings!Missing, Settings!Text
    <2>4. KeptInv'
      BY <1>1, <1>2, <2>1, <2>2 DEF SettingsInv, FileTypes, ProcessInv, AloneInv, KeptInv,
         Settings!Processes, App, Link, Config, Process, Places, Saves, Resting, Settings!Missing,
         Settings!Text
    <2>5. PrintedInv'
      BY <1>1, <1>2, <2>1, <2>2 DEF SettingsInv, FileTypes, ProcessInv, AloneInv, PrintedInv,
         Settings!Processes, App, Link, Config, Process, Places, Saves, Resting, Settings!Missing,
         Settings!Text
    <2> QED BY <1>2, <1>3, <2>1, <2>3, <2>4, <2>5 DEF SettingsInv
  <1> QED BY <1>2, <1>3, <1>4, OverlapInv

LEMMA RenameFailsInv == ASSUME SettingsInv, NEW p \in Settings!Processes, Settings!RenameFails(p), Settings!Note PROVE SettingsInv'
  <1>1. /\ fProc[p].at = "rename" /\ fDisk' = [fDisk EXCEPT !.tmp = Settings!Missing]
        /\ fHandle' = [q \in Settings!Processes |-> IF fHandle[q] = "tmp" THEN "none" ELSE fHandle[q]]
        /\ fProc' = [fProc EXCEPT ![p].at = "failed"]
        /\ UNCHANGED <<fWeb, fKeys>>
    BY DEF Settings!RenameFails, Settings!At
  <1>2. FileTypes'
    BY <1>1, ZenonT(60) DEF SettingsInv, FileTypes, Texts, Values, Settings!Processes, App, Link, Config,
       Process, Places, Saves, Settings!Missing
  <1>3. ProcessInv'
    BY <1>1 DEF SettingsInv, FileTypes, ProcessInv, Texts, Values, Settings!Processes, App, Link, Config,
       Process, Places, Saves, Settings!Missing
  <1>4. CASE ~Overlap
    <2>1. fBoth = FALSE /\ fBoth' = FALSE /\ (Link'.at = "off" \/ App'.at \in Resting) /\ NotedTypes'
      BY <1>2, <1>3, <1>4, AloneIs
    <2>2. fKept' = fKept /\ fPrinted' = fPrinted
      BY <1>1, <1>2, <1>3, <1>4, AloneIs DEF Renames, Ends, Printable, SettingsInv, FileTypes, App, Link,
         Settings!Processes, Process, Settings!Missing
    <2>3. AloneInv'
      BY <1>1, <1>2, <2>1, <2>2 DEF SettingsInv, FileTypes, ProcessInv, AloneInv, Settings!Processes, App,
         Link, Config, Process, Places, Saves, Resting, Settings!Missing
    <2>4. KeptInv'
      BY <1>1, <1>2, <2>1, <2>2 DEF SettingsInv, FileTypes, ProcessInv, AloneInv, KeptInv,
         Settings!Processes, App, Link, Config, Process, Places, Saves, Resting, Settings!Missing
    <2>5. PrintedInv'
      BY <1>1, <1>2, <2>1, <2>2 DEF SettingsInv, FileTypes, ProcessInv, AloneInv, PrintedInv,
         Settings!Processes, App, Link, Config, Process, Places, Saves, Resting, Settings!Missing
    <2> QED BY <1>2, <1>3, <2>1, <2>3, <2>4, <2>5 DEF SettingsInv
  <1> QED BY <1>2, <1>3, <1>4, OverlapInv

LEMMA KillInv == ASSUME SettingsInv, NEW p \in Settings!Processes, Settings!Kill(p), Settings!Note PROVE SettingsInv'
  <1>1. /\ fProc[p].at # "off" /\ UNCHANGED fDisk
        /\ fHandle' = [fHandle EXCEPT ![p] = "none"] /\ fProc' = [fProc EXCEPT ![p] = Settings!NotRunning]
        /\ fWeb' = (IF p = "app" THEN [on |-> FALSE, secret |-> 0] ELSE fWeb) /\ UNCHANGED fKeys
    BY DEF Settings!Kill, Settings!At
  <1>2. FileTypes'
    BY <1>1 DEF SettingsInv, FileTypes, Texts, Values, Settings!Processes, App, Link, Config, Process,
       Places, Saves, Settings!NotRunning, Settings!Defaults
  <1>3. ProcessInv'
    BY <1>1 DEF SettingsInv, FileTypes, ProcessInv, Texts, Values, Settings!Processes, App, Link, Config,
       Process, Places, Saves, Settings!NotRunning, Settings!Defaults
  <1>4. CASE ~Overlap
    <2>1. fBoth = FALSE /\ fBoth' = FALSE /\ (Link'.at = "off" \/ App'.at \in Resting) /\ NotedTypes'
      BY <1>2, <1>3, <1>4, AloneIs
    <2>2. fKept' = fKept /\ fPrinted' = IF p = "link" /\ Link.at = "check" /\ Printable THEN Link.before ELSE fPrinted
      BY <1>1, <1>2, <1>3, <1>4, AloneIs DEF Renames, Ends, Printable, SettingsInv, FileTypes, App, Link,
         Settings!Processes, Process, Settings!NotRunning, Settings!Defaults
    <2>3. AloneInv'
      BY <1>1, <1>2, <2>1, <2>2 DEF SettingsInv, FileTypes, ProcessInv, AloneInv, Settings!Processes, App,
         Link, Config, Process, Places, Saves, Resting, Settings!NotRunning, Settings!Defaults, Printable
    <2>4. KeptInv'
      BY <1>1, <1>2, <2>1, <2>2 DEF SettingsInv, FileTypes, ProcessInv, AloneInv, KeptInv,
         Settings!Processes, App, Link, Config, Process, Places, Saves, Resting, Settings!NotRunning,
         Settings!Defaults, Printable
    <2>5. PrintedInv'
      BY <1>1, <1>2, <2>1, <2>2 DEF SettingsInv, FileTypes, ProcessInv, AloneInv, PrintedInv,
         Settings!Processes, App, Link, Config, Process, Places, Saves, Resting, Settings!NotRunning,
         Settings!Defaults, Printable
    <2> QED BY <1>2, <1>3, <2>1, <2>3, <2>4, <2>5 DEF SettingsInv
  <1> QED BY <1>2, <1>3, <1>4, OverlapInv

-----------------------------------------------------------------------------
\* What load_from leaves, for the process that calls it.
LEMMA LoadIs ==
    ASSUME FileTypes, ProcessInv, NEW p \in Settings!Processes, NEW start \in Process(p), NEW next \in Places[p],
           Settings!Load(p, start, next)
    PROVE  /\ DOMAIN fProc' = Settings!Processes /\ \A q \in Settings!Processes \ {p} : fProc'[q] = fProc[q]
           /\ fProc'[p] \in Process(p) /\ fProc'[p].at = next
           /\ fProc'[p].doing = start.doing /\ fProc'[p].before = start.before /\ fProc'[p].out = start.out
           /\ fDisk' \in [config : Texts, tmp : Texts] /\ fDisk'.tmp = fDisk.tmp
           /\ Config'.whole => Config'.here
           /\ Config.whole => Config' = Config
           /\ \/ fProc'[p].mem = start.mem /\ (Config.whole => fProc'[p].keep)
              \/ Config.whole /\ fProc'[p].mem = [key |-> Config.key, setting |-> Config.setting]
  <1>1. CASE fDisk' = fDisk /\ Config.here /\ fProc' = [fProc EXCEPT ![p] = [start EXCEPT !.at = next, !.keep = TRUE]]
    BY <1>1 DEF FileTypes, ProcessInv, Process, Config, Settings!Processes
  <1>2. CASE fDisk' = fDisk /\ ~Config.here /\ fProc' = [fProc EXCEPT ![p] = [start EXCEPT !.at = next]]
    BY <1>2 DEF FileTypes, ProcessInv, Process, Config, Settings!Processes
  <1>3. CASE /\ fDisk' = fDisk /\ Config.whole
             /\ fProc' = [fProc EXCEPT ![p] =
                   [start EXCEPT !.at = next, !.mem = [key |-> Config.key, setting |-> Config.setting]]]
    BY <1>3 DEF FileTypes, ProcessInv, Process, Config, Texts, Values, Settings!Processes
  <1>4. CASE /\ fDisk' = [fDisk EXCEPT !.config = Settings!Missing] /\ Config.here /\ ~Config.whole
             /\ fProc' = [fProc EXCEPT ![p] = [start EXCEPT !.at = next]]
    BY <1>4 DEF FileTypes, ProcessInv, Process, Config, Texts, Settings!Missing, Settings!Processes
  <1> QED BY <1>1, <1>2, <1>3, <1>4 DEF Settings!Load, Config

\* What try_save_to_with starts, for the app and for the link.
LEMMA AppSaves ==
    ASSUME FileTypes, NEW settings \in Process("app"), NEW doing \in {"none", "setting", "enable", "link"},
           NEW before \in Nat, Settings!SaveStarts("app", settings, doing, before)
    PROVE  /\ DOMAIN fProc' = Settings!Processes /\ Link' = Link /\ App' \in Process("app")
           /\ App'.at = (IF settings.keep THEN "failed" ELSE "open")
           /\ App'.mem = settings.mem /\ App'.keep = settings.keep /\ App'.doing = doing /\ App'.before = before
           /\ ~settings.keep => /\ App'.out.setting = settings.mem.setting
                                /\ App'.out.key = IF settings.mem.key = 0 /\ Config.whole THEN Config.key
                                                  ELSE settings.mem.key
  <1>1. CASE settings.keep
    <2>1. fProc' = [fProc EXCEPT !["app"] = [settings EXCEPT !.at = "failed", !.doing = doing, !.before = before]]
      BY <1>1 DEF Settings!SaveStarts
    <2>2. App' = [settings EXCEPT !.at = "failed", !.doing = doing, !.before = before]
      BY <2>1 DEF App, FileTypes, Settings!Processes
    <2>3. DOMAIN fProc' = Settings!Processes /\ Link' = Link
      BY <2>1 DEF Link, FileTypes
    <2> QED BY <1>1, <2>2, <2>3 DEF Process, Places
  <1>2. CASE ~settings.keep
    <2> DEFINE out == [key |-> IF settings.mem.key = 0 /\ Config.whole THEN Config.key ELSE settings.mem.key,
                       setting |-> settings.mem.setting]
    <2>1. settings.mem \in Values /\ out \in Values /\ out = [settings.mem EXCEPT !.key = Settings!KeyToSave(settings)]
      BY DEF FileTypes, Process, Values, Texts, Config, Settings!KeyToSave, Settings!StoredKey
    <2>2. fProc' = [fProc EXCEPT !["app"] = [settings EXCEPT
             !.at = "open", !.doing = doing, !.before = before, !.out = out]]
      BY <1>2, <2>1 DEF Settings!SaveStarts
    <2>3. out.setting = settings.mem.setting
          /\ out.key = IF settings.mem.key = 0 /\ Config.whole THEN Config.key ELSE settings.mem.key
      OBVIOUS
    <2> HIDE DEF out
    <2>4. App' = [settings EXCEPT !.at = "open", !.doing = doing, !.before = before, !.out = out]
      BY <2>2 DEF App, FileTypes, Settings!Processes
    <2>5. DOMAIN fProc' = Settings!Processes /\ Link' = Link
      BY <2>2 DEF Link, FileTypes
    <2>6. App' \in Process("app") /\ App'.at = "open" /\ App'.mem = settings.mem /\ App'.keep = settings.keep
          /\ App'.doing = doing /\ App'.before = before /\ App'.out = out
      BY <2>1, <2>4 DEF Process, Places, Saves
    <2> QED BY <1>2, <2>3, <2>5, <2>6
  <1> QED BY <1>1, <1>2

LEMMA LinkSaves ==
    ASSUME FileTypes, NEW settings \in Process("link"), NEW doing \in {"none", "setting", "enable", "link"},
           NEW before \in Nat, Settings!SaveStarts("link", settings, doing, before)
    PROVE  /\ DOMAIN fProc' = Settings!Processes /\ App' = App /\ Link' \in Process("link")
           /\ Link'.at = (IF settings.keep THEN "failed" ELSE "open")
           /\ Link'.mem = settings.mem /\ Link'.keep = settings.keep /\ Link'.doing = doing /\ Link'.before = before
           /\ ~settings.keep => /\ Link'.out.setting = settings.mem.setting
                                /\ Link'.out.key = IF settings.mem.key = 0 /\ Config.whole THEN Config.key
                                                  ELSE settings.mem.key
  <1>1. CASE settings.keep
    <2>1. fProc' = [fProc EXCEPT !["link"] = [settings EXCEPT !.at = "failed", !.doing = doing, !.before = before]]
      BY <1>1 DEF Settings!SaveStarts
    <2>2. Link' = [settings EXCEPT !.at = "failed", !.doing = doing, !.before = before]
      BY <2>1 DEF Link, FileTypes, Settings!Processes
    <2>3. DOMAIN fProc' = Settings!Processes /\ App' = App
      BY <2>1 DEF App, FileTypes
    <2> QED BY <1>1, <2>2, <2>3 DEF Process, Places
  <1>2. CASE ~settings.keep
    <2> DEFINE out == [key |-> IF settings.mem.key = 0 /\ Config.whole THEN Config.key ELSE settings.mem.key,
                       setting |-> settings.mem.setting]
    <2>1. settings.mem \in Values /\ out \in Values /\ out = [settings.mem EXCEPT !.key = Settings!KeyToSave(settings)]
      BY DEF FileTypes, Process, Values, Texts, Config, Settings!KeyToSave, Settings!StoredKey
    <2>2. fProc' = [fProc EXCEPT !["link"] = [settings EXCEPT
             !.at = "open", !.doing = doing, !.before = before, !.out = out]]
      BY <1>2, <2>1 DEF Settings!SaveStarts
    <2>3. out.setting = settings.mem.setting
          /\ out.key = IF settings.mem.key = 0 /\ Config.whole THEN Config.key ELSE settings.mem.key
      OBVIOUS
    <2> HIDE DEF out
    <2>4. Link' = [settings EXCEPT !.at = "open", !.doing = doing, !.before = before, !.out = out]
      BY <2>2 DEF Link, FileTypes, Settings!Processes
    <2>5. DOMAIN fProc' = Settings!Processes /\ App' = App
      BY <2>2 DEF App, FileTypes
    <2>6. Link' \in Process("link") /\ Link'.at = "open" /\ Link'.mem = settings.mem /\ Link'.keep = settings.keep
          /\ Link'.doing = doing /\ Link'.before = before /\ Link'.out = out
      BY <2>1, <2>4 DEF Process, Places, Saves
    <2> QED BY <1>2, <2>3, <2>5, <2>6
  <1> QED BY <1>1, <1>2

-----------------------------------------------------------------------------
\* The processes begin, the user acts, and the save is over.
LEMMA AppStartsInv == ASSUME SettingsInv, Settings!AppStarts, Settings!Note PROVE SettingsInv'
  <1>1. /\ DOMAIN fProc' = Settings!Processes /\ App'.at = "idle" /\ Link' = Link /\ App' \in Process("app")
        /\ App'.doing = "none" /\ App.at = "off"
        /\ fDisk' \in [config : Texts, tmp : Texts] /\ fDisk'.tmp = fDisk.tmp
        /\ (Config'.whole => Config'.here) /\ (Config.whole => Config' = Config)
        /\ \/ App'.mem.key = 0
           \/ Config.whole /\ App'.mem.key = Config.key
        /\ fWeb' = [on |-> FALSE, secret |-> 0] /\ UNCHANGED <<fHandle, fKeys>>
    <2>1. Settings!NotRunning \in Process("app") /\ "idle" \in Places["app"] /\ "app" \in Settings!Processes
      BY DEF Settings!NotRunning, Settings!Defaults, Process, Places, Values, Settings!Processes
    <2>2. Settings!Load("app", Settings!NotRunning, "idle") /\ fWeb' = [on |-> FALSE, secret |-> 0] /\ UNCHANGED <<fHandle, fKeys>>
          /\ App.at = "off"
      BY DEF Settings!AppStarts, Settings!At, App
    <2> QED BY <2>1, <2>2, LoadIs DEF SettingsInv, App, Link, Settings!NotRunning, Settings!Defaults,
               Settings!Processes
  <1>2. FileTypes'
    BY <1>1 DEF SettingsInv, FileTypes, Texts, Values, Settings!Processes, App, Link, Config, Process,
       Places, Saves
  <1>3. ProcessInv'
    BY <1>1 DEF SettingsInv, FileTypes, ProcessInv, Texts, Values, Settings!Processes, App, Link, Config,
       Process, Places, Saves
  <1>4. CASE ~Overlap
    <2>1. fBoth = FALSE /\ fBoth' = FALSE /\ (Link'.at = "off" \/ App'.at \in Resting) /\ NotedTypes'
      BY <1>2, <1>3, <1>4, AloneIs
    <2>2. fKept' = fKept /\ fPrinted' = fPrinted
      BY <1>1, <1>2, <1>3, <1>4, AloneIs DEF Renames, Ends, Printable, SettingsInv, FileTypes, App, Link,
         Settings!Processes, Process
    <2>3. AloneInv'
      BY <1>1, <1>2, <2>1, <2>2 DEF SettingsInv, FileTypes, ProcessInv, AloneInv, Settings!Processes, App,
         Link, Config, Process, Places, Saves, Resting
    <2>4. KeptInv'
      BY <1>1, <1>2, <2>1, <2>2 DEF SettingsInv, FileTypes, ProcessInv, AloneInv, KeptInv,
         Settings!Processes, App, Link, Config, Process, Places, Saves, Resting
    <2>5. PrintedInv'
      BY <1>1, <1>2, <2>1, <2>2 DEF SettingsInv, FileTypes, ProcessInv, AloneInv, PrintedInv,
         Settings!Processes, App, Link, Config, Process, Places, Saves, Resting
    <2> QED BY <1>2, <1>3, <2>1, <2>3, <2>4, <2>5 DEF SettingsInv
  <1> QED BY <1>2, <1>3, <1>4, OverlapInv

LEMMA LinkLoadsInv == ASSUME SettingsInv, Settings!LinkLoads, Settings!Note PROVE SettingsInv'
  <1>1. /\ DOMAIN fProc' = Settings!Processes /\ Link'.at = "load" /\ App' = App /\ Link' \in Process("link")
        /\ Link.at = "off"
        /\ fDisk' \in [config : Texts, tmp : Texts] /\ fDisk'.tmp = fDisk.tmp
        /\ (Config'.whole => Config'.here) /\ (Config.whole => Config' = Config)
        /\ Config.whole /\ ~Link'.keep => Link'.mem = [key |-> Config.key, setting |-> Config.setting]
        /\ UNCHANGED <<fWeb, fHandle, fKeys>>
    <2>1. Settings!NotRunning \in Process("link") /\ "load" \in Places["link"] /\ "link" \in Settings!Processes
      BY DEF Settings!NotRunning, Settings!Defaults, Process, Places, Values, Settings!Processes
    <2>2. Settings!Load("link", Settings!NotRunning, "load") /\ UNCHANGED <<fWeb, fHandle, fKeys>> /\ Link.at = "off"
      BY DEF Settings!LinkLoads, Settings!At, Link
    <2> QED BY <2>1, <2>2, LoadIs DEF SettingsInv, App, Link, Settings!Processes
  <1>2. FileTypes'
    BY <1>1 DEF SettingsInv, FileTypes, Texts, Values, Settings!Processes, App, Link, Config, Process,
       Places, Saves
  <1>3. ProcessInv'
    BY <1>1 DEF SettingsInv, FileTypes, ProcessInv, Texts, Values, Settings!Processes, App, Link, Config,
       Process, Places, Saves
  <1>4. CASE ~Overlap
    <2>1. fBoth = FALSE /\ fBoth' = FALSE /\ (Link'.at = "off" \/ App'.at \in Resting) /\ NotedTypes'
      BY <1>2, <1>3, <1>4, AloneIs
    <2>2. fKept' = fKept /\ fPrinted' = fPrinted
      BY <1>1, <1>2, <1>3, <1>4, AloneIs DEF Renames, Ends, Printable, SettingsInv, FileTypes, App, Link,
         Settings!Processes, Process
    <2>3. AloneInv'
      BY <1>1, <1>2, <2>1, <2>2 DEF SettingsInv, FileTypes, ProcessInv, AloneInv, Settings!Processes, App,
         Link, Config, Process, Places, Saves, Resting
    <2>4. KeptInv'
      BY <1>1, <1>2, <2>1, <2>2 DEF SettingsInv, FileTypes, ProcessInv, AloneInv, KeptInv,
         Settings!Processes, App, Link, Config, Process, Places, Saves, Resting
    <2>5. PrintedInv'
      BY <1>1, <1>2, <2>1, <2>2 DEF SettingsInv, FileTypes, ProcessInv, AloneInv, PrintedInv,
         Settings!Processes, App, Link, Config, Process, Places, Saves, Resting
    <2> QED BY <1>2, <1>3, <2>1, <2>3, <2>4, <2>5 DEF SettingsInv
  <1> QED BY <1>2, <1>3, <1>4, OverlapInv

LEMMA LinkPrintsInv == ASSUME SettingsInv, Settings!LinkPrints, Settings!Note PROVE SettingsInv'
  <1>1. /\ DOMAIN fProc' = Settings!Processes /\ Link'.at = "check" /\ App' = App /\ Link' \in Process("link")
        /\ Link.at \in {"saved", "failed"}
        /\ fDisk' \in [config : Texts, tmp : Texts] /\ fDisk'.tmp = fDisk.tmp
        /\ (Config'.whole => Config'.here) /\ (Config.whole => Config' = Config)
        /\ \/ Link'.mem.key = 0
           \/ Config.whole /\ Link'.mem.key = Config.key
        /\ UNCHANGED <<fWeb, fHandle, fKeys>>
    <2> DEFINE start == [Settings!NotRunning EXCEPT !.before = Link.mem.key]
    <2>1. start \in Process("link") /\ start.mem.key = 0 /\ "check" \in Places["link"] /\ "link" \in Settings!Processes
      BY DEF SettingsInv, FileTypes, Settings!NotRunning, Settings!Defaults, Process, Places, Values,
         Settings!Processes
    <2>2. Settings!Load("link", start, "check") /\ UNCHANGED <<fWeb, fHandle, fKeys>> /\ Link.at \in {"saved", "failed"}
      BY DEF Settings!LinkPrints, Link
    <2> HIDE DEF start
    <2> QED BY <2>1, <2>2, LoadIs DEF SettingsInv, App, Link, Settings!Processes
  <1>2. FileTypes'
    BY <1>1 DEF SettingsInv, FileTypes, Texts, Values, Settings!Processes, App, Link, Config, Process,
       Places, Saves
  <1>3. ProcessInv'
    BY <1>1 DEF SettingsInv, FileTypes, ProcessInv, Texts, Values, Settings!Processes, App, Link, Config,
       Process, Places, Saves
  <1>4. CASE ~Overlap
    <2>1. fBoth = FALSE /\ fBoth' = FALSE /\ (Link'.at = "off" \/ App'.at \in Resting) /\ NotedTypes'
      BY <1>2, <1>3, <1>4, AloneIs
    <2>2. fKept' = fKept /\ fPrinted' = fPrinted
      BY <1>1, <1>2, <1>3, <1>4, AloneIs DEF Renames, Ends, Printable, SettingsInv, FileTypes, App, Link,
         Settings!Processes, Process
    <2>3. AloneInv'
      BY <1>1, <1>2, <2>1, <2>2 DEF SettingsInv, FileTypes, ProcessInv, AloneInv, Settings!Processes, App,
         Link, Config, Process, Places, Saves, Resting
    <2>4. KeptInv'
      BY <1>1, <1>2, <2>1, <2>2 DEF SettingsInv, FileTypes, ProcessInv, AloneInv, KeptInv,
         Settings!Processes, App, Link, Config, Process, Places, Saves, Resting
    <2>5. PrintedInv'
      BY <1>1, <1>2, <2>1, <2>2 DEF SettingsInv, FileTypes, ProcessInv, AloneInv, PrintedInv,
         Settings!Processes, App, Link, Config, Process, Places, Saves, Resting
    <2> QED BY <1>2, <1>3, <2>1, <2>3, <2>4, <2>5 DEF SettingsInv
  <1> QED BY <1>2, <1>3, <1>4, OverlapInv

LEMMA LinkEndsInv == ASSUME SettingsInv, Settings!LinkEnds, Settings!Note PROVE SettingsInv'
  <1>1. /\ Link.at = "check" /\ fProc' = [fProc EXCEPT !["link"] = Settings!NotRunning]
        /\ UNCHANGED <<fDisk, fHandle, fWeb, fKeys>>
    BY DEF Settings!LinkEnds, Settings!At, Link
  <1>2. FileTypes'
    BY <1>1 DEF SettingsInv, FileTypes, Texts, Values, Settings!Processes, App, Link, Config, Process,
       Places, Saves, Settings!NotRunning, Settings!Defaults
  <1>3. ProcessInv'
    BY <1>1 DEF SettingsInv, FileTypes, ProcessInv, Texts, Values, Settings!Processes, App, Link, Config,
       Process, Places, Saves, Settings!NotRunning, Settings!Defaults
  <1>4. CASE ~Overlap
    <2>1. fBoth = FALSE /\ fBoth' = FALSE /\ (Link'.at = "off" \/ App'.at \in Resting) /\ NotedTypes'
      BY <1>2, <1>3, <1>4, AloneIs
    <2>2. fKept' = fKept /\ fPrinted' = IF Printable THEN Link.before ELSE fPrinted
      BY <1>1, <1>2, <1>3, <1>4, AloneIs DEF Renames, Ends, Printable, SettingsInv, FileTypes, App, Link,
         Settings!Processes, Process, Settings!NotRunning, Settings!Defaults
    <2>3. AloneInv'
      BY <1>1, <1>2, <2>1, <2>2 DEF SettingsInv, FileTypes, ProcessInv, AloneInv, Settings!Processes, App,
         Link, Config, Process, Places, Saves, Resting, Settings!NotRunning, Settings!Defaults, Printable
    <2>4. KeptInv'
      BY <1>1, <1>2, <2>1, <2>2 DEF SettingsInv, FileTypes, ProcessInv, AloneInv, KeptInv,
         Settings!Processes, App, Link, Config, Process, Places, Saves, Resting, Settings!NotRunning,
         Settings!Defaults, Printable
    <2>5. PrintedInv'
      BY <1>1, <1>2, <2>1, <2>2 DEF SettingsInv, FileTypes, ProcessInv, AloneInv, PrintedInv,
         Settings!Processes, App, Link, Config, Process, Places, Saves, Resting, Settings!NotRunning,
         Settings!Defaults, Printable
    <2> QED BY <1>2, <1>3, <2>1, <2>3, <2>4, <2>5 DEF SettingsInv
  <1> QED BY <1>2, <1>3, <1>4, OverlapInv

LEMMA ChangeSettingInv == ASSUME SettingsInv, Settings!ChangeSetting, Settings!Note PROVE SettingsInv'
  <1>1. /\ DOMAIN fProc' = Settings!Processes /\ Link' = Link /\ App' \in Process("app")
        /\ App.at = "idle" /\ App'.at = (IF App.keep THEN "failed" ELSE "open") /\ App'.keep = App.keep
        /\ App'.doing = "setting" /\ App'.before = 0 /\ App'.mem.key = App.mem.key
        /\ ~App.keep => App'.out.key = IF App.mem.key = 0 /\ Config.whole THEN Config.key ELSE App.mem.key
        /\ UNCHANGED <<fDisk, fHandle, fWeb, fKeys>>
    <2> DEFINE settings == [fProc["app"] EXCEPT !.mem.setting = @ + 1]
    <2>1. settings \in Process("app") /\ settings.keep = App.keep /\ settings.mem.key = App.mem.key
      BY DEF SettingsInv, FileTypes, Process, Values, App
    <2>2. Settings!SaveStarts("app", settings, "setting", 0) /\ UNCHANGED <<fDisk, fHandle, fWeb, fKeys>> /\ App.at = "idle" /\ 0 \in Nat
      BY DEF Settings!ChangeSetting, Settings!At, App, SettingsInv, FileTypes, Process, Values
    <2> HIDE DEF settings
    <2> QED BY <2>1, <2>2, AppSaves DEF SettingsInv
  <1>2. FileTypes'
    BY <1>1 DEF SettingsInv, FileTypes, Texts, Values, Settings!Processes, App, Link, Config, Process,
       Places, Saves
  <1>3. ProcessInv'
    BY <1>1 DEF SettingsInv, FileTypes, ProcessInv, Texts, Values, Settings!Processes, App, Link, Config,
       Process, Places, Saves
  <1>4. CASE ~Overlap
    <2>1. fBoth = FALSE /\ fBoth' = FALSE /\ (Link'.at = "off" \/ App'.at \in Resting) /\ NotedTypes'
      BY <1>2, <1>3, <1>4, AloneIs
    <2>2. fKept' = fKept /\ fPrinted' = fPrinted
      BY <1>1, <1>2, <1>3, <1>4, AloneIs DEF Renames, Ends, Printable, SettingsInv, FileTypes, App, Link,
         Settings!Processes, Process
    <2>3. AloneInv'
      BY <1>1, <1>2, <2>1, <2>2 DEF SettingsInv, FileTypes, ProcessInv, AloneInv, Settings!Processes, App,
         Link, Config, Process, Places, Saves, Resting
    <2>4. KeptInv'
      BY <1>1, <1>2, <2>1, <2>2 DEF SettingsInv, FileTypes, ProcessInv, AloneInv, KeptInv,
         Settings!Processes, App, Link, Config, Process, Places, Saves, Resting
    <2>5. PrintedInv'
      BY <1>1, <1>2, <2>1, <2>2 DEF SettingsInv, FileTypes, ProcessInv, AloneInv, PrintedInv,
         Settings!Processes, App, Link, Config, Process, Places, Saves, Resting
    <2> QED BY <1>2, <1>3, <2>1, <2>3, <2>4, <2>5 DEF SettingsInv
  <1> QED BY <1>2, <1>3, <1>4, OverlapInv

LEMMA NewLinkInv == ASSUME SettingsInv, Settings!NewLink, Settings!Note PROVE SettingsInv'
  <1>1. /\ DOMAIN fProc' = Settings!Processes /\ Link' = Link /\ App' \in Process("app")
        /\ App.at = "idle" /\ App'.at = (IF App.keep THEN "failed" ELSE "open") /\ App'.keep = App.keep
        /\ App'.doing = "link" /\ App'.before = App.mem.key /\ App'.mem.key = fKeys + 1
        /\ fKeys' = fKeys + 1 /\ fWeb.on /\ UNCHANGED <<fDisk, fHandle, fWeb>>
    <2> DEFINE settings == [fProc["app"] EXCEPT !.mem.key = fKeys + 1]
    <2>1. settings \in Process("app") /\ settings.keep = App.keep /\ settings.mem.key = fKeys + 1
      BY DEF SettingsInv, FileTypes, Process, Values, App, Settings!NewLink
    <2>2. Settings!SaveStarts("app", settings, "link", App.mem.key) /\ fKeys' = fKeys + 1 /\ fWeb.on /\ UNCHANGED <<fDisk, fHandle, fWeb>> /\ App.at = "idle" /\ App.mem.key \in Nat
      BY DEF Settings!NewLink, Settings!At, App, SettingsInv, FileTypes, Process, Values
    <2> HIDE DEF settings
    <2> QED BY <2>1, <2>2, AppSaves DEF SettingsInv
  <1>2. FileTypes'
    BY <1>1 DEF SettingsInv, FileTypes, Texts, Values, Settings!Processes, App, Link, Config, Process,
       Places, Saves
  <1>3. ProcessInv'
    BY <1>1 DEF SettingsInv, FileTypes, ProcessInv, Texts, Values, Settings!Processes, App, Link, Config,
       Process, Places, Saves
  <1>4. CASE ~Overlap
    <2>1. fBoth = FALSE /\ fBoth' = FALSE /\ (Link'.at = "off" \/ App'.at \in Resting) /\ NotedTypes'
      BY <1>2, <1>3, <1>4, AloneIs
    <2>2. fKept' = fKept /\ fPrinted' = fPrinted
      BY <1>1, <1>2, <1>3, <1>4, AloneIs DEF Renames, Ends, Printable, SettingsInv, FileTypes, App, Link,
         Settings!Processes, Process
    <2>3. AloneInv'
      BY <1>1, <1>2, <2>1, <2>2 DEF SettingsInv, FileTypes, ProcessInv, AloneInv, Settings!Processes, App,
         Link, Config, Process, Places, Saves, Resting
    <2>4. KeptInv'
      BY <1>1, <1>2, <2>1, <2>2 DEF SettingsInv, FileTypes, ProcessInv, AloneInv, KeptInv,
         Settings!Processes, App, Link, Config, Process, Places, Saves, Resting
    <2>5. PrintedInv'
      BY <1>1, <1>2, <2>1, <2>2 DEF SettingsInv, FileTypes, ProcessInv, AloneInv, PrintedInv,
         Settings!Processes, App, Link, Config, Process, Places, Saves, Resting
    <2> QED BY <1>2, <1>3, <2>1, <2>3, <2>4, <2>5 DEF SettingsInv
  <1> QED BY <1>2, <1>3, <1>4, OverlapInv

LEMMA DisableWebInv == ASSUME SettingsInv, Settings!DisableWeb, Settings!Note PROVE SettingsInv'
  <1>1. /\ App.at = "idle" /\ fWeb' = [fWeb EXCEPT !.on = FALSE]
        /\ UNCHANGED <<fDisk, fHandle, fProc, fKeys>>
    BY DEF Settings!DisableWeb, Settings!At, App
  <1>2. FileTypes'
    BY <1>1, ZenonT(60) DEF SettingsInv, FileTypes, Texts, Values, Settings!Processes, App, Link, Config,
       Process, Places, Saves
  <1>3. ProcessInv'
    BY <1>1 DEF SettingsInv, FileTypes, ProcessInv, Texts, Values, Settings!Processes, App, Link, Config,
       Process, Places, Saves
  <1>4. CASE ~Overlap
    <2>1. fBoth = FALSE /\ fBoth' = FALSE /\ (Link'.at = "off" \/ App'.at \in Resting) /\ NotedTypes'
      BY <1>2, <1>3, <1>4, AloneIs
    <2>2. fKept' = fKept /\ fPrinted' = fPrinted
      BY <1>1, <1>2, <1>3, <1>4, AloneIs DEF Renames, Ends, Printable, SettingsInv, FileTypes, App, Link,
         Settings!Processes, Process
    <2>3. AloneInv'
      BY <1>1, <1>2, <2>1, <2>2 DEF SettingsInv, FileTypes, ProcessInv, AloneInv, Settings!Processes, App,
         Link, Config, Process, Places, Saves, Resting
    <2>4. KeptInv'
      BY <1>1, <1>2, <2>1, <2>2 DEF SettingsInv, FileTypes, ProcessInv, AloneInv, KeptInv,
         Settings!Processes, App, Link, Config, Process, Places, Saves, Resting
    <2>5. PrintedInv'
      BY <1>1, <1>2, <2>1, <2>2 DEF SettingsInv, FileTypes, ProcessInv, AloneInv, PrintedInv,
         Settings!Processes, App, Link, Config, Process, Places, Saves, Resting
    <2> QED BY <1>2, <1>3, <2>1, <2>3, <2>4, <2>5 DEF SettingsInv
  <1> QED BY <1>2, <1>3, <1>4, OverlapInv

LEMMA EnableWebInv == ASSUME SettingsInv, Settings!EnableWeb, Settings!Note PROVE SettingsInv'
  <1>1. /\ DOMAIN fProc' = Settings!Processes /\ Link' = Link /\ App' \in Process("app")
        /\ App.at = "idle" /\ ~fWeb.on /\ App'.keep = App.keep /\ fKeys' \in Nat /\ UNCHANGED <<fDisk, fHandle>>
        /\ \/ App' = App /\ App.mem.key # 0 /\ fWeb' = [on |-> TRUE, secret |-> App.mem.key]
           \/ /\ ~App.keep /\ App'.at = "idle" /\ App'.doing = App.doing
              /\ Config.key # 0 /\ App'.mem.key = Config.key /\ fWeb' = [on |-> TRUE, secret |-> Config.key]
           \/ /\ App.keep \/ Config.key = 0
              /\ App'.at = (IF App.keep THEN "failed" ELSE "open") /\ App'.doing = "enable" /\ App'.mem.key # 0
              /\ UNCHANGED fWeb
    <2>1. App.at = "idle" /\ ~fWeb.on /\ UNCHANGED <<fDisk, fHandle>>
      BY DEF Settings!EnableWeb, Settings!At, App
    <2>2. CASE App.mem.key # 0 /\ fWeb' = [on |-> TRUE, secret |-> App.mem.key] /\ UNCHANGED <<fProc, fKeys>>
      BY <2>1, <2>2 DEF SettingsInv, FileTypes, App, Link
    <2>3. CASE /\ ~App.keep /\ Config.key # 0 /\ fWeb' = [on |-> TRUE, secret |-> Config.key]
               /\ fProc' = [fProc EXCEPT !["app"].mem.key = Config.key] /\ UNCHANGED fKeys
      BY <2>1, <2>3 DEF SettingsInv, FileTypes, Settings!Processes, App, Link, Config, Process, Values,
         Texts
    <2> DEFINE settings == [fProc["app"] EXCEPT !.mem.key = fKeys + 1]
    <2>4. settings \in Process("app") /\ settings.keep = App.keep /\ settings.mem.key = fKeys + 1 /\ fKeys + 1 \in Nat \ {0}
      BY DEF SettingsInv, FileTypes, Process, Values, App
    <2>5. CASE /\ App.keep \/ Config.key = 0
               /\ fKeys' = fKeys + 1 /\ Settings!SaveStarts("app", settings, "enable", 0) /\ UNCHANGED fWeb
      <3> HIDE DEF settings
      <3> QED BY <2>1, <2>4, <2>5, AppSaves DEF SettingsInv
    <2> QED BY <2>2, <2>3, <2>5 DEF Settings!EnableWeb, Settings!StoredKey, Config, App
  <1>2. FileTypes'
    <2>1. fWeb' \in [on : BOOLEAN, secret : Nat]
      <3>1. App.mem.key \in Nat /\ Config.key \in Nat /\ fWeb \in [on : BOOLEAN, secret : Nat]
        BY DEF SettingsInv, FileTypes, Process, Values, Config, Texts
      <3>2. \A n \in Nat : [on |-> TRUE, secret |-> n] \in [on : BOOLEAN, secret : Nat]
        OBVIOUS
      <3>3. \/ fWeb' = [on |-> TRUE, secret |-> App.mem.key]
            \/ fWeb' = [on |-> TRUE, secret |-> Config.key]
            \/ fWeb' = fWeb
        BY <1>1
      <3> QED BY <3>1, <3>2, <3>3
    <2> QED BY <1>1, <2>1 DEF SettingsInv, FileTypes
  <1>3. ProcessInv'
    BY <1>1 DEF SettingsInv, FileTypes, ProcessInv, Texts, Values, Settings!Processes, App, Link, Config,
       Process, Places, Saves
  <1>4. CASE ~Overlap
    <2>1. fBoth = FALSE /\ fBoth' = FALSE /\ (Link'.at = "off" \/ App'.at \in Resting) /\ NotedTypes'
      BY <1>2, <1>3, <1>4, AloneIs
    <2>2. fKept' = fKept /\ fPrinted' = fPrinted
      BY <1>1, <1>2, <1>3, <1>4, AloneIs DEF Renames, Ends, Printable, SettingsInv, FileTypes, App, Link,
         Settings!Processes, Process
    <2>3. AloneInv'
      BY <1>1, <1>2, <2>1, <2>2 DEF SettingsInv, FileTypes, ProcessInv, AloneInv, Settings!Processes, App,
         Link, Config, Process, Places, Saves, Resting
    <2>4. KeptInv'
      BY <1>1, <1>2, <2>1, <2>2 DEF SettingsInv, FileTypes, ProcessInv, AloneInv, KeptInv,
         Settings!Processes, App, Link, Config, Process, Places, Saves, Resting
    <2>5. PrintedInv'
      BY <1>1, <1>2, <2>1, <2>2 DEF SettingsInv, FileTypes, ProcessInv, AloneInv, PrintedInv,
         Settings!Processes, App, Link, Config, Process, Places, Saves, Resting
    <2> QED BY <1>2, <1>3, <2>1, <2>3, <2>4, <2>5 DEF SettingsInv
  <1> QED BY <1>2, <1>3, <1>4, OverlapInv

LEMMA AppSavedInv == ASSUME SettingsInv, Settings!AppSaved, Settings!Note PROVE SettingsInv'
  <1>1. /\ DOMAIN fProc' = Settings!Processes /\ Link' = Link /\ App' \in Process("app")
        /\ App.at \in {"saved", "failed"} /\ App'.at = "idle" /\ App'.doing = "none" /\ App'.keep = App.keep
        /\ App'.mem.key = IF App.doing = "link" /\ App.at # "saved" THEN App.before ELSE App.mem.key
        /\ fWeb' = IF App.doing = "enable" THEN [on |-> TRUE, secret |-> App.mem.key]
                   ELSE IF App.doing = "link" /\ App.at = "saved" THEN [fWeb EXCEPT !.secret = App.mem.key] ELSE fWeb
        /\ UNCHANGED <<fDisk, fHandle, fKeys>>
    <2> DEFINE key == IF App.doing = "link" /\ App.at # "saved" THEN App.before ELSE App.mem.key
    <2>1. App.at \in {"saved", "failed"} /\ UNCHANGED <<fDisk, fHandle, fKeys>>
      BY DEF Settings!AppSaved, App
    <2>2. fProc' = [fProc EXCEPT !["app"] = [App EXCEPT
                      !.at = "idle", !.doing = "none", !.out = Settings!Defaults, !.before = 0, !.mem.key = key]]
      BY DEF Settings!AppSaved, Settings!At, App, SettingsInv, FileTypes
    <2>3. fWeb' = IF App.doing = "enable" THEN [on |-> TRUE, secret |-> App.mem.key]
                  ELSE IF App.doing = "link" /\ App.at = "saved" THEN [fWeb EXCEPT !.secret = App.mem.key] ELSE fWeb
      BY DEF Settings!AppSaved, Settings!At, App
    <2>4. key \in Nat
      BY DEF SettingsInv, FileTypes, Process, Values
    <2> HIDE DEF key
    <2>5. App' \in Process("app") /\ App'.at = "idle" /\ App'.doing = "none" /\ App'.keep = App.keep /\ App'.mem.key = key
      BY <2>2, <2>4 DEF SettingsInv, FileTypes, Settings!Processes, App, Process, Places, Values,
         Settings!Defaults
    <2> USE DEF key
    <2> QED BY <2>1, <2>2, <2>3, <2>5 DEF SettingsInv, FileTypes, Settings!Processes, Link
  <1>2. FileTypes'
    <2>1. fWeb' \in [on : BOOLEAN, secret : Nat]
      <3>1. App.mem.key \in Nat /\ fWeb \in [on : BOOLEAN, secret : Nat]
        BY DEF SettingsInv, FileTypes, Process, Values
      <3> QED BY <1>1, <3>1
    <2> QED BY <1>1, <2>1 DEF SettingsInv, FileTypes
  <1>3. ProcessInv'
    BY <1>1 DEF SettingsInv, FileTypes, ProcessInv, Texts, Values, Settings!Processes, App, Link, Config,
       Process, Places, Saves
  <1>4. CASE ~Overlap
    <2>1. fBoth = FALSE /\ fBoth' = FALSE /\ (Link'.at = "off" \/ App'.at \in Resting) /\ NotedTypes'
      BY <1>2, <1>3, <1>4, AloneIs
    <2>2. fKept' = fKept /\ fPrinted' = fPrinted
      BY <1>1, <1>2, <1>3, <1>4, AloneIs DEF Renames, Ends, Printable, SettingsInv, FileTypes, App, Link,
         Settings!Processes, Process
    <2>3. AloneInv'
      BY <1>1, <1>2, <2>1, <2>2 DEF SettingsInv, FileTypes, ProcessInv, AloneInv, Settings!Processes, App,
         Link, Config, Process, Places, Saves, Resting
    <2>4. KeptInv'
      BY <1>1, <1>2, <2>1, <2>2 DEF SettingsInv, FileTypes, ProcessInv, AloneInv, KeptInv,
         Settings!Processes, App, Link, Config, Process, Places, Saves, Resting
    <2>5. PrintedInv'
      BY <1>1, <1>2, <2>1, <2>2 DEF SettingsInv, FileTypes, ProcessInv, AloneInv, PrintedInv,
         Settings!Processes, App, Link, Config, Process, Places, Saves, Resting
    <2> QED BY <1>2, <1>3, <2>1, <2>3, <2>4, <2>5 DEF SettingsInv
  <1> QED BY <1>2, <1>3, <1>4, OverlapInv

LEMMA LinkKeyInv == ASSUME SettingsInv, Settings!LinkKey, Settings!Note PROVE SettingsInv'
  <1>1. /\ DOMAIN fProc' = Settings!Processes /\ App' = App /\ Link' \in Process("link")
        /\ Link.at = "load" /\ fKeys' \in Nat
        /\ \/ Link'.at \in {"saved", "failed"}
           \/ /\ ~Link.keep /\ Link'.at = "open" /\ ~Link'.keep /\ Link.mem.key = 0
              /\ Link'.mem.setting = Link.mem.setting /\ Link'.out.setting = Link.mem.setting
        /\ UNCHANGED <<fDisk, fHandle, fWeb>>
    <2>1. Link.at = "load" /\ UNCHANGED <<fDisk, fHandle, fWeb>>
      BY DEF Settings!LinkKey, Settings!At, Link
    <2>2. CASE fProc' = [fProc EXCEPT !["link"].at = "saved"] /\ UNCHANGED fKeys
      <3>1. fProc' = [fProc EXCEPT !["link"] = [Link EXCEPT !.at = "saved"]] /\ Link \in Process("link")
        BY <2>2 DEF SettingsInv, FileTypes, Link
      <3>2. Link' = [Link EXCEPT !.at = "saved"] /\ App' = App /\ DOMAIN fProc' = Settings!Processes
        BY <3>1 DEF SettingsInv, FileTypes, Settings!Processes, App, Link
      <3>3. Link' \in Process("link") /\ Link'.at = "saved"
        BY <3>1, <3>2 DEF Process, Places
      <3> QED BY <2>1, <2>2, <3>2, <3>3 DEF SettingsInv, FileTypes
    <2> DEFINE settings == [fProc["link"] EXCEPT !.mem.key = fKeys + 1]
    <2>3. /\ settings \in Process("link") /\ settings.keep = Link.keep /\ settings.mem.setting = Link.mem.setting
          /\ fKeys + 1 \in Nat /\ Link.keep \in BOOLEAN
      BY DEF SettingsInv, FileTypes, Process, Values, Link
    <2>4. CASE /\ Link.mem.key = 0 /\ fKeys' = fKeys + 1
               /\ Settings!SaveStarts("link", settings, "link", 0)
      <3> HIDE DEF settings
      <3> QED BY <2>1, <2>3, <2>4, LinkSaves DEF SettingsInv
    <2> QED BY <2>2, <2>4 DEF Settings!LinkKey, Link
  <1>2. FileTypes'
    BY <1>1 DEF SettingsInv, FileTypes, Texts, Values, Settings!Processes, App, Link, Config, Process,
       Places, Saves
  <1>3. ProcessInv'
    BY <1>1 DEF SettingsInv, FileTypes, ProcessInv, Texts, Values, Settings!Processes, App, Link, Config,
       Process, Places, Saves
  <1>4. CASE ~Overlap
    <2>1. fBoth = FALSE /\ fBoth' = FALSE /\ (Link'.at = "off" \/ App'.at \in Resting) /\ NotedTypes'
      BY <1>2, <1>3, <1>4, AloneIs
    <2>2. fKept' = fKept /\ fPrinted' = fPrinted
      BY <1>1, <1>2, <1>3, <1>4, AloneIs DEF Renames, Ends, Printable, SettingsInv, FileTypes, App, Link,
         Settings!Processes, Process
    <2>3. AloneInv'
      BY <1>1, <1>2, <2>1, <2>2 DEF SettingsInv, FileTypes, ProcessInv, AloneInv, Settings!Processes, App,
         Link, Config, Process, Places, Saves, Resting
    <2>4. KeptInv'
      BY <1>1, <1>2, <2>1, <2>2 DEF SettingsInv, FileTypes, ProcessInv, AloneInv, KeptInv,
         Settings!Processes, App, Link, Config, Process, Places, Saves, Resting
    <2>5. PrintedInv'
      BY <1>1, <1>2, <2>1, <2>2 DEF SettingsInv, FileTypes, ProcessInv, AloneInv, PrintedInv,
         Settings!Processes, App, Link, Config, Process, Places, Saves, Resting
    <2> QED BY <1>2, <1>3, <2>1, <2>3, <2>4, <2>5 DEF SettingsInv
  <1> QED BY <1>2, <1>3, <1>4, OverlapInv

LEMMA SettingsNextInv == SettingsInv /\ [Settings!Next]_(Settings!vars) => SettingsInv'
  <1> SUFFICES ASSUME SettingsInv, [Settings!Next]_(Settings!vars) PROVE SettingsInv'
    OBVIOUS
  <1>1. CASE Settings!Next
    <2>1. Settings!Step /\ Settings!Note
      BY <1>1 DEF Settings!Next
    <2>2. CASE \E p \in Settings!Processes : \/ Settings!Open(p) \/ Settings!Write(p) \/ Settings!WriteFails(p)
                                            \/ Settings!Rename(p) \/ Settings!RenameFails(p) \/ Settings!Kill(p)
      <3>1. PICK p \in Settings!Processes : \/ Settings!Open(p) \/ Settings!Write(p) \/ Settings!WriteFails(p)
                                            \/ Settings!Rename(p) \/ Settings!RenameFails(p) \/ Settings!Kill(p)
        BY <2>2
      <3> QED BY <2>1, <3>1, OpenInv, WriteInv, WriteFailsInv, RenameInv, RenameFailsInv, KillInv
    <2> QED BY <2>1, <2>2, AppStartsInv, ChangeSettingInv, EnableWebInv, DisableWebInv, NewLinkInv,
               AppSavedInv,
               LinkLoadsInv, LinkKeyInv, LinkPrintsInv, LinkEndsInv DEF Settings!Step
  <1>2. CASE UNCHANGED Settings!vars
    BY <1>2 DEF Settings!vars, SettingsInv, NotedTypes, FileTypes, ProcessInv, AloneInv, KeptInv,
       PrintedInv, App, Link, Config
  <1> QED BY <1>1, <1>2

LEMMA SettingsInvKeeps == SettingsInv => SettingsKept
  <1> SUFFICES ASSUME SettingsInv PROVE SettingsKept
    OBVIOUS
  <1>1. Settings!SavedSettingStays
    BY DEF SettingsInv, KeptInv, Config, Settings!SavedSettingStays
  <1>2. ASSUME fPrinted # 0, fWeb.on, ~App.keep PROVE fWeb.secret = fPrinted
    BY <1>2 DEF SettingsInv, FileTypes, ProcessInv, PrintedInv, Process
  <1>3. Settings!PrintedLinkWorks
    BY <1>2 DEF SettingsInv, PrintedInv, Config, App, Settings!PrintedLinkWorks
  <1> QED BY <1>1, <1>3 DEF SettingsKept, Settings!SettingsKept

\* For any number of settings, keys and runs, both processes killed anywhere: the
\* link `--web-link` printed is the one in config.json and the one the app
\* accepts, and a saved setting stays (user_config.rs try_save_to_with, load_from).
THEOREM SettingsAreKept == Settings!Spec => []SettingsKept
  BY SettingsInitInv, SettingsNextInv, SettingsInvKeeps, PTL DEF Settings!Spec

-----------------------------------------------------------------------------
(* UpnpScan: a device listed is controlled at one of the addresses its       *)
(* identity is accepted at (OneControl), and its addresses are of the        *)
(* network discovery is on, which every scan about to replace the list was   *)
(* checked against (ScansChecked).                                           *)

Listings == [udn : Udns, ip : Addrs, desc : Descs, addrs : SUBSET Addrs, conflict : BOOLEAN]
Scans == [at : {"idle", "search", "replace"}, used : Scopes \cup {"paused"}, checked : Scopes \cup {"paused"}]
Finds == [Addrs -> {None} \cup {Upnp!Claim(u, d) : u \in Udns, d \in Descs}]

UpnpTypes ==
    /\ uList \subseteq Listings /\ uPins \in [Udns -> SUBSET Addrs]
    /\ uScan \in [Upnp!Threads -> Scans] /\ uScope \in Scopes /\ uWanted \in Scopes

\* A scan to be used was checked against what it searched.
ScansChecked == \A t \in Upnp!Threads : uScan[t].at = "replace" => uScan[t].used = uScan[t].checked

\* One entry, controlled at one of the addresses the identity is accepted at;
\* which did not both answer and go missing in the last scan.
OneControl ==
    \A u \in Udns :
        /\ \A e, f \in Upnp!PrevControl(u) : e = f
        /\ Upnp!PrevControl(u) # {} => u \notin uConflicted /\ ~(u \in uMissed /\ u \in uSteady)
        /\ \A e \in Upnp!PrevControl(u) : e.ip \in e.addrs /\ e.addrs = uPins[u]

UpnpInv == UpnpTypes /\ ScansChecked /\ OneControl /\ Upnp!OfThisNetwork

LEMMA UpnpCardinality == \A S : Upnp!Cardinality(S) = Cardinality(S)
  BY Zenon DEF Upnp!Cardinality, Cardinality

LEMMA UpnpAssumption == Addrs \subseteq Nat /\ \A u \in Udns, d \in Descs : None # Upnp!Claim(u, d)
  BY ServiceConstants DEF Upnp!ConstantsOK

\* Of some addresses one sorts first.
LEMMA LowestIn == ASSUME NEW S \in SUBSET Addrs, S # {} PROVE Upnp!Lowest(S) \in S
  <1>1. PICK x \in S : \A y \in S : ~ (<<y, x>> \in OpToRel(<, Nat))
    BY UpnpAssumption, NatLessThanWellFounded, WFMin
  <1>2. \A y \in S : x \in Nat /\ y \in Nat /\ ~(y < x)
    BY <1>1, UpnpAssumption DEF OpToRel
  <1>3. \A y \in S : x <= y
    BY <1>2
  <1> QED BY <1>3 DEF Upnp!Lowest

-----------------------------------------------------------------------------
\* The accepted: some of the claimants, and of the pinned ones all that answered.
LEMMA AcceptedClaims ==
    ASSUME UpnpTypes, NEW u \in Udns, NEW found, Upnp!Claimants(found, u) # {}
    PROVE  /\ Upnp!Accepted(found, u) \subseteq Upnp!Claimants(found, u)
           /\ Upnp!Accepted(found, u) # {}
           /\ Upnp!Claimants(found, u) \cap uPins[u] \subseteq Upnp!Accepted(found, u)
           /\ Upnp!Claimants(found, u) \subseteq Addrs
  BY DEF Upnp!Accepted, Upnp!Claimants

\* What a scan leaves of an identity that is one device.
LEMMA ResolutionOf ==
    ASSUME UpnpTypes, OneControl, NEW u \in Udns, NEW found \in Finds, Upnp!Claimants(found, u) # {}
    PROVE  LET r == Upnp!Resolution(found, u) IN
           /\ r.entries \subseteq Listings /\ r.pins \in SUBSET Addrs /\ \A e \in r.entries : e.udn = u
           /\ \A e \in r.entries : e.ip \in Upnp!Claimants(found, u) \/ \E f \in Upnp!PrevControl(u) : f.ip = e.ip
           /\ r.split => \A e \in r.entries : e.conflict
           /\ ~r.split => /\ \A e, f \in r.entries : e = f
                          /\ \A e \in r.entries : e.ip \in e.addrs /\ e.addrs = r.pins
                          /\ r.waits => \A e \in r.entries : e.ip \notin Upnp!Claimants(found, u)
  <1> DEFINE accepted == Upnp!Accepted(found, u)
             known == accepted \cap uPins[u] # {}
             set == IF known THEN uPins[u] \cup accepted ELSE accepted
             prev == Upnp!PrevControl(u)
             waits == known /\ u \notin uMissed /\ \E e \in prev : e.ip \in set \ accepted
             control == IF \E e \in prev : e.ip \in accepted THEN (CHOOSE e \in prev : TRUE).ip
                        ELSE Upnp!Lowest(accepted)
             split == \E a, b \in accepted : found[a].desc # found[b].desc
             r == Upnp!Resolution(found, u)
             told == {Upnp!Entry(u, a, found[a].desc, {a}, TRUE) : a \in accepted}
             kept == {[e EXCEPT !.addrs = @ \cup set] : e \in prev}
             given == Upnp!Entry(u, control, found[control].desc, set, FALSE)
  <1>1. accepted \subseteq Upnp!Claimants(found, u) /\ accepted # {} /\ accepted \subseteq Addrs
        /\ Upnp!Claimants(found, u) \cap uPins[u] \subseteq accepted
    BY AcceptedClaims
  <1>2. prev \subseteq Listings /\ uPins[u] \in SUBSET Addrs
        /\ (\A e \in prev : e.udn = u /\ e.conflict = FALSE /\ e.ip \in e.addrs /\ e.addrs = uPins[u])
        /\ \A e, f \in prev : e = f
    BY DEF UpnpTypes, Upnp!PrevControl, OneControl, Listings
  <1>3. \A a \in accepted : found[a].desc \in Descs
    BY <1>1 DEF Finds, Upnp!Claimants, Upnp!Claim
  <1>4. r = IF split
            THEN [split |-> TRUE, pins |-> uPins[u], waits |-> u \in uMissed,
                  entries |-> told]
            ELSE [split |-> FALSE, pins |-> set, waits |-> waits,
                  entries |-> IF waits THEN kept ELSE {given}]
    BY DEF Upnp!Resolution
  <1>5. control \in accepted
    <2>1. CASE \E e \in prev : e.ip \in accepted
      BY <1>2, <2>1
    <2>2. CASE ~\E e \in prev : e.ip \in accepted
      BY <1>1, <2>2, LowestIn
    <2> QED BY <2>1, <2>2
  <1>6. set \in SUBSET Addrs /\ accepted \subseteq set /\ (known => uPins[u] \subseteq set)
    BY <1>1, <1>2
  <1> HIDE DEF accepted, set, prev, control, told, kept, given, r
  <1>7. CASE split
    <2>1. r.split = TRUE /\ r.pins = uPins[u] /\ r.entries = told
      BY <1>4, <1>7
    <2>2. \A x \in told : x \in Listings /\ x.udn = u /\ x.conflict /\ x.ip \in accepted
      <3> SUFFICES ASSUME NEW a \in accepted, NEW x, x = Upnp!Entry(u, a, found[a].desc, {a}, TRUE)
                   PROVE x \in Listings /\ x.udn = u /\ x.conflict = TRUE /\ x.ip \in accepted
        BY DEF told
      <3> QED BY <1>1, <1>3 DEF Upnp!Entry, Listings
    <2> QED BY <2>1, <2>2, <1>1, <1>2 DEF r
  <1>8. CASE ~split /\ waits
    <2>1. r.split = FALSE /\ r.pins = set /\ r.waits /\ r.entries = kept
      BY <1>4, <1>8
    <2>2. \A e \in prev : [e EXCEPT !.addrs = @ \cup set] \in Listings
            /\ [e EXCEPT !.addrs = @ \cup set].addrs = e.addrs \cup set
            /\ [e EXCEPT !.addrs = @ \cup set].ip = e.ip
            /\ [e EXCEPT !.addrs = @ \cup set].udn = e.udn
      BY <1>2, <1>6 DEF Listings
    <2>3. \A e \in prev : e.addrs \cup set = set /\ e.ip \in set /\ e.ip \in uPins[u] /\ e.ip \notin accepted
      BY <1>2, <1>6, <1>8
    <2>4. \A e \in r.entries : e \in Listings /\ e.udn = u /\ e.addrs = set /\ e.ip \in set
            /\ e.ip \notin Upnp!Claimants(found, u) /\ \E f \in prev : f.ip = e.ip
      <3> SUFFICES ASSUME NEW f \in prev, NEW e, e = [f EXCEPT !.addrs = @ \cup set]
                   PROVE  e \in Listings /\ e.udn = u /\ e.addrs = set /\ e.ip \in set
                          /\ e.ip \notin Upnp!Claimants(found, u) /\ e.ip = f.ip
        BY <2>1 DEF kept
      <3>1. e \in Listings /\ e.addrs = set /\ e.ip = f.ip /\ e.udn = u
        BY <2>2, <2>3, <1>2
      <3> QED BY <2>3, <3>1, <1>1
    <2>5. \A e, f \in r.entries : e = f
      BY <2>1, <1>2 DEF kept
    <2> QED BY <2>1, <2>4, <2>5, <1>6 DEF r, prev
  <1>9. CASE ~split /\ ~waits
    <2>1. r.split = FALSE /\ r.pins = set /\ ~r.waits
          /\ r.entries = {given}
      BY <1>4, <1>9
    <2>2. given \in Listings /\ given.udn = u /\ given.addrs = set /\ given.ip = control
      BY <1>1, <1>3, <1>5, <1>6 DEF Upnp!Entry, Listings, given
    <2>3. \A e, f \in r.entries : e = f
      BY <2>1
    <2> QED BY <2>1, <2>2, <2>3, <1>1, <1>5, <1>6 DEF r
  <1> QED BY <1>7, <1>8, <1>9

\* Settling keeps one entry to control by, of what answered or was controlled before.
LEMMA SettleOne ==
    ASSUME UpnpTypes, OneControl, NEW found \in Finds, Upnp!Settle(found)
    PROVE  /\ uList' \subseteq Listings /\ uPins' \in [Udns -> SUBSET Addrs] /\ OneControl'
           /\ \A e \in uList' : \E u \in Udns :
                 e.ip \in Upnp!Claimants(found, u) \/ \E f \in uList : f.ip = e.ip
  <1> DEFINE claimed == {u \in Udns : Upnp!Claimants(found, u) # {}}
             res(u) == Upnp!Resolution(found, u)
  <1>1. /\ uList' = UNION {res(u).entries : u \in claimed}
        /\ uPins' = [u \in Udns |-> IF u \in claimed THEN res(u).pins ELSE uPins[u]]
        /\ uMissed' = (uMissed \ claimed) \cup {u \in claimed : res(u).waits}
        /\ uConflicted' = {u \in claimed : res(u).split}
        /\ uSteady' = (uSteady \ claimed) \cup
              {u \in claimed : \E e \in res(u).entries : found[e.ip] # None /\ found[e.ip].udn = u}
    BY DEF Upnp!Settle
  <1>2. \A u \in claimed :
           /\ res(u).entries \subseteq Listings /\ res(u).pins \in SUBSET Addrs
           /\ \A e \in res(u).entries : e.udn = u
           /\ \A e \in res(u).entries : e.ip \in Upnp!Claimants(found, u) \/ \E f \in Upnp!PrevControl(u) : f.ip = e.ip
           /\ res(u).split => \A e \in res(u).entries : e.conflict
           /\ ~res(u).split => /\ \A e, f \in res(u).entries : e = f
                               /\ \A e \in res(u).entries : e.ip \in e.addrs /\ e.addrs = res(u).pins
                               /\ res(u).waits => \A e \in res(u).entries : e.ip \notin Upnp!Claimants(found, u)
    BY ResolutionOf
  <1> HIDE DEF res
  <1>3. uList' \subseteq Listings /\ uPins' \in [Udns -> SUBSET Addrs]
    BY <1>1, <1>2 DEF UpnpTypes
  <1>4. \A e \in uList' : \E u \in Udns : e.ip \in Upnp!Claimants(found, u) \/ \E f \in uList : f.ip = e.ip
    BY <1>1, <1>2 DEF Upnp!PrevControl
  <1>5. OneControl'
    <2> SUFFICES ASSUME NEW u \in Udns, NEW e \in Upnp!PrevControl(u)'
                 PROVE  /\ \A f \in Upnp!PrevControl(u)' : e = f
                        /\ u \notin uConflicted' /\ ~(u \in uMissed' /\ u \in uSteady')
                        /\ e.ip \in e.addrs /\ e.addrs = uPins'[u]
      BY DEF OneControl
    <2>1. \A f \in Upnp!PrevControl(u)' : f \in uList' /\ f.udn = u /\ ~f.conflict
      BY DEF Upnp!PrevControl
    <2>2. \A f \in Upnp!PrevControl(u)' : u \in claimed /\ f \in res(u).entries
      BY <1>1, <1>2, <2>1
    <2>3. u \in claimed /\ ~res(u).split
      BY <1>2, <2>1, <2>2
    <2>4. \A f \in Upnp!PrevControl(u)' : e = f
      BY <1>2, <2>2, <2>3
    <2>5. u \notin uConflicted' /\ uPins'[u] = res(u).pins
      BY <1>1, <2>3
    <2>6. u \in uMissed' => res(u).waits
      BY <1>1, <2>3
    <2>7. u \in uSteady' => \E f \in res(u).entries : found[f.ip] # None /\ found[f.ip].udn = u
      BY <1>1, <2>3
    <2>8. res(u).waits => \A f \in res(u).entries : f.ip \in Addrs /\ ~(found[f.ip] # None /\ found[f.ip].udn = u)
      BY <1>2, <2>3 DEF Upnp!Claimants, Listings
    <2> QED BY <1>2, <2>2, <2>3, <2>4, <2>5, <2>6, <2>7, <2>8
  <1> QED BY <1>3, <1>4, <1>5

-----------------------------------------------------------------------------
LEMMA UpnpInitInv == Upnp!Init => UpnpInv
  BY DEF Upnp!Init, Upnp!Idle, UpnpInv, UpnpTypes, ScansChecked, OneControl, Upnp!OfThisNetwork, Scans,
         Upnp!PrevControl

LEMMA ReplaceInv == ASSUME UpnpInv, NEW t \in Upnp!Threads, Upnp!Replace(t) PROVE UpnpInv'
  <1>1. PICK found \in Upnp!Answers(uScan[t].used) :
          /\ Upnp!Settle(found)
          /\ uLate' = (uScan[t].checked # uScope \/ (uLate /\ \E e \in uList' : e.ip \notin Reach(uScope)))
    BY DEF Upnp!Replace
  <1>2. uScan' = [uScan EXCEPT ![t] = Upnp!Idle] /\ UNCHANGED <<uWanted, uScope, uRefresh>> /\ uScan[t].at = "replace"
    BY DEF Upnp!Replace
  <1>3. found \in Finds /\ \A a \in Addrs : found[a] # None => a \in Reach(uScan[t].used)
    BY <1>1 DEF Upnp!Answers, Finds
  <1>4. /\ uList' \subseteq Listings /\ uPins' \in [Udns -> SUBSET Addrs] /\ OneControl'
        /\ \A e \in uList' : \E u \in Udns : e.ip \in Upnp!Claimants(found, u) \/ \E f \in uList : f.ip = e.ip
    BY <1>1, <1>3, SettleOne DEF UpnpInv
  <1>5. uScan' \in [Upnp!Threads -> Scans] /\ \A x \in Upnp!Threads : uScan'[x] = IF x = t THEN Upnp!Idle ELSE uScan[x]
    BY <1>2 DEF UpnpInv, UpnpTypes, Scans, Upnp!Idle
  <1>6. UpnpTypes' /\ ScansChecked'
    BY <1>2, <1>4, <1>5 DEF UpnpInv, UpnpTypes, ScansChecked, Upnp!Idle
  <1>7. Upnp!OfThisNetwork'
    <2> SUFFICES ASSUME uRefresh # "clear", ~uLate', NEW e \in uList' PROVE e.ip \in Reach(uScope)
      BY <1>2 DEF Upnp!OfThisNetwork
    <2>1. uScan[t].used = uScope
      BY <1>1, <1>2 DEF UpnpInv, ScansChecked
    <2>2. CASE uLate
      BY <1>1, <2>2
    <2>3. CASE ~uLate
      <3>1. \A f \in uList : f.ip \in Reach(uScope)
        BY <2>3 DEF UpnpInv, Upnp!OfThisNetwork
      <3>2. \A u \in Udns : \A a \in Upnp!Claimants(found, u) : a \in Reach(uScope)
        BY <1>3, <2>1 DEF Upnp!Claimants
      <3> QED BY <1>4, <3>1, <3>2
    <2> QED BY <2>2, <2>3
  <1> QED BY <1>4, <1>6, <1>7 DEF UpnpInv

\* A thread that starts, is checked or gives up leaves the list alone.
LEMMA ScanMoves ==
    ASSUME UpnpInv, UNCHANGED <<uScope, uList, uPins, uMissed, uConflicted, uSteady, uLate>>,
           uScan' \in [Upnp!Threads -> Scans], ScansChecked', uWanted' \in Scopes,
           uRefresh # "clear" \/ uRefresh' = "clear"
    PROVE  UpnpInv'
  BY DEF UpnpInv, UpnpTypes, OneControl, Upnp!OfThisNetwork, Upnp!PrevControl

LEMMA BeginInv == ASSUME UpnpInv, NEW t \in Upnp!Threads, Upnp!Begin(t)
                  PROVE  uScan' \in [Upnp!Threads -> Scans] /\ ScansChecked'
  BY DEF UpnpInv, UpnpTypes, ScansChecked, Upnp!Begin, Scans

LEMMA GivenUpInv == ASSUME UpnpInv, NEW t \in Upnp!Threads, Upnp!GivenUp(t) PROVE UpnpInv'
  <1>1. uScan' \in [Upnp!Threads -> Scans] /\ ScansChecked'
    BY DEF UpnpInv, UpnpTypes, ScansChecked, Upnp!GivenUp, Upnp!Idle, Scans
  <1> QED BY <1>1, ScanMoves DEF Upnp!GivenUp, Upnp!identVars, UpnpInv, UpnpTypes

LEMMA RescanInv == ASSUME UpnpInv, Upnp!Rescan PROVE uScan' \in [Upnp!Threads -> Scans] /\ ScansChecked'
  <1>1. CASE Upnp!Begin("rescan")
    BY <1>1, BeginInv DEF Upnp!Threads
  <1>2. CASE UNCHANGED uScan
    BY <1>2 DEF UpnpInv, UpnpTypes, ScansChecked
  <1> QED BY <1>1, <1>2 DEF Upnp!Rescan

LEMMA CheckInv == ASSUME UpnpInv, NEW t \in Upnp!Threads, Upnp!Check(t) PROVE UpnpInv'
  <1>1. CASE /\ Upnp!SameNetwork(t)
             /\ uScan' = [uScan EXCEPT ![t] = [@ EXCEPT !.at = "replace", !.checked = uScope]]
             /\ UNCHANGED <<uWanted, uScope, uRefresh, uInFlight, uMoves, Upnp!identVars>>
    <2>1. uScan' \in [Upnp!Threads -> Scans]
      BY <1>1 DEF UpnpInv, UpnpTypes, Scans
    <2>2. ScansChecked'
      BY <1>1 DEF UpnpInv, UpnpTypes, Scans, ScansChecked, Upnp!SameNetwork
    <2> QED BY <1>1, <2>1, <2>2, ScanMoves DEF Upnp!identVars, UpnpInv, UpnpTypes
  <1>2. CASE Upnp!GivenUp(t)
    BY <1>2, GivenUpInv
  <1> QED BY <1>1, <1>2 DEF Upnp!Check

LEMMA UpnpNextInv == UpnpInv /\ [Upnp!Next]_(Upnp!vars) => UpnpInv'
  <1> SUFFICES ASSUME UpnpInv, [Upnp!Next]_(Upnp!vars) PROVE UpnpInv'
    OBVIOUS
  <1>1. uScan \in [Upnp!Threads -> Scans] /\ ScansChecked /\ uWanted \in Scopes
    BY DEF UpnpInv, UpnpTypes
  <1>2. CASE UNCHANGED Upnp!vars
    BY <1>1, <1>2, ScanMoves DEF Upnp!vars, ScansChecked
  <1>3. CASE Upnp!SweepStarts
    BY <1>1, <1>3, BeginInv, ScanMoves DEF Upnp!SweepStarts, Upnp!identVars, Upnp!Threads
  <1>4. ASSUME NEW t \in Upnp!Threads, Upnp!SearchFails(t) PROVE UpnpInv'
    BY <1>4, GivenUpInv DEF Upnp!SearchFails
  <1>5. CASE Upnp!UserRescans
    BY <1>1, <1>5, RescanInv, ScanMoves DEF Upnp!UserRescans, Upnp!identVars
  <1>6. CASE Upnp!NetworkChanges
    BY <1>1, <1>6, ScanMoves DEF Upnp!NetworkChanges, Upnp!identVars, ScansChecked
  <1>7. CASE Upnp!RefreshScope
    <2>1. uWanted' = uWanted /\ uScope' = uWanted /\ uRefresh' = "clear" /\ UNCHANGED <<uScan, uList, uPins, uMissed, uConflicted, uSteady>>
      BY <1>7 DEF Upnp!RefreshScope, Upnp!identVars
    <2>2. UpnpTypes' /\ ScansChecked' /\ OneControl'
      BY <1>1, <2>1 DEF UpnpInv, UpnpTypes, ScansChecked, OneControl, Upnp!PrevControl
    <2>3. Upnp!OfThisNetwork'
      BY <2>1 DEF Upnp!OfThisNetwork
    <2> QED BY <2>2, <2>3 DEF UpnpInv
  <1>8. CASE Upnp!RefreshClear
    BY <1>8 DEF Upnp!RefreshClear, UpnpInv, UpnpTypes, ScansChecked, OneControl, Upnp!OfThisNetwork,
                Upnp!PrevControl
  <1>9. CASE Upnp!RefreshRescan
    BY <1>1, <1>9, RescanInv, ScanMoves DEF Upnp!RefreshRescan, Upnp!identVars
  <1> QED BY <1>2, <1>3, <1>4, <1>5, <1>6, <1>7, <1>8, <1>9, CheckInv, ReplaceInv DEF Upnp!Next

-----------------------------------------------------------------------------
LEMMA OneIdentityHolds == UpnpInv => Upnp!OneIdentity
  <1> SUFFICES ASSUME UpnpInv, NEW u \in Udns
      PROVE  /\ Upnp!Cardinality(Upnp!PrevControl(u)) <= 1
             /\ \A e \in Upnp!PrevControl(u) : u \notin uConflicted \/ uList = {}
             /\ \A e \in Upnp!FindById(u) : e.ip \in e.addrs /\ e.addrs = uPins[u]
    BY DEF Upnp!OneIdentity
  <1>1. CASE Upnp!PrevControl(u) = {}
    BY <1>1, FS_EmptySet, UpnpCardinality DEF Upnp!FindById
  <1>2. CASE Upnp!PrevControl(u) # {}
    <2>1. PICK e \in Upnp!PrevControl(u) : TRUE
      BY <1>2
    <2>2. Upnp!PrevControl(u) = {e} /\ u \notin uConflicted /\ e.ip \in e.addrs /\ e.addrs = uPins[u]
      BY <2>1 DEF UpnpInv, OneControl
    <2> QED BY <2>2, FS_Singleton, UpnpCardinality DEF Upnp!FindById
  <1> QED BY <1>1, <1>2

\* Among those with the description of a pinned address that answers nothing differs.
LEMMA AcceptedAlike ==
    ASSUME UpnpInv, NEW u \in Udns, NEW found \in Finds, NEW d \in Descs,
           \A a \in uPins[u] : found[a] # None /\ found[a].udn = u => found[a] = Upnp!Claim(u, d),
           \E a \in uPins[u] : found[a] = Upnp!Claim(u, d)
    PROVE  /\ \A a \in Upnp!Accepted(found, u) : found[a].desc = d
           /\ Upnp!Accepted(found, u) \cap uPins[u] # {}
  <1> DEFINE claimants == Upnp!Claimants(found, u)
             pinned == claimants \cap uPins[u]
  <1>1. uPins[u] \in SUBSET Addrs
    BY DEF UpnpInv, UpnpTypes
  <1>2. pinned # {} /\ \A a \in pinned : found[a].desc = d
    BY <1>1, UpnpAssumption DEF Upnp!Claimants, Upnp!Claim
  <1>3. pinned \in SUBSET Addrs
    BY <1>1
  <1>4. Upnp!Lowest(pinned) \in pinned
    BY <1>2, <1>3, LowestIn
  <1>5. Upnp!Accepted(found, u) = pinned \cup {a \in claimants : found[a].desc = found[Upnp!Lowest(pinned)].desc}
    BY <1>2 DEF Upnp!Accepted
  <1> HIDE DEF pinned
  <1> QED BY <1>2, <1>4, <1>5 DEF pinned

LEMMA NotTakenOverHolds == UpnpInv => Upnp!NotTakenOver
  <1> SUFFICES ASSUME UpnpInv, NEW u \in Udns, NEW e \in Upnp!FindById(u), NEW found \in Upnp!Answers(uScope),
                      \A a \in uPins[u] : found[a] # None /\ found[a].udn = u => found[a] = Upnp!Claim(u, e.desc),
                      \/ found[e.ip] = Upnp!Claim(u, e.desc)
                      \/ /\ u \in uSteady /\ found[e.ip] = None
                         /\ \E a \in uPins[u] : found[a] = Upnp!Claim(u, e.desc)
      PROVE  /\ ~Upnp!Resolution(found, u).split
             /\ \E f \in Upnp!Resolution(found, u).entries : f.ip = e.ip /\ f.desc = e.desc
    BY DEF Upnp!NotTakenOver
  <1>1. found \in Finds
    BY DEF Upnp!Answers, Finds
  <1>2. /\ e \in uList /\ e \in Listings /\ e.desc \in Descs /\ e.ip \in Addrs /\ e.udn = u
        /\ e.ip \in uPins[u] /\ uPins[u] \in SUBSET Addrs
        /\ Upnp!PrevControl(u) = {e} /\ ~(u \in uMissed /\ u \in uSteady)
    <2>1. e \in Upnp!PrevControl(u)
      BY DEF Upnp!FindById
    <2>2. e \in uList /\ e.udn = u /\ e \in Listings
      BY <2>1 DEF UpnpInv, UpnpTypes, Upnp!PrevControl
    <2> QED BY <2>1, <2>2 DEF UpnpInv, UpnpTypes, OneControl, Listings
  <1> DEFINE accepted == Upnp!Accepted(found, u)
             set == uPins[u] \cup accepted
             prev == Upnp!PrevControl(u)
             waits == u \notin uMissed /\ \E x \in prev : x.ip \in set \ accepted
             control == IF \E x \in prev : x.ip \in accepted THEN (CHOOSE x \in prev : TRUE).ip
                        ELSE Upnp!Lowest(accepted)
             r == Upnp!Resolution(found, u)
  <1>3. (\A a \in accepted : found[a].desc = e.desc) /\ accepted \cap uPins[u] # {}
    BY <1>1, <1>2, AcceptedAlike
  <1>4. r = [split |-> FALSE, pins |-> set, waits |-> waits,
             entries |-> IF waits THEN {[x EXCEPT !.addrs = @ \cup set] : x \in prev}
                         ELSE {Upnp!Entry(u, control, found[control].desc, set, FALSE)}]
    BY <1>3 DEF Upnp!Resolution
  <1>5. accepted \subseteq Upnp!Claimants(found, u) /\ Upnp!Claimants(found, u) \cap uPins[u] \subseteq accepted
    <2>1. Upnp!Claimants(found, u) # {}
      BY <1>2, <1>3, UpnpAssumption DEF Upnp!Claimants, Upnp!Claim, Upnp!Accepted
    <2> QED BY <2>1, AcceptedClaims DEF UpnpInv
  <1> HIDE DEF accepted
  <1>6. CASE found[e.ip] = Upnp!Claim(u, e.desc)
    <2>1. e.ip \in accepted
      BY <1>2, <1>5, <1>6, UpnpAssumption DEF Upnp!Claimants, Upnp!Claim
    <2>2. ~waits /\ control = e.ip
      BY <1>2, <2>1
    <2> HIDE DEF waits, control, set
    <2>3. r.split = FALSE /\ r.entries = {Upnp!Entry(u, e.ip, found[e.ip].desc, set, FALSE)}
      BY <1>4, <2>2
    <2> QED BY <2>1, <2>3, <1>3 DEF Upnp!Entry
  <1>7. CASE u \in uSteady /\ found[e.ip] = None
    <2>1. waits
      BY <1>2, <1>5, <1>7 DEF Upnp!Claimants
    <2> HIDE DEF waits, control, set
    <2>2. r.split = FALSE /\ r.entries = {[e EXCEPT !.addrs = @ \cup set]}
      BY <1>2, <1>4, <2>1
    <2>3. [e EXCEPT !.addrs = @ \cup set].ip = e.ip /\ [e EXCEPT !.addrs = @ \cup set].desc = e.desc
      BY <1>2 DEF Listings
    <2> QED BY <2>2, <2>3
  <1> QED BY <1>6, <1>7

\* For any identities, addresses, descriptions and networks: no device is
\* listed of a network discovery has left, and none that two addresses claim
\* moves to the one that did not hold it (ssdp.rs dedupe_and_pin).
THEOREM UpnpListIsTrue == Upnp!Spec => []UpnpListTrue
  <1>1. UpnpInv => UpnpListTrue
    BY OneIdentityHolds, NotTakenOverHolds DEF UpnpListTrue, Upnp!UpnpListTrue, UpnpInv
  <1> QED BY <1>1, UpnpInitInv, UpnpNextInv, PTL DEF Upnp!Spec

-----------------------------------------------------------------------------
(* AirPlayTable: names and removals come late, so what is in the table is    *)
(* what a receiver announces or has yet to be heard to have left             *)
(* (NamesApart, RecordInv); an upsert in three steps has done what its place *)
(* says (UpsertInv); and a HomePod is remembered in one group                *)
(* (RememberedOnce).                                                         *)

Tsets == Tsids \cup {None}
Upserts == [at : {"memory", "names", "table"}, mac : Receivers!Macs, name : Names, tsid : Tsets]

ReceiverTypes ==
    /\ rDev \in [Receivers!Macs -> [on : BOOLEAN, name : Names, tsid : Tsets]]
    /\ rByes \subseteq [svc : {"raop", "airplay"}, name : Names, mac : Receivers!Macs]
    /\ rNames \in [Names -> Receivers!Macs \cup {None}]
    /\ rAirplay \in [Receivers!Macs -> Tsets \cup {Receivers!Unknown}]
    /\ rMemory \in [Tsids -> SUBSET HomePods]
    /\ rUpsert = Receivers!Idle \/ rUpsert \in Upserts

\* A name is one receiver's, and while its removal is to come that one's alone.
NamesApart ==
    /\ \A a, b \in Receivers!Macs : rDev[a].name = rDev[b].name => a = b
    /\ \A b \in rByes, k \in Receivers!Macs : b.name = rDev[k].name => k = b.mac /\ ~rDev[k].on
    /\ \A b, c \in rByes : b.name = c.name => b.mac = c.mac
    /\ \A m \in Receivers!Macs : <<"airplay", m>> \in rDue => rDev[m].on

\* A name the receiver has, or had and will be heard to have left.
Bears(m, n) == (rDev[m].on /\ rDev[m].name = n) \/ [svc |-> "airplay", name |-> n, mac |-> m] \in rByes

OnlyName(m, n) == rNames[n] = m /\ \A x \in Names : rNames[x] = m => x = n
Remembers(m, group) == m \in HomePods => \A t \in Tsids : m \in rMemory[t] <=> t = group

UpsertInv ==
    rUpsert # Receivers!Idle =>
        /\ Bears(rUpsert.mac, rUpsert.name)
        /\ rUpsert.at \in {"names", "table"} => Remembers(rUpsert.mac, rUpsert.tsid)
        /\ rUpsert.at = "table" => OnlyName(rUpsert.mac, rUpsert.name)

\* A record is found by one name, which its removal will give.
RecordInv ==
    \A m \in HomePods : Receivers!HasAirPlay(m) => \E n \in Names : OnlyName(m, n) /\ Bears(m, n)

RememberedOnce == \A t, u \in Tsids : rMemory[t] \cap rMemory[u] # {} => t = u

\* What was read of a receiver last is what it announced last.
ReadInv ==
    \A m \in HomePods : rDev[m].on /\ <<"airplay", m>> \notin rDue =>
        IF rUpsert # Receivers!Idle /\ rUpsert.mac = m
        THEN rUpsert.name = rDev[m].name /\ rUpsert.tsid = rDev[m].tsid
        ELSE rAirplay[m] = rDev[m].tsid /\ rNames[rDev[m].name] = m /\ Remembers(m, rDev[m].tsid)

ReceiversInv == ReceiverTypes /\ NamesApart /\ UpsertInv /\ RecordInv /\ RememberedOnce /\ ReadInv

LEMMA ReceiversAssumption ==
    /\ None \notin Receivers!Macs /\ None \notin Tsids /\ None # "unknown" /\ None # "ap2" /\ None # "raop"
    /\ "unknown" \notin Tsids /\ IsFiniteSet(HomePods) /\ HomePods \subseteq Receivers!Macs
    /\ \E n \in [Receivers!Macs -> Names] : \A a, b \in Receivers!Macs : n[a] = n[b] => a = b
  BY Zenon, ServiceConstants
     DEF Receivers!ConstantsOK, Receivers!Unknown, Receivers!Macs, Receivers!IsFiniteSet, IsFiniteSet

\* Two receivers never bear one name.
LEMMA BearsOne ==
    ASSUME ReceiverTypes, NamesApart, NEW a \in Receivers!Macs, NEW b \in Receivers!Macs, NEW n,
           Bears(a, n), Bears(b, n)
    PROVE  a = b
  <1> DEFINE bye(m) == [svc |-> "airplay", name |-> n, mac |-> m]
  <1>1. bye(a) \in rByes /\ bye(b) \in rByes => a = b
    <2>1. bye(a) \in rByes /\ bye(b) \in rByes => bye(a).mac = bye(b).mac
      BY DEF NamesApart
    <2> QED BY <2>1
  <1>2. bye(a) \in rByes /\ rDev[b].on /\ rDev[b].name = n => a = b
    <2>1. bye(a) \in rByes /\ bye(a).name = rDev[b].name => b = bye(a).mac
      BY DEF NamesApart
    <2> QED BY <2>1
  <1>3. bye(b) \in rByes /\ rDev[a].on /\ rDev[a].name = n => a = b
    <2>1. bye(b) \in rByes /\ bye(b).name = rDev[a].name => a = bye(b).mac
      BY DEF NamesApart
    <2> QED BY <2>1
  <1>4. rDev[a].name = n /\ rDev[b].name = n => a = b
    BY DEF NamesApart
  <1> QED BY <1>1, <1>2, <1>3, <1>4 DEF Bears

LEMMA ReceiversInitInv == Receivers!Init => ReceiversInv
  <1> SUFFICES ASSUME Receivers!Init PROVE ReceiversInv
    OBVIOUS
  <1> DEFINE name == CHOOSE n \in [Receivers!Macs -> Names] : \A a, b \in Receivers!Macs : n[a] = n[b] => a = b
  <1>1. name \in [Receivers!Macs -> Names] /\ \A a, b \in Receivers!Macs : name[a] = name[b] => a = b
    BY ReceiversAssumption
  <1> HIDE DEF name
  <1>2. PICK on \in SUBSET HomePods, tsid \in [Receivers!Macs -> Tsets] :
          rDev = [m \in Receivers!Macs |-> [on |-> m \in on, name |-> name[m], tsid |-> tsid[m]]]
    BY DEF Receivers!Init, Tsets, name
  <1>3. rDev \in [Receivers!Macs -> [on : BOOLEAN, name : Names, tsid : Tsets]]
    BY <1>1, <1>2
  <1>4. \A m \in Receivers!Macs : rDev[m].name = name[m]
    BY <1>2
  <1>5. /\ rDue = Receivers!Services \X {m \in Receivers!Macs : rDev[m].on} /\ rByes = {}
        /\ rAirplay = [m \in Receivers!Macs |-> Receivers!Unknown] /\ rNames = [n \in Names |-> None]
        /\ rMemory = [t \in Tsids |-> {}] /\ rUpsert = Receivers!Idle
    BY DEF Receivers!Init
  <1>6. ReceiverTypes
    BY <1>3, <1>5 DEF ReceiverTypes
  <1>7. NamesApart
    BY <1>1, <1>4, <1>5 DEF NamesApart, Receivers!Services
  <1>8. UpsertInv /\ RecordInv /\ RememberedOnce
    BY <1>5, ReceiversAssumption DEF UpsertInv, RecordInv, RememberedOnce, Receivers!HasAirPlay
  <1>9. ReadInv
    BY <1>5, ReceiversAssumption DEF ReadInv, Receivers!Services
  <1> QED BY <1>6, <1>7, <1>8, <1>9 DEF ReceiversInv

\* What the receivers do leaves the tables alone: each bears what it bore, and
\* one that changed is to be read again.
LEMMA DeviceMoves ==
    ASSUME ReceiversInv, UNCHANGED <<rAirplay, rNames, rMemory, rUpsert>>, ReceiverTypes', NamesApart',
           \A m \in Receivers!Macs, n \in Names : Bears(m, n) => Bears(m, n)',
           \A m \in HomePods : rDev'[m].on /\ <<"airplay", m>> \notin rDue' =>
               rDev'[m] = rDev[m] /\ <<"airplay", m>> \notin rDue
    PROVE  ReceiversInv'
  <1>1. UpsertInv'
    BY DEF ReceiversInv, ReceiverTypes, UpsertInv, Upserts, OnlyName, Remembers
  <1>2. RecordInv' /\ RememberedOnce'
    BY ReceiversAssumption DEF ReceiversInv, RecordInv, RememberedOnce, OnlyName, Receivers!HasAirPlay
  <1>3. ReadInv'
    BY DEF ReceiversInv, ReadInv, Remembers
  <1> QED BY <1>1, <1>2, <1>3 DEF ReceiversInv

LEMMA TurnsOnInv == ASSUME ReceiversInv, NEW m \in Receivers!Macs, Receivers!TurnsOn(m) PROVE ReceiversInv'
  <1>1. /\ rDev' = [rDev EXCEPT ![m].on = TRUE] /\ rDue' = rDue \cup (Receivers!Services \X {m})
        /\ UNCHANGED <<rByes, rAirplay, rNames, rMemory, rUpsert>>
        /\ ~rDev[m].on /\ \A b \in rByes : b.name # rDev[m].name
    BY DEF Receivers!TurnsOn, Receivers!Announce, Receivers!tables, Receivers!Outgoing
  <1>2. /\ rDev' \in [Receivers!Macs -> [on : BOOLEAN, name : Names, tsid : Tsets]]
        /\ \A k \in Receivers!Macs : rDev'[k].name = rDev[k].name /\ rDev'[k].on = (k = m \/ rDev[k].on)
        /\ \A k \in Receivers!Macs : k # m => rDev'[k] = rDev[k]
    BY <1>1 DEF ReceiversInv, ReceiverTypes
  <1>3. \A k : <<"airplay", k>> \in rDue' <=> k = m \/ <<"airplay", k>> \in rDue
    BY <1>1 DEF Receivers!Services
  <1>4. ReceiverTypes' /\ NamesApart'
    BY <1>1, <1>2, <1>3 DEF ReceiversInv, ReceiverTypes, NamesApart
  <1>5. \A k \in Receivers!Macs, n \in Names : Bears(k, n) => Bears(k, n)'
    BY <1>1, <1>2 DEF Bears
  <1> QED BY <1>1, <1>2, <1>3, <1>4, <1>5, DeviceMoves, ReceiversAssumption

\* The removals that a receiver leaves behind.
LEMMA LeavesByes ==
    ASSUME ReceiverTypes, NEW m \in Receivers!Macs, Receivers!Leaves(m)
    PROVE  /\ rByes' \subseteq [svc : {"raop", "airplay"}, name : Names, mac : Receivers!Macs]
           /\ \A b \in rByes' : b \in rByes \/ (b.name = rDev[m].name /\ b.mac = m)
           /\ rByes \subseteq rByes' /\ [svc |-> "airplay", name |-> rDev[m].name, mac |-> m] \in rByes'
  <1>1. rDev[m].name \in Names
    BY DEF ReceiverTypes
  <1> DEFINE bye(s) == [svc |-> s, name |-> rDev[m].name, mac |-> m]
  <1>2. rByes' = rByes \cup {bye(s) : s \in Receivers!Services}
    BY DEF Receivers!Leaves
  <1>3. \A s \in Receivers!Services : bye(s) \in [svc : {"raop", "airplay"}, name : Names, mac : Receivers!Macs]
                                     /\ bye(s).name = rDev[m].name /\ bye(s).mac = m
    BY <1>1 DEF Receivers!Services
  <1>4. "airplay" \in Receivers!Services
    BY DEF Receivers!Services
  <1> QED BY <1>2, <1>3, <1>4 DEF ReceiverTypes

LEMMA TurnsOffInv == ASSUME ReceiversInv, NEW m \in Receivers!Macs, Receivers!TurnsOff(m) PROVE ReceiversInv'
  <1>1. /\ rDev' = [rDev EXCEPT ![m].on = FALSE] /\ rDue' = rDue \ (Receivers!Services \X {m})
        /\ UNCHANGED <<rAirplay, rNames, rMemory, rUpsert>> /\ rDev[m].on /\ Receivers!Leaves(m)
    BY DEF Receivers!TurnsOff, Receivers!tables
  <1>2. /\ rDev' \in [Receivers!Macs -> [on : BOOLEAN, name : Names, tsid : Tsets]]
        /\ \A k \in Receivers!Macs : rDev'[k].name = rDev[k].name /\ rDev'[k].on = (k # m /\ rDev[k].on)
        /\ \A k \in Receivers!Macs : k # m => rDev'[k] = rDev[k]
        /\ rDev[m].name \in Names
    BY <1>1 DEF ReceiversInv, ReceiverTypes
  <1>3. \A k : <<"airplay", k>> \in rDue' <=> k # m /\ <<"airplay", k>> \in rDue
    BY <1>1 DEF Receivers!Services
  <1>4. /\ rByes' \subseteq [svc : {"raop", "airplay"}, name : Names, mac : Receivers!Macs]
        /\ \A b \in rByes' : b \in rByes \/ (b.name = rDev[m].name /\ b.mac = m)
        /\ rByes \subseteq rByes' /\ [svc |-> "airplay", name |-> rDev[m].name, mac |-> m] \in rByes'
    BY <1>1, LeavesByes DEF ReceiversInv
  <1>5. ReceiverTypes'
    BY <1>1, <1>2, <1>4 DEF ReceiversInv, ReceiverTypes
  <1>6. NamesApart'
    <2>1. \A b \in rByes', k \in Receivers!Macs : b.name = rDev'[k].name => k = b.mac /\ ~rDev'[k].on
      <3> SUFFICES ASSUME NEW b \in rByes', NEW k \in Receivers!Macs, b.name = rDev[k].name
                   PROVE k = b.mac /\ ~rDev'[k].on
        BY <1>2
      <3>1. CASE b \in rByes
        BY <1>2, <3>1 DEF ReceiversInv, NamesApart
      <3>2. CASE b \notin rByes
        BY <1>2, <1>4, <3>2 DEF ReceiversInv, NamesApart
      <3> QED BY <3>1, <3>2
    <2>2. \A b, c \in rByes' : b.name = c.name => b.mac = c.mac
      BY <1>4 DEF ReceiversInv, NamesApart
    <2> QED BY <1>2, <1>3, <2>1, <2>2 DEF ReceiversInv, NamesApart
  <1>7. \A k \in Receivers!Macs, n \in Names : Bears(k, n) => Bears(k, n)'
    BY <1>1, <1>2, <1>4 DEF Bears
  <1> QED BY <1>1, <1>2, <1>3, <1>5, <1>6, <1>7, DeviceMoves, ReceiversAssumption

LEMMA RenamedInv == ASSUME ReceiversInv, NEW m \in Receivers!Macs, Receivers!Renamed(m) PROVE ReceiversInv'
  <1>1. PICK n \in Names :
          /\ \A b \in rByes : b.name # n
          /\ \A k \in Receivers!Macs : rDev[k].name # n
          /\ rDev' = [rDev EXCEPT ![m].name = n]
    BY DEF Receivers!Renamed, Receivers!Outgoing
  <1>2. /\ rDev[m].on /\ rDue' = rDue \cup (Receivers!Services \X {m}) /\ Receivers!Leaves(m)
        /\ UNCHANGED <<rAirplay, rNames, rMemory, rUpsert>>
    BY DEF Receivers!Renamed, Receivers!Announce, Receivers!tables
  <1>3. /\ rDev' \in [Receivers!Macs -> [on : BOOLEAN, name : Names, tsid : Tsets]]
        /\ rDev'[m].name = n /\ \A k \in Receivers!Macs : rDev'[k].on = rDev[k].on
        /\ \A k \in Receivers!Macs : k # m => rDev'[k] = rDev[k]
        /\ rDev[m].name \in Names
    BY <1>1 DEF ReceiversInv, ReceiverTypes
  <1>4. \A k : <<"airplay", k>> \in rDue' <=> k = m \/ <<"airplay", k>> \in rDue
    BY <1>2 DEF Receivers!Services
  <1>5. /\ rByes' \subseteq [svc : {"raop", "airplay"}, name : Names, mac : Receivers!Macs]
        /\ \A b \in rByes' : b \in rByes \/ (b.name = rDev[m].name /\ b.mac = m)
        /\ rByes \subseteq rByes' /\ [svc |-> "airplay", name |-> rDev[m].name, mac |-> m] \in rByes'
    BY <1>2, LeavesByes DEF ReceiversInv
  <1>6. ReceiverTypes'
    BY <1>2, <1>3, <1>5 DEF ReceiversInv, ReceiverTypes
  <1>7. NamesApart'
    <2>1. \A a, b \in Receivers!Macs : rDev'[a].name = rDev'[b].name => a = b
      BY <1>1, <1>3 DEF ReceiversInv, NamesApart
    <2>2. \A b \in rByes', k \in Receivers!Macs : b.name = rDev'[k].name => k = b.mac /\ ~rDev'[k].on
      <3> SUFFICES ASSUME NEW b \in rByes', NEW k \in Receivers!Macs, b.name = rDev'[k].name
                   PROVE k = b.mac /\ ~rDev'[k].on
        OBVIOUS
      <3>1. b.name # n
        BY <1>1, <1>5
      <3>2. k # m /\ rDev'[k] = rDev[k]
        BY <1>3, <3>1
      <3>3. CASE b \in rByes
        BY <3>2, <3>3 DEF ReceiversInv, NamesApart
      <3>4. CASE b \notin rByes
        BY <1>5, <3>2, <3>4 DEF ReceiversInv, NamesApart
      <3> QED BY <3>3, <3>4
    <2>3. \A b, c \in rByes' : b.name = c.name => b.mac = c.mac
      BY <1>5 DEF ReceiversInv, NamesApart
    <2>4. \A k \in Receivers!Macs : <<"airplay", k>> \in rDue' => rDev'[k].on
      BY <1>2, <1>3, <1>4 DEF ReceiversInv, NamesApart
    <2> QED BY <2>1, <2>2, <2>3, <2>4 DEF NamesApart
  <1>8. \A k \in Receivers!Macs, x \in Names : Bears(k, x) => Bears(k, x)'
    BY <1>2, <1>3, <1>5 DEF Bears
  <1> QED BY <1>2, <1>3, <1>4, <1>6, <1>7, <1>8, DeviceMoves, ReceiversAssumption

LEMMA RegroupedInv == ASSUME ReceiversInv, NEW m \in HomePods, Receivers!Regrouped(m) PROVE ReceiversInv'
  <1>1. PICK t \in Tsets : rDev' = [rDev EXCEPT ![m].tsid = t]
    BY DEF Receivers!Regrouped, Tsets
  <1>2. /\ rDev[m].on /\ rDue' = rDue \cup {<<"airplay", m>>}
        /\ UNCHANGED <<rByes, rAirplay, rNames, rMemory, rUpsert>> /\ m \in Receivers!Macs
    BY ReceiversAssumption DEF Receivers!Regrouped, Receivers!tables
  <1>3. /\ rDev' \in [Receivers!Macs -> [on : BOOLEAN, name : Names, tsid : Tsets]]
        /\ \A k \in Receivers!Macs : rDev'[k].on = rDev[k].on /\ rDev'[k].name = rDev[k].name
        /\ \A k \in Receivers!Macs : k # m => rDev'[k] = rDev[k]
    BY <1>1, <1>2 DEF ReceiversInv, ReceiverTypes
  <1>4. \A k : <<"airplay", k>> \in rDue' <=> k = m \/ <<"airplay", k>> \in rDue
    BY <1>2
  <1>5. ReceiverTypes' /\ NamesApart'
    BY <1>2, <1>3, <1>4 DEF ReceiversInv, ReceiverTypes, NamesApart
  <1>6. \A k \in Receivers!Macs, x \in Names : Bears(k, x) => Bears(k, x)'
    BY <1>2, <1>3 DEF Bears
  <1> QED BY <1>2, <1>3, <1>4, <1>5, <1>6, DeviceMoves, ReceiversAssumption

LEMMA ClearInv == ASSUME ReceiversInv, Receivers!Clear PROVE ReceiversInv'
  <1>1. /\ rAirplay' = [m \in Receivers!Macs |-> Receivers!Unknown] /\ rByes' = {}
        /\ rDue' = Receivers!Services \X {m \in Receivers!Macs : rDev[m].on}
        /\ rUpsert = Receivers!Idle /\ UNCHANGED <<rDev, rNames, rMemory, rUpsert>>
    BY DEF Receivers!Clear
  <1>2. ReceiverTypes' /\ NamesApart'
    BY <1>1 DEF ReceiversInv, ReceiverTypes, NamesApart, Receivers!Services
  <1>3. UpsertInv' /\ RecordInv' /\ RememberedOnce'
    BY <1>1, ReceiversAssumption DEF ReceiversInv, UpsertInv, RecordInv, RememberedOnce,
       Receivers!HasAirPlay
  <1>4. ReadInv'
    BY <1>1, ReceiversAssumption DEF ReadInv, Receivers!Services
  <1> QED BY <1>2, <1>3, <1>4 DEF ReceiversInv

LEMMA RaopInv ==
    ASSUME ReceiversInv, UNCHANGED <<rDev, rAirplay, rNames, rMemory, rUpsert>>, rByes' \subseteq rByes,
           \A b \in rByes : b.svc = "airplay" => b \in rByes',
           \A m : <<"airplay", m>> \in rDue' <=> <<"airplay", m>> \in rDue
    PROVE  ReceiversInv'
  <1>1. ReceiverTypes' /\ NamesApart'
    BY DEF ReceiversInv, ReceiverTypes, NamesApart
  <1>2. \A m \in Receivers!Macs, n \in Names : Bears(m, n) => Bears(m, n)'
    BY DEF Bears
  <1> QED BY <1>1, <1>2, DeviceMoves

LEMMA AirPlayResolvedInv ==
    ASSUME ReceiversInv, NEW m \in Receivers!Macs, Receivers!AirPlayResolved(m) PROVE ReceiversInv'
  <1>1. /\ <<"airplay", m>> \in rDue /\ rDue' = rDue \ {<<"airplay", m>>} /\ rUpsert = Receivers!Idle
        /\ rUpsert' = [at |-> "memory", mac |-> m, name |-> rDev[m].name, tsid |-> rDev[m].tsid]
        /\ UNCHANGED <<rDev, rByes, rAirplay, rNames, rMemory>>
    BY DEF Receivers!AirPlayResolved
  <1>2. rUpsert' \in Upserts /\ rUpsert'.mac = m /\ rUpsert'.at = "memory"
        /\ rUpsert'.name = rDev[m].name /\ rUpsert'.tsid = rDev[m].tsid /\ rUpsert' # Receivers!Idle
    BY <1>1 DEF ReceiversInv, ReceiverTypes, Upserts, Receivers!Idle
  <1>3. ReceiverTypes' /\ NamesApart'
    BY <1>1, <1>2 DEF ReceiversInv, ReceiverTypes, NamesApart
  <1>4. UpsertInv'
    <2>1. rDev[m].on
      BY <1>1 DEF ReceiversInv, NamesApart
    <2> QED BY <1>1, <1>2, <2>1 DEF UpsertInv, Bears
  <1>5. RecordInv' /\ RememberedOnce'
    BY <1>1 DEF ReceiversInv, RecordInv, RememberedOnce, OnlyName, Bears, Receivers!HasAirPlay
  <1>6. ReadInv'
    BY <1>1, <1>2 DEF ReceiversInv, ReadInv, Remembers
  <1> QED BY <1>3, <1>4, <1>5, <1>6 DEF ReceiversInv

\* The steps of an upsert have it in hand.
LEMMA UpsertInHand ==
    ASSUME ReceiversInv, rUpsert.at \in {"memory", "names", "table"}
    PROVE  /\ rUpsert \in Upserts /\ rUpsert # Receivers!Idle
           /\ rUpsert.mac \in Receivers!Macs /\ rUpsert.name \in Names /\ rUpsert.tsid \in Tsets
           /\ Bears(rUpsert.mac, rUpsert.name)
  <1>1. rUpsert # Receivers!Idle
    BY DEF Receivers!Idle
  <1> QED BY <1>1 DEF ReceiversInv, ReceiverTypes, UpsertInv, Upserts

LEMMA UpsertMemoryInv == ASSUME ReceiversInv, Receivers!UpsertMemory PROVE ReceiversInv'
  <1> DEFINE m == rUpsert.mac
  <1>1. /\ rUpsert.at = "memory" /\ rUpsert' = [rUpsert EXCEPT !.at = "names"]
        /\ UNCHANGED <<rDev, rDue, rByes, rAirplay, rNames>>
        /\ rMemory' = [t \in Tsids |->
              IF t # rUpsert.tsid THEN rMemory[t] \ {m}
              ELSE IF m \in HomePods THEN rMemory[t] \cup {m} ELSE rMemory[t]]
    BY DEF Receivers!UpsertMemory, Receivers!Without
  <1>2. rUpsert \in Upserts /\ rUpsert # Receivers!Idle /\ Bears(m, rUpsert.name)
    BY <1>1, UpsertInHand
  <1>3. rUpsert' \in Upserts /\ rUpsert'.mac = m /\ rUpsert'.at = "names" /\ rUpsert' # Receivers!Idle
        /\ rUpsert'.name = rUpsert.name /\ rUpsert'.tsid = rUpsert.tsid
    BY <1>1, <1>2 DEF Upserts, Receivers!Idle
  <1>4. rMemory \in [Tsids -> SUBSET HomePods]
    BY DEF ReceiversInv, ReceiverTypes
  <1> HIDE DEF m
  <1>5. \A t \in Tsids : \A k : k # m => (k \in rMemory'[t] <=> k \in rMemory[t])
    BY <1>1
  <1>6. m \in HomePods => \A t \in Tsids : m \in rMemory'[t] <=> t = rUpsert.tsid
    BY <1>1
  <1>7. rMemory' \in [Tsids -> SUBSET HomePods]
    BY <1>1, <1>4
  <1>8. ReceiverTypes' /\ NamesApart'
    BY <1>1, <1>3, <1>7 DEF ReceiversInv, ReceiverTypes, NamesApart
  <1>9. UpsertInv'
    BY <1>1, <1>2, <1>3, <1>6 DEF UpsertInv, Bears, Remembers
  <1>10. RecordInv'
    BY <1>1 DEF ReceiversInv, RecordInv, OnlyName, Bears, Receivers!HasAirPlay
  <1>11. RememberedOnce'
    <2> SUFFICES ASSUME NEW t \in Tsids, NEW u \in Tsids, NEW k \in rMemory'[t], k \in rMemory'[u] PROVE t = u
      BY DEF RememberedOnce
    <2>1. k \in HomePods
      BY <1>7
    <2>2. CASE k = m
      BY <1>6, <2>1, <2>2
    <2>3. CASE k # m
      BY <1>5, <2>3 DEF ReceiversInv, RememberedOnce
    <2> QED BY <2>2, <2>3
  <1>12. ReadInv'
    BY <1>1, <1>2, <1>3, <1>5 DEF ReceiversInv, ReadInv, Remembers, m
  <1> QED BY <1>8, <1>9, <1>10, <1>11, <1>12 DEF ReceiversInv

LEMMA UpsertNamesInv == ASSUME ReceiversInv, Receivers!UpsertNames PROVE ReceiversInv'
  <1> DEFINE m == rUpsert.mac
             name == rUpsert.name
  <1>1. /\ rUpsert.at = "names" /\ rUpsert' = [rUpsert EXCEPT !.at = "table"]
        /\ UNCHANGED <<rDev, rDue, rByes, rAirplay, rMemory>>
        /\ rNames' = [n \in Names |-> IF n = name THEN m ELSE IF rNames[n] = m THEN None ELSE rNames[n]]
    BY DEF Receivers!UpsertNames
  <1>2. rUpsert \in Upserts /\ rUpsert # Receivers!Idle /\ Bears(m, name) /\ m \in Receivers!Macs /\ name \in Names
        /\ m # None
    BY <1>1, UpsertInHand, ReceiversAssumption
  <1>3. rUpsert' \in Upserts /\ rUpsert'.mac = m /\ rUpsert'.at = "table" /\ rUpsert' # Receivers!Idle
        /\ rUpsert'.name = name /\ rUpsert'.tsid = rUpsert.tsid
    BY <1>1, <1>2 DEF Upserts, Receivers!Idle
  <1>4. Remembers(m, rUpsert.tsid)
    BY <1>1, <1>2 DEF ReceiversInv, UpsertInv
  <1> HIDE DEF m, name
  <1>5. rNames'[name] = m /\ \A n \in Names : n # name => rNames'[n] # m
    BY <1>1, <1>2
  <1>6. \A k : k # m /\ k # None => \A n \in Names : rNames'[n] = k <=> n # name /\ rNames[n] = k
    BY <1>1
  <1>7. rNames' \in [Names -> Receivers!Macs \cup {None}]
    BY <1>1, <1>2 DEF ReceiversInv, ReceiverTypes
  <1>8. ReceiverTypes' /\ NamesApart'
    BY <1>1, <1>3, <1>7 DEF ReceiversInv, ReceiverTypes, NamesApart
  <1>9. UpsertInv'
    BY <1>1, <1>2, <1>3, <1>4, <1>5 DEF UpsertInv, Bears, OnlyName, Remembers
  <1>10. \A k \in Receivers!Macs : k # m => ~Bears(k, name)
    BY <1>2, BearsOne DEF ReceiversInv
  <1>11. RecordInv'
    <2> SUFFICES ASSUME NEW k \in HomePods, Receivers!HasAirPlay(k)
                 PROVE \E n \in Names : OnlyName(k, n)' /\ Bears(k, n)'
      BY <1>1 DEF RecordInv, Receivers!HasAirPlay
    <2>1. CASE k = m
      BY <1>1, <1>2, <1>5, <2>1 DEF OnlyName, Bears
    <2>2. CASE k # m
      <3>1. PICK n \in Names : OnlyName(k, n) /\ Bears(k, n)
        BY DEF ReceiversInv, RecordInv
      <3>2. n # name /\ k # None
        BY <1>10, <2>2, <3>1, ReceiversAssumption
      <3> QED BY <1>1, <1>6, <2>2, <3>1, <3>2 DEF OnlyName, Bears
    <2> QED BY <2>1, <2>2
  <1>12. RememberedOnce'
    BY <1>1 DEF ReceiversInv, RememberedOnce
  <1>13. ReadInv'
    <2> SUFFICES ASSUME NEW k \in HomePods, rDev[k].on, <<"airplay", k>> \notin rDue
                 PROVE IF k = m THEN name = rDev[k].name /\ rUpsert.tsid = rDev[k].tsid
                       ELSE rAirplay[k] = rDev[k].tsid /\ rNames'[rDev[k].name] = k /\ Remembers(k, rDev[k].tsid)
      BY <1>1, <1>2, <1>3 DEF ReadInv, Remembers
    <2>1. IF k = m THEN name = rDev[k].name /\ rUpsert.tsid = rDev[k].tsid
          ELSE rAirplay[k] = rDev[k].tsid /\ rNames[rDev[k].name] = k /\ Remembers(k, rDev[k].tsid)
      BY <1>2 DEF ReceiversInv, ReadInv, m, name
    <2>2. k # m => rDev[k].name # name /\ rDev[k].name \in Names /\ k # None
      BY <1>10, ReceiversAssumption DEF Bears, ReceiversInv, ReceiverTypes
    <2> QED BY <1>6, <2>1, <2>2
  <1> QED BY <1>8, <1>9, <1>11, <1>12, <1>13 DEF ReceiversInv

LEMMA UpsertTableInv == ASSUME ReceiversInv, Receivers!UpsertTable PROVE ReceiversInv'
  <1> DEFINE m == rUpsert.mac
  <1>1. /\ rUpsert.at = "table" /\ rUpsert' = Receivers!Idle /\ rAirplay' = [rAirplay EXCEPT ![m] = rUpsert.tsid]
        /\ UNCHANGED <<rDev, rDue, rByes, rNames, rMemory>>
    BY DEF Receivers!UpsertTable
  <1>2. rUpsert \in Upserts /\ rUpsert # Receivers!Idle /\ Bears(m, rUpsert.name) /\ m \in Receivers!Macs
        /\ rUpsert.name \in Names /\ rUpsert.tsid \in Tsets
    BY <1>1, UpsertInHand
  <1>3. Remembers(m, rUpsert.tsid) /\ OnlyName(m, rUpsert.name)
    BY <1>1, <1>2 DEF ReceiversInv, UpsertInv
  <1> HIDE DEF m
  <1>4. rAirplay' \in [Receivers!Macs -> Tsets \cup {Receivers!Unknown}] /\ rAirplay'[m] = rUpsert.tsid
        /\ \A k \in Receivers!Macs : k # m => rAirplay'[k] = rAirplay[k]
    BY <1>1, <1>2 DEF ReceiversInv, ReceiverTypes
  <1>5. ReceiverTypes' /\ NamesApart'
    BY <1>1, <1>4 DEF ReceiversInv, ReceiverTypes, NamesApart
  <1>6. UpsertInv' /\ RememberedOnce'
    BY <1>1 DEF ReceiversInv, UpsertInv, RememberedOnce
  <1>7. RecordInv'
    BY <1>1, <1>2, <1>3, <1>4, ReceiversAssumption
       DEF ReceiversInv, RecordInv, OnlyName, Bears, Receivers!HasAirPlay
  <1>8. ReadInv'
    <2> SUFFICES ASSUME NEW k \in HomePods, rDev[k].on, <<"airplay", k>> \notin rDue
                 PROVE rAirplay'[k] = rDev[k].tsid /\ rNames[rDev[k].name] = k /\ Remembers(k, rDev[k].tsid)
      BY <1>1 DEF ReadInv, Remembers
    <2>1. IF k = m THEN rUpsert.name = rDev[k].name /\ rUpsert.tsid = rDev[k].tsid
          ELSE rAirplay[k] = rDev[k].tsid /\ rNames[rDev[k].name] = k /\ Remembers(k, rDev[k].tsid)
      BY <1>2 DEF ReceiversInv, ReadInv, m
    <2> QED BY <1>3, <1>4, <2>1, ReceiversAssumption DEF OnlyName
  <1> QED BY <1>5, <1>6, <1>7, <1>8 DEF ReceiversInv

\* A late removal of an old name finds no current record.
LEMMA AirPlayRemovedInv == ASSUME ReceiversInv, Receivers!AirPlayRemoved PROVE ReceiversInv'
  <1>1. PICK b \in rByes :
          /\ b.svc = "airplay" /\ rByes' = rByes \ {b}
          /\ LET m == rNames[b.name] IN
             IF m \in HomePods /\ rAirplay[m] # Receivers!Unknown
             THEN rNames' = [rNames EXCEPT ![b.name] = None] /\ rAirplay' = [rAirplay EXCEPT ![m] = Receivers!Unknown]
             ELSE UNCHANGED <<rNames, rAirplay>>
    BY DEF Receivers!AirPlayRemoved
  <1>2. rUpsert = Receivers!Idle /\ UNCHANGED <<rDev, rDue, rMemory, rUpsert>>
    BY DEF Receivers!AirPlayRemoved
  <1> DEFINE m == rNames[b.name]
             gone == m \in HomePods /\ rAirplay[m] # Receivers!Unknown
  <1>3. b.name \in Names /\ b.mac \in Receivers!Macs /\ b = [svc |-> "airplay", name |-> b.name, mac |-> b.mac]
    BY <1>1 DEF ReceiversInv, ReceiverTypes
  <1>4. /\ gone => /\ rNames' = [rNames EXCEPT ![b.name] = None]
                   /\ rAirplay' = [rAirplay EXCEPT ![m] = Receivers!Unknown]
        /\ ~gone => UNCHANGED <<rNames, rAirplay>>
    BY <1>1
  <1>5. m \in HomePods => rDev[m].name # b.name \/ ~rDev[m].on
    BY <1>1, ReceiversAssumption DEF ReceiversInv, NamesApart
  <1> HIDE DEF m, gone
  <1>6. gone => m \in HomePods /\ m \in Receivers!Macs
    BY ReceiversAssumption DEF gone
  <1>7. /\ rNames' \in [Names -> Receivers!Macs \cup {None}]
        /\ rAirplay' \in [Receivers!Macs -> Tsets \cup {Receivers!Unknown}]
        /\ \A k : k # m /\ k # None => \A n \in Names : rNames'[n] = k <=> rNames[n] = k
        /\ \A k \in Receivers!Macs : k # m => rAirplay'[k] = rAirplay[k]
        /\ gone => rAirplay'[m] = Receivers!Unknown
    BY <1>3, <1>4, <1>6 DEF ReceiversInv, ReceiverTypes, m
  <1>8. ReceiverTypes' /\ NamesApart'
    BY <1>1, <1>2, <1>7 DEF ReceiversInv, ReceiverTypes, NamesApart
  <1>9. UpsertInv' /\ RememberedOnce'
    BY <1>2 DEF ReceiversInv, UpsertInv, RememberedOnce
  <1>10. RecordInv'
    <2> SUFFICES ASSUME NEW k \in HomePods, rAirplay'[k] # Receivers!Unknown
                 PROVE \E n \in Names : OnlyName(k, n)' /\ Bears(k, n)'
      BY DEF RecordInv, Receivers!HasAirPlay
    <2>1. k # m \/ ~gone
      BY <1>7
    <2>2. rAirplay[k] # Receivers!Unknown /\ k # None /\ k \in Receivers!Macs
      BY <1>4, <1>7, <2>1, ReceiversAssumption
    <2>3. PICK n \in Names : OnlyName(k, n) /\ Bears(k, n)
      BY <2>2 DEF ReceiversInv, RecordInv, Receivers!HasAirPlay
    <2>4. OnlyName(k, n)'
      BY <1>4, <1>7, <2>1, <2>2, <2>3 DEF OnlyName
    <2>5. n # b.name
      <3>1. n = b.name => k = m
        BY <2>3 DEF OnlyName, m
      <3> QED BY <2>1, <2>2, <3>1 DEF gone
    <2>6. Bears(k, n)'
      BY <1>1, <1>2, <1>3, <2>3, <2>5 DEF Bears
    <2> QED BY <2>4, <2>6
  <1>11. ReadInv'
    <2> SUFFICES ASSUME NEW k \in HomePods, rDev[k].on, <<"airplay", k>> \notin rDue
                 PROVE rAirplay'[k] = rDev[k].tsid /\ rNames'[rDev[k].name] = k /\ Remembers(k, rDev[k].tsid)
      BY <1>2 DEF ReadInv, Remembers
    <2>1. rAirplay[k] = rDev[k].tsid /\ rNames[rDev[k].name] = k /\ Remembers(k, rDev[k].tsid)
      BY <1>2 DEF ReceiversInv, ReadInv
    <2>2. rDev[k].name \in Names /\ k \in Receivers!Macs /\ k # None /\ rAirplay[k] # Receivers!Unknown
      BY <2>1, ReceiversAssumption DEF ReceiversInv, ReceiverTypes, Tsets, Receivers!Unknown
    <2>3. PICK n \in Names : OnlyName(k, n)
      BY <2>2 DEF ReceiversInv, RecordInv, Receivers!HasAirPlay
    <2>4. n = rDev[k].name
      BY <2>1, <2>2, <2>3 DEF OnlyName
    <2>5. k = m => n = b.name
      BY <1>3, <2>3 DEF OnlyName, m
    <2>6. k # m
      BY <1>5, <2>4, <2>5
    <2> QED BY <1>7, <2>1, <2>2, <2>6
  <1> QED BY <1>8, <1>9, <1>10, <1>11 DEF ReceiversInv

LEMMA ReceiversNextInv == ReceiversInv /\ [Receivers!Next]_(Receivers!vars) => ReceiversInv'
  <1> SUFFICES ASSUME ReceiversInv, [Receivers!Next]_(Receivers!vars) PROVE ReceiversInv'
    OBVIOUS
  <1>1. CASE UNCHANGED Receivers!vars
    BY <1>1, RaopInv DEF Receivers!vars
  <1>2. ASSUME NEW m \in Receivers!Macs, Receivers!RaopResolved(m) PROVE ReceiversInv'
    <2>1. \A k : <<"airplay", k>> \in rDue' <=> <<"airplay", k>> \in rDue
      BY <1>2 DEF Receivers!RaopResolved
    <2> QED BY <1>2, <2>1, RaopInv DEF Receivers!RaopResolved
  <1>3. CASE Receivers!RaopRemoved
    BY <1>3, RaopInv DEF Receivers!RaopRemoved
  <1> QED BY <1>1, <1>2, <1>3, TurnsOnInv, TurnsOffInv, RenamedInv, RegroupedInv, ClearInv,
             AirPlayResolvedInv,
             UpsertMemoryInv, UpsertNamesInv, UpsertTableInv, AirPlayRemovedInv DEF Receivers!Next

-----------------------------------------------------------------------------
LEMMA ReceiversCardinality == \A S : Receivers!Cardinality(S) = Cardinality(S)
  BY Zenon DEF Receivers!Cardinality, Cardinality

\* At rest a HomePod that is on is as it was read, and one that is off is nowhere.
LEMMA RestHolds ==
    ASSUME ReceiversInv, Receivers!AtRest, NEW m \in HomePods
    PROVE  /\ Receivers!HasAirPlay(m) <=> rDev[m].on
           /\ rDev[m].on => \A t \in Tsids : m \in rMemory[t] <=> t = rDev[m].tsid
  <1>1. rDue = {} /\ rByes = {} /\ rUpsert = Receivers!Idle
    BY DEF Receivers!AtRest
  <1>2. Receivers!HasAirPlay(m) => rDev[m].on
    BY <1>1 DEF ReceiversInv, RecordInv, Bears
  <1>3. rDev[m].on => rAirplay[m] = rDev[m].tsid /\ Remembers(m, rDev[m].tsid)
    BY <1>1 DEF ReceiversInv, ReadInv
  <1>4. rDev[m].tsid # Receivers!Unknown
    BY ReceiversAssumption DEF ReceiversInv, ReceiverTypes, Tsets, Receivers!Unknown
  <1> QED BY <1>2, <1>3, <1>4 DEF Receivers!HasAirPlay, Remembers

\* A receiver is in one pair at most.
LEMMA PairOfOne ==
    ASSUME ReceiversInv, NEW m
    PROVE  \A t \in Tsids : m \in rMemory[t] => Receivers!PairOf(m) \subseteq {t} /\
               (Receivers!Cardinality(rMemory[t]) >= 2 => Receivers!PairOf(m) = {t})
  BY DEF Receivers!PairOf, Receivers!Pairs, ReceiversInv, RememberedOnce

LEMMA PairTransportOf ==
    ASSUME ReceiversInv, Receivers!AtRest, NEW t \in Tsids
    PROVE  Receivers!PairTransport(t) = "ap2" <=> \A k \in rMemory[t] : rDev[k].on
  <1>1. \A k \in rMemory[t] : Receivers!HasAirPlay(k) <=> rDev[k].on
    BY RestHolds DEF ReceiversInv, ReceiverTypes
  <1>2. Receivers!PairTransport(t) = "ap2" <=>
          Receivers!IsComplete(t) /\ \A k \in Receivers!Members(t) : Receivers!HasAirPlay(k)
    BY ReceiversAssumption DEF Receivers!PairTransport
  <1> QED BY <1>1, <1>2 DEF Receivers!IsComplete, Receivers!Members, Receivers!Known

LEMMA PairSelectableHolds == ReceiversInv => Receivers!PairSelectable
  <1> SUFFICES ASSUME ReceiversInv, Receivers!AtRest, NEW m \in HomePods
      PROVE LET group == IF rDev[m].tsid = None THEN {m} ELSE Receivers!Grouped(rDev[m].tsid)
                absent == (UNION {rMemory[t] : t \in Receivers!PairOf(m)}) \ {k \in Receivers!Macs : rDev[k].on}
            IN  /\ \A p \in Receivers!PairOf(m) : Receivers!PairTransport(p) = "ap2" <=> absent = {}
                /\ ((\A k \in group : rDev[k].on) /\ absent = {}) =>
                      IF Receivers!Cardinality(group) >= 2
                      THEN /\ Receivers!PairOf(m) = {rDev[m].tsid} /\ Receivers!Members(rDev[m].tsid) = group
                           /\ Receivers!PairLaunch(m) = "ready"
                      ELSE Receivers!PairOf(m) = {} /\ Receivers!Transport(m) = "ap2"
    BY DEF Receivers!PairSelectable
  <1> DEFINE tsid == rDev[m].tsid
             group == IF tsid = None THEN {m} ELSE Receivers!Grouped(tsid)
             seen == UNION {rMemory[t] : t \in Receivers!PairOf(m)}
             absent == seen \ {k \in Receivers!Macs : rDev[k].on}
  <1>1. \A k \in HomePods : /\ Receivers!HasAirPlay(k) <=> rDev[k].on
                            /\ rDev[k].on => \A t \in Tsids : k \in rMemory[t] <=> t = rDev[k].tsid
    BY RestHolds
  <1>2. /\ Receivers!PairOf(m) \subseteq Tsids
        /\ \A t \in Receivers!PairOf(m) : m \in rMemory[t] /\ Cardinality(rMemory[t]) >= 2
        /\ \A t \in Tsids : rMemory[t] \subseteq HomePods
        /\ HomePods \subseteq Receivers!Macs /\ tsid \in Tsids \cup {None} /\ None \notin Tsids
        /\ IsFiniteSet(HomePods) /\ group \subseteq HomePods
    BY ReceiversCardinality, ReceiversAssumption
       DEF Receivers!PairOf, Receivers!Pairs, ReceiversInv, ReceiverTypes, Tsets, Receivers!Grouped
  <1>3. \A t \in Receivers!PairOf(m) : Receivers!PairOf(m) = {t}
    BY <1>2, PairOfOne
  <1>4. \A t \in Receivers!PairOf(m) : absent = {} <=> \A k \in rMemory[t] : rDev[k].on
    <2> SUFFICES ASSUME NEW t \in Receivers!PairOf(m) PROVE absent = {} <=> \A k \in rMemory[t] : rDev[k].on
      OBVIOUS
    <2>1. Receivers!PairOf(m) = {t} /\ rMemory[t] \subseteq Receivers!Macs
      BY <1>2, <1>3
    <2>2. absent = rMemory[t] \ {k \in Receivers!Macs : rDev[k].on}
      <3>1. \A k : k \in seen <=> \E u \in Receivers!PairOf(m) : k \in rMemory[u]
        OBVIOUS
      <3>2. seen = rMemory[t]
        BY <2>1, <3>1
      <3> QED BY <3>2
    <2> QED BY <2>1, <2>2
  <1>5. \A p \in Receivers!PairOf(m) : Receivers!PairTransport(p) = "ap2" <=> absent = {}
    BY <1>2, <1>4, PairTransportOf
  <1>6. ASSUME \A k \in group : rDev[k].on, absent = {}, Cardinality(group) >= 2
        PROVE  /\ Receivers!PairOf(m) = {tsid} /\ Receivers!Members(tsid) = group
               /\ Receivers!PairLaunch(m) = "ready"
    <2>1. tsid # None
      <3>1. tsid = None => group = {m}
        OBVIOUS
      <3>2. Cardinality({m}) = 1
        BY FS_Singleton
      <3>3. tsid = None => Cardinality(group) = 1
        BY <3>1, <3>2
      <3>4. Cardinality(group) # 1
        BY <1>6
      <3> QED BY <3>3, <3>4
    <2>2. tsid \in Tsids /\ group = {k \in HomePods : rDev[k].tsid = tsid}
      BY <1>2, <2>1 DEF Receivers!Grouped
    <2>3. group \subseteq rMemory[tsid] /\ m \in rMemory[tsid]
      BY <1>1, <1>6, <2>2
    <2>4. Cardinality(rMemory[tsid]) >= 2
      <3>1. IsFiniteSet(rMemory[tsid]) /\ Cardinality(group) <= Cardinality(rMemory[tsid])
        BY <1>2, <2>2, <2>3, FS_Subset
      <3>2. Cardinality(rMemory[tsid]) \in Nat /\ Cardinality(group) \in Nat
        BY <1>2, <3>1, FS_CardinalityType, FS_Subset
      <3> QED BY <1>6, <3>1, <3>2
    <2>5. Receivers!PairOf(m) = {tsid}
      BY <2>2, <2>3, <2>4, PairOfOne, ReceiversCardinality
    <2>6. \A k \in rMemory[tsid] : rDev[k].on
      BY <1>4, <1>6, <2>5
    <2>7. rMemory[tsid] = group
      <3>1. \A k \in rMemory[tsid] : k \in HomePods /\ rDev[k].tsid = tsid
        BY <1>1, <1>2, <2>2, <2>6
      <3> QED BY <2>2, <2>3, <3>1
    <2>8. Receivers!Members(tsid) = group
      BY <1>1, <1>2, <2>6, <2>7 DEF Receivers!Members, Receivers!Known
    <2>9. Receivers!PairLaunch(m) = "ready"
      BY <2>3, <2>5, <2>7, <2>8 DEF Receivers!PairLaunch, Receivers!IsComplete
    <2> QED BY <2>5, <2>8, <2>9
  <1>7. ASSUME \A k \in group : rDev[k].on, absent = {}, ~(Cardinality(group) >= 2)
        PROVE  Receivers!PairOf(m) = {} /\ Receivers!Transport(m) = "ap2"
    <2>1. m \in group /\ rDev[m].on
      BY <1>7 DEF Receivers!Grouped
    <2>2. ASSUME NEW t \in Receivers!PairOf(m) PROVE FALSE
      <3>1. t = tsid /\ tsid # None /\ t \in Tsids
        BY <1>1, <1>2, <2>1
      <3>2. rMemory[t] \subseteq group
        BY <1>1, <1>2, <1>4, <1>7, <2>2, <3>1 DEF Receivers!Grouped
      <3>3. IsFiniteSet(group) /\ Cardinality(rMemory[t]) <= Cardinality(group)
        BY <1>2, <3>2, FS_Subset
      <3>4. Cardinality(rMemory[t]) \in Nat /\ Cardinality(group) \in Nat
        BY <3>2, <3>3, FS_CardinalityType, FS_Subset
      <3> QED BY <1>2, <1>7, <2>2, <3>3, <3>4
    <2>3. Receivers!HasAirPlay(m)
      BY <1>1, <2>1
    <2> QED BY <2>2, <2>3 DEF Receivers!Transport, Receivers!IsHomePod, Receivers!Known
  <1>8. Receivers!Cardinality(group) = Cardinality(group)
    BY ReceiversCardinality
  <1>9. ((\A k \in group : rDev[k].on) /\ absent = {}) =>
           IF Receivers!Cardinality(group) >= 2
           THEN Receivers!PairOf(m) = {tsid} /\ Receivers!Members(tsid) = group /\ Receivers!PairLaunch(m) = "ready"
           ELSE Receivers!PairOf(m) = {} /\ Receivers!Transport(m) = "ap2"
    <2> HIDE DEF group, absent
    <2> QED BY <1>6, <1>7, <1>8
  <1> QED BY <1>5, <1>9

LEMMA OnePairHolds == ReceiversInv => Receivers!OnePair
  <1> SUFFICES ASSUME ReceiversInv, NEW m \in Receivers!Macs
      PROVE  /\ Receivers!Cardinality({t \in Tsids : m \in rMemory[t]}) <= 1
             /\ m \in HomePods => Receivers!Transport(m) # "raop"
    BY DEF Receivers!OnePair
  <1>1. Cardinality({t \in Tsids : m \in rMemory[t]}) <= 1
    <2>1. CASE {t \in Tsids : m \in rMemory[t]} = {}
      BY <2>1, FS_EmptySet
    <2>2. CASE {t \in Tsids : m \in rMemory[t]} # {}
      <3>1. PICK t \in Tsids : m \in rMemory[t]
        BY <2>2
      <3>2. \A u \in Tsids : m \in rMemory[u] <=> u = t
        BY <3>1 DEF ReceiversInv, RememberedOnce
      <3>3. {u \in Tsids : m \in rMemory[u]} = {t}
        BY <3>1, <3>2
      <3>4. Cardinality({t}) = 1
        BY FS_Singleton
      <3> QED BY <3>3, <3>4
    <2> QED BY <2>1, <2>2
  <1>2. m \in HomePods => Receivers!Transport(m) # "raop"
    BY ReceiversAssumption DEF Receivers!Transport, Receivers!IsHomePod, Receivers!Known
  <1> QED BY <1>1, <1>2, ReceiversCardinality

\* For any HomePods, stereo pairs, names and groups: a group is offered as one
\* when all its members were heard, and no HomePod is in two groups, however
\* names, groups and removals arrive (airplay/discovery.rs, upsert_airplay).
THEOREM PairsAreWhole == Receivers!Spec => []Receivers!PairsWhole
  <1>1. ReceiversInv => Receivers!PairsWhole
    <2>1. ReceiversInv => Receivers!HomePodHeld
      BY RestHolds DEF Receivers!HomePodHeld
    <2> QED BY <2>1, PairSelectableHolds, OnePairHolds DEF Receivers!PairsWhole
  <1> QED BY <1>1, ReceiversInitInv, ReceiversNextInv, PTL DEF Receivers!Spec

-----------------------------------------------------------------------------
(* HapPairing: the pairing owed to the user is the one in memory, its        *)
(* receiver has its key and lists it until it is reset (OwedInv); a ceremony *)
(* verifying it is with that receiver, or with one that no longer knows it   *)
(* (VerifyInv); every identity made is the one in use or was lost            *)
(* (IdentInv).                                                               *)

HapIdents == 1..hMinted
Owed == Hap!Pairings \cup {None}
Listing == [ctl : Nat, ltpk : Nat]
Outcomes == {"none", "damaged", "required", "failed", "paired", "no_answer", "not_proven", "refused", "cancelled",
             "wrong_pin", "stored"}
Transients == [kind : {"transient"}, next : {1, 3}, dev : Hap!Devices, owed : {None}, short : Hap!Draws]
Verifies == [kind : {"verify"}, next : {1, 3}, dev : Hap!Devices, pairing : Hap!Pairings, owed : Owed]
Setups == [kind : {"setup"}, next : {1, 3, 5}, dev : Hap!Devices, right : BOOLEAN, ident : Nat, short : Hap!Draws]
Accessory == [key : Nat, peers : SUBSET Listing, asks : BOOLEAN, shows : BOOLEAN, cut : BOOLEAN]
Exchanges == {Hap!Idle, [kind |-> "shown"]} \cup Transients \cup Verifies \cup Setups
Channels == [dev : Hap!Devices, key : Nat, verified : BOOLEAN, owed : Owed]

PairingTypes ==
    /\ {hMemory, hDisk} \subseteq [ident : Nat, pairing : Owed \cup {Damaged}]
    /\ hMinted \in Nat /\ hLost \in Nat /\ hOwed \in Owed /\ hAt \in Hap!Devices
    /\ hDev \in [Hap!Devices -> Accessory]
    /\ hLink \in Exchanges /\ hChannel \in Channels \cup {Hap!NoChannel} /\ hOutcome \in Outcomes

\* Each identity made is the one in use or was lost; the file's is the one in use or none.
IdentInv ==
    /\ hMinted = hLost + (IF hMemory.ident = 0 THEN 0 ELSE 1)
    /\ hMemory.ident \in {0} \cup HapIdents /\ hDisk.ident \in {0, hMemory.ident}
    /\ hLink.kind = "setup" => hLink.ident \in HapIdents
    /\ \A d \in Hap!Devices : \A p \in hDev[d].peers : p.ctl \in HapIdents /\ p.ltpk = p.ctl

\* The pairing the user made is the one in use, and its receiver keeps it.
OwedInv ==
    hOwed # None =>
        /\ hMemory.pairing = hOwed /\ hOwed.seed = hOwed.ctl
        /\ ~hDev[hOwed.acc].cut => hDev[hOwed.acc].key = hOwed.key /\ Hap!Knows(hOwed.acc, hOwed)

\* A pairing is verified with the device that has its key, or that is
\* a stranger to it since.
VerifyInv ==
    hLink.kind = "verify" =>
        /\ hLink.owed # None => hLink.owed = hLink.pairing
        /\ hLink.next = 3 =>
              /\ hLink.dev = hLink.pairing.acc
              /\ hDev[hLink.dev].key = hLink.pairing.key \/ ~Hap!Knows(hLink.dev, hLink.pairing)

PairInv == PairingTypes /\ IdentInv /\ OwedInv /\ VerifyInv /\ Hap!NeverDowngraded

LEMMA PairingConstants == None # Damaged /\ None \notin Hap!Pairings /\ Damaged \notin Hap!Pairings
  BY ServiceConstants DEF Hap!ConstantsOK

LEMMA KindOf ==
    ASSUME PairingTypes
    PROVE  /\ hLink.kind = "transient" => hLink \in Transients
           /\ hLink.kind = "verify" => hLink \in Verifies
           /\ hLink.kind = "setup" => hLink \in Setups
  BY DEF PairingTypes, Exchanges, Transients, Verifies, Setups, Hap!Idle

\* A is drawn without a leading zero, so both sides hash the same bytes of one PIN.
LEMMA OneProof ==
    ASSUME NEW pin, NEW short \in Hap!Draws
    PROVE  /\ Hap!Proof(pin, short) = Hap!TheyExpect(pin, short)
           /\ \A proof \in Hap!TheirProofs(pin, short) : proof = Hap!ExpectsOf(pin, short)
  <1>1. "A" \notin short
    BY DEF Hap!Draws
  <1>2. Hap!Padded("A", short) = <<"A", "natural">>
    BY <1>1 DEF Hap!Padded, Hap!Natural
  <1> QED BY <1>2 DEF Hap!Proof, Hap!TheyExpect, Hap!TheirProofs, Hap!ExpectsOf, Hap!SessionKey, Hap!Natural

LEMMA PairInitInv == Hap!Init => PairInv
  <1> SUFFICES ASSUME Hap!Init PROVE PairInv
    OBVIOUS
  <1>1. hMemory = [ident |-> 0, pairing |-> None] /\ hDisk = hMemory /\ hMinted = 0 /\ hLost = 0 /\ hOwed = None
    BY DEF Hap!Init
  <1>2. /\ hDev \in [Hap!Devices -> [key : Nat, peers : {{}}, asks : BOOLEAN, shows : BOOLEAN, cut : BOOLEAN]]
        /\ hAt \in Hap!Devices
    BY DEF Hap!Init, Hap!Devices
  <1>3. hLink = Hap!Idle /\ hLink.kind = "idle" /\ hChannel = Hap!NoChannel /\ hOutcome = "none"
    BY DEF Hap!Init, Hap!Idle
  <1>4. PairingTypes
    BY <1>1, <1>2, <1>3 DEF PairingTypes, Accessory, Listing, Owed, Exchanges, Outcomes
  <1>5. IdentInv
    BY <1>1, <1>2, <1>3 DEF IdentInv
  <1> QED BY <1>1, <1>3, <1>4, <1>5 DEF PairInv, OwedInv, VerifyInv, Hap!NeverDowngraded

\* A step of an exchange that ends it, and one that goes on.
LEMMA HapEnds ==
    ASSUME PairInv, NEW how \in Outcomes, Hap!Ends(how), UNCHANGED <<hMemory, hDisk, hMinted, hLost, hOwed, hDev, hAt>>
    PROVE  PairInv'
  <1>1. hLink' = Hap!Idle /\ hLink'.kind = "idle" /\ hChannel' = Hap!NoChannel /\ hOutcome' = how
    BY DEF Hap!Ends, Hap!Idle
  <1> QED BY <1>1 DEF PairInv, PairingTypes, Exchanges, HapIdents, IdentInv, OwedInv, Hap!Knows,
             VerifyInv, Hap!NeverDowngraded

LEMMA HapGoes ==
    ASSUME PairInv, NEW l \in Exchanges, Hap!Goes(l), UNCHANGED <<hMemory, hDisk, hMinted, hLost, hOwed, hDev, hAt>>,
           l.kind = "setup" => l.ident \in HapIdents,
           l.kind = "verify" => /\ l.owed # None => l.owed = l.pairing
                                /\ l.next = 3 => l.dev = l.pairing.acc /\ hDev[l.dev].key = l.pairing.key
    PROVE  PairInv'
  <1>1. hLink' = l /\ UNCHANGED <<hChannel, hOutcome>>
    BY DEF Hap!Goes
  <1> QED BY <1>1 DEF PairInv, PairingTypes, HapIdents, IdentInv, OwedInv, Hap!Knows, VerifyInv,
             Hap!NeverDowngraded

LEMMA HapOpens ==
    ASSUME PairInv, NEW verified \in BOOLEAN, Hap!Opens(verified), UNCHANGED <<hMemory, hDisk, hMinted, hLost, hOwed, hDev, hAt>>,
           hLink.dev \in Hap!Devices, hLink.owed \in Owed,
           hLink.owed # None => hLink.dev = hLink.owed.acc /\ hDev[hLink.dev].key = hLink.owed.key
    PROVE  PairInv'
  <1> DEFINE c == [dev |-> hLink.dev, key |-> hDev[hLink.dev].key, verified |-> verified, owed |-> hLink.owed]
  <1>1. hLink' = Hap!Idle /\ hLink'.kind = "idle" /\ hChannel' = c /\ hOutcome' = "paired"
    BY DEF Hap!Opens, Hap!Idle
  <1>2. hDev[hLink.dev].key \in Nat
    BY DEF PairInv, PairingTypes, Accessory
  <1>3. c \in Channels
    BY <1>2 DEF Channels
  <1>4. c.owed = hLink.owed /\ c.dev = hLink.dev /\ c.key = hDev[hLink.dev].key
    OBVIOUS
  <1> HIDE DEF c
  <1>5. Hap!NeverDowngraded'
    BY <1>1, <1>4 DEF Hap!NeverDowngraded
  <1>6. PairingTypes'
    BY <1>1, <1>3 DEF PairInv, PairingTypes, Exchanges, Outcomes
  <1>7. IdentInv' /\ OwedInv' /\ VerifyInv'
    BY <1>1 DEF PairInv, HapIdents, IdentInv, OwedInv, Hap!Knows, VerifyInv
  <1> QED BY <1>5, <1>6, <1>7 DEF PairInv

LEMMA ConnectInv == PairInv /\ Hap!Connect => PairInv'
  <1> SUFFICES ASSUME PairInv, Hap!Connect PROVE PairInv'
    OBVIOUS
  <1>1. UNCHANGED <<hMemory, hDisk, hMinted, hLost, hOwed, hDev, hAt>> /\ hAt \in Hap!Devices
    BY DEF Hap!Connect, Hap!ours, PairInv, PairingTypes
  <1>2. hMemory.pairing \in Owed \cup {Damaged} /\ hOwed \in Owed /\ (hOwed # None => hMemory.pairing = hOwed)
    BY DEF PairInv, PairingTypes, OwedInv
  <1>3. CASE hMemory.pairing = Damaged
    BY <1>1, <1>3, HapEnds, PairingConstants DEF Hap!Connect, Outcomes
  <1>4. CASE hMemory.pairing = None
    <2> DEFINE l == [kind |-> "transient", next |-> 1, dev |-> hAt, owed |-> hOwed, short |-> {}]
    <2>1. Hap!Goes(l)
      BY <1>4, PairingConstants DEF Hap!Connect
    <2>2. hOwed = None
      BY <1>2, <1>4
    <2>3. l \in Transients /\ l.kind = "transient"
      BY <1>1, <2>2 DEF Transients, Hap!Draws
    <2> HIDE DEF l
    <2> QED BY <1>1, <2>1, <2>3, HapGoes DEF Exchanges
  <1>5. CASE hMemory.pairing \notin {None, Damaged}
    <2> DEFINE l == [kind |-> "verify", next |-> 1, dev |-> hAt, pairing |-> hMemory.pairing, owed |-> hOwed]
    <2>1. Hap!Goes(l)
      BY <1>5 DEF Hap!Connect
    <2>2. l \in Verifies /\ l.kind = "verify" /\ l.next = 1 /\ l.owed = hOwed /\ l.pairing = hMemory.pairing
      BY <1>1, <1>2, <1>5 DEF Verifies, Owed
    <2> HIDE DEF l
    <2> QED BY <1>1, <1>2, <2>1, <2>2, HapGoes DEF Exchanges
  <1> QED BY <1>3, <1>4, <1>5

LEMMA TransientM1Inv == PairInv /\ Hap!TransientM1 => PairInv'
  <1> SUFFICES ASSUME PairInv, Hap!TransientM1 PROVE PairInv'
    OBVIOUS
  <1>1. UNCHANGED <<hMemory, hDisk, hMinted, hLost, hOwed, hDev, hAt>> /\ hLink.kind = "transient"
    BY DEF Hap!TransientM1, Hap!Still, Hap!ours
  <1>2. CASE Hap!Ends("required") \/ Hap!Ends("failed")
    BY <1>1, <1>2, HapEnds DEF Outcomes
  <1>3. ASSUME NEW short \in Hap!Draws, Hap!Goes([hLink EXCEPT !.next = 3, !.short = short]) PROVE PairInv'
    <2> DEFINE l == [hLink EXCEPT !.next = 3, !.short = short]
    <2>1. l \in Transients /\ l.kind = "transient"
      BY <1>1, KindOf DEF PairInv, Transients
    <2>2. Hap!Goes(l)
      BY <1>3
    <2> HIDE DEF l
    <2> QED BY <1>1, <2>1, <2>2, HapGoes DEF Exchanges
  <1> QED BY <1>2, <1>3 DEF Hap!TransientM1

LEMMA TransientM3Inv == PairInv /\ Hap!TransientM3 => PairInv'
  <1> SUFFICES ASSUME PairInv, Hap!TransientM3 PROVE PairInv'
    OBVIOUS
  <1>1. UNCHANGED <<hMemory, hDisk, hMinted, hLost, hOwed, hDev, hAt>> /\ hLink.kind = "transient"
    BY DEF Hap!TransientM3, Hap!Still, Hap!ours
  <1>2. hLink \in Transients
    BY <1>1, KindOf DEF PairInv
  <1>3. hLink.short \in Hap!Draws /\ hLink.owed = None /\ hLink.dev \in Hap!Devices
    BY <1>2 DEF Transients
  <1>4. Hap!Ends("failed") \/ Hap!Opens(FALSE)
    BY <1>3, OneProof DEF Hap!TransientM3
  <1>5. CASE Hap!Ends("failed")
    BY <1>1, <1>5, HapEnds DEF Outcomes
  <1>6. CASE Hap!Opens(FALSE)
    BY <1>1, <1>3, <1>6, HapOpens DEF Owed
  <1> QED BY <1>4, <1>5, <1>6

LEMMA VerifyM1Inv == PairInv /\ Hap!VerifyM1 => PairInv'
  <1> SUFFICES ASSUME PairInv, Hap!VerifyM1 PROVE PairInv'
    OBVIOUS
  <1>1. UNCHANGED <<hMemory, hDisk, hMinted, hLost, hOwed, hDev, hAt>> /\ hLink.kind = "verify"
    BY DEF Hap!VerifyM1, Hap!Still, Hap!ours
  <1>2. CASE Hap!Ends("no_answer") \/ Hap!Ends("not_proven")
    BY <1>1, <1>2, HapEnds DEF Outcomes
  <1>3. CASE /\ hLink.dev = hLink.pairing.acc /\ hDev[hLink.dev].key = hLink.pairing.key
             /\ Hap!Goes([hLink EXCEPT !.next = 3])
    <2> DEFINE l == [hLink EXCEPT !.next = 3]
    <2>1. l \in Verifies /\ l.kind = "verify" /\ l.dev = hLink.dev /\ l.pairing = hLink.pairing /\ l.owed = hLink.owed
      BY <1>1, KindOf DEF PairInv, Verifies
    <2>2. hLink.owed # None => hLink.owed = hLink.pairing
      BY <1>1 DEF PairInv, VerifyInv
    <2>3. Hap!Goes(l)
      BY <1>3
    <2> HIDE DEF l
    <2> QED BY <1>1, <1>3, <2>1, <2>2, <2>3, HapGoes DEF Exchanges
  <1> QED BY <1>2, <1>3 DEF Hap!VerifyM1

LEMMA VerifyM3Inv == PairInv /\ Hap!VerifyM3 => PairInv'
  <1> SUFFICES ASSUME PairInv, Hap!VerifyM3 PROVE PairInv'
    OBVIOUS
  <1>1. UNCHANGED <<hMemory, hDisk, hMinted, hLost, hOwed, hDev, hAt>> /\ hLink.kind = "verify" /\ hLink.next = 3
    BY DEF Hap!VerifyM3, Hap!Still, Hap!ours
  <1>2. CASE Hap!Ends("no_answer") \/ Hap!Ends("refused")
    BY <1>1, <1>2, HapEnds DEF Outcomes
  <1>3. CASE Hap!Knows(hLink.dev, hLink.pairing) /\ Hap!Opens(TRUE)
    <2>1. hLink.dev \in Hap!Devices /\ hLink.owed \in Owed
      BY <1>1, KindOf DEF PairInv, Verifies
    <2>2. hLink.owed # None => hLink.dev = hLink.owed.acc /\ hDev[hLink.dev].key = hLink.owed.key
      BY <1>1, <1>3 DEF PairInv, VerifyInv
    <2> QED BY <1>1, <1>3, <2>1, <2>2, HapOpens
  <1> QED BY <1>2, <1>3 DEF Hap!VerifyM3

LEMMA NoPinInv == PairInv /\ Hap!NoPin => PairInv'
  <1> SUFFICES ASSUME PairInv, Hap!NoPin PROVE PairInv'
    OBVIOUS
  <1>1. UNCHANGED <<hMemory, hDisk, hMinted, hLost, hOwed, hDev, hAt>> /\ Hap!Ends("cancelled")
    BY DEF Hap!NoPin, Hap!Still, Hap!ours
  <1> QED BY <1>1, HapEnds DEF Outcomes

LEMMA ShowPinInv == PairInv /\ Hap!ShowPin => PairInv'
  <1> SUFFICES ASSUME PairInv, Hap!ShowPin PROVE PairInv'
    OBVIOUS
  <1>1. UNCHANGED <<hMemory, hDisk, hMinted, hLost, hOwed, hAt>>
    BY DEF Hap!ShowPin, Hap!Still, Hap!ours
  <1>2. CASE Hap!Ends("failed") /\ UNCHANGED hDev
    BY <1>1, <1>2, HapEnds DEF Outcomes
  <1>3. CASE /\ hLink' = [kind |-> "shown"] /\ UNCHANGED <<hChannel, hOutcome>>
             /\ hDev' = [hDev EXCEPT ![hAt].shows = TRUE]
    <2>1. hDev' \in [Hap!Devices -> Accessory]
      BY <1>3 DEF PairInv, PairingTypes, Accessory
    <2>2. PairingTypes'
      BY <1>1, <1>3, <2>1 DEF PairInv, PairingTypes, Exchanges
    <2>3. \A d \in Hap!Devices : /\ hDev'[d].key = hDev[d].key /\ hDev'[d].peers = hDev[d].peers
                                 /\ hDev'[d].cut = hDev[d].cut
      BY <1>3 DEF PairInv, PairingTypes, Accessory
    <2>4. hLink'.kind = "shown" /\ (hOwed # None => hOwed.acc \in Hap!Devices)
      BY <1>3 DEF PairInv, PairingTypes, Owed, Hap!Pairings
    <2> QED BY <1>1, <1>3, <2>2, <2>3, <2>4 DEF PairInv, HapIdents, IdentInv, OwedInv, Hap!Knows,
               VerifyInv, Hap!NeverDowngraded
  <1> QED BY <1>2, <1>3 DEF Hap!ShowPin

LEMMA TypePinInv == PairInv /\ Hap!TypePin => PairInv'
  <1> SUFFICES ASSUME PairInv, Hap!TypePin PROVE PairInv'
    OBVIOUS
  <1>1. UNCHANGED <<hLost, hOwed, hDev, hAt, hChannel, hOutcome>> /\ hAt \in Hap!Devices
    BY DEF Hap!TypePin, Hap!Goes, PairInv, PairingTypes
  <1>2. Hap!Identity \in Nat \ {0} /\ (hMemory.ident # 0 => Hap!Identity = hMemory.ident)
        /\ (hMemory.ident = 0 => Hap!Identity = hMinted + 1) /\ hMinted \in Nat /\ hMemory.ident \in Nat
    BY DEF Hap!Identity, PairInv, PairingTypes
  <1>3. hLink' \in Setups /\ hLink'.kind = "setup" /\ hLink'.ident = Hap!Identity
    <2>1. PICK right \in BOOLEAN : Hap!Goes([kind |-> "setup", next |-> 1, dev |-> hAt, right |-> right,
                                            ident |-> Hap!Identity, short |-> {}])
      BY DEF Hap!TypePin
    <2> QED BY <1>1, <1>2, <2>1 DEF Hap!Goes, Setups, Hap!Draws
  <1>4. /\ hMemory' \in [ident : Nat, pairing : Owed \cup {Damaged}] /\ hMemory'.pairing = hMemory.pairing
        /\ hMemory'.ident = Hap!Identity
        /\ hDisk' \in {hDisk, hMemory'}
        /\ hMinted' = hMinted + (IF hMemory.ident = 0 THEN 1 ELSE 0)
    <2>1. CASE hMemory.ident # 0
      BY <1>2, <2>1 DEF Hap!TypePin, PairInv, PairingTypes
    <2>2. CASE hMemory.ident = 0
      <3>1. hMemory' = [hMemory EXCEPT !.ident = Hap!Identity] /\ hDisk' \in {hDisk, hMemory'} /\ hMinted' = Hap!Identity
        BY <2>2 DEF Hap!TypePin, Hap!Keeps
      <3> QED BY <1>2, <2>2, <3>1 DEF PairInv, PairingTypes, Accessory
    <2> QED BY <2>1, <2>2
  <1>5. PairingTypes'
    BY <1>1, <1>2, <1>3, <1>4 DEF PairInv, PairingTypes, Exchanges
  <1>6. IdentInv'
    <2>1. hMemory.ident = 0 => hDisk.ident = 0
      BY DEF PairInv, IdentInv
    <2>2. hDisk'.ident \in {0, hMemory'.ident}
      BY <1>2, <1>4, <2>1 DEF PairInv, IdentInv
    <2>3. hMinted' = hLost' + (IF hMemory'.ident = 0 THEN 0 ELSE 1) /\ hMemory'.ident \in HapIdents'
      BY <1>1, <1>2, <1>4 DEF PairInv, PairingTypes, IdentInv, HapIdents
    <2>4. HapIdents \subseteq HapIdents'
      BY <1>2, <1>4 DEF HapIdents
    <2> QED BY <1>1, <1>3, <1>4, <2>2, <2>3, <2>4 DEF PairInv, IdentInv
  <1>7. OwedInv' /\ VerifyInv' /\ Hap!NeverDowngraded'
    BY <1>1, <1>3, <1>4 DEF PairInv, OwedInv, Hap!Knows, VerifyInv, Hap!NeverDowngraded
  <1> QED BY <1>5, <1>6, <1>7 DEF PairInv

LEMMA SetupM1Inv == PairInv /\ Hap!SetupM1 => PairInv'
  <1> SUFFICES ASSUME PairInv, Hap!SetupM1 PROVE PairInv'
    OBVIOUS
  <1>1. UNCHANGED <<hMemory, hDisk, hMinted, hLost, hOwed, hDev, hAt>> /\ hLink.kind = "setup"
    BY DEF Hap!SetupM1, Hap!Still, Hap!ours
  <1>2. CASE Hap!Ends("failed")
    BY <1>1, <1>2, HapEnds DEF Outcomes
  <1>3. ASSUME NEW short \in Hap!Draws, Hap!Goes([hLink EXCEPT !.next = 3, !.short = short]) PROVE PairInv'
    <2> DEFINE l == [hLink EXCEPT !.next = 3, !.short = short]
    <2>1. l \in Setups /\ l.kind = "setup" /\ l.ident = hLink.ident
      BY <1>1, KindOf DEF PairInv, Setups
    <2>2. Hap!Goes(l) /\ hLink.ident \in HapIdents
      BY <1>1, <1>3 DEF PairInv, IdentInv
    <2> HIDE DEF l
    <2> QED BY <1>1, <2>1, <2>2, HapGoes DEF Exchanges
  <1> QED BY <1>2, <1>3 DEF Hap!SetupM1

LEMMA SetupM3Inv == PairInv /\ Hap!SetupM3 => PairInv'
  <1> SUFFICES ASSUME PairInv, Hap!SetupM3 PROVE PairInv'
    OBVIOUS
  <1>1. UNCHANGED <<hMemory, hDisk, hMinted, hLost, hOwed, hDev, hAt>> /\ hLink.kind = "setup" /\ hLink \in Setups /\ hLink.ident \in HapIdents
    BY KindOf DEF Hap!SetupM3, Hap!Still, Hap!ours, PairInv, IdentInv
  <1>2. hLink.short \in Hap!Draws
    BY <1>1 DEF Setups
  <1>3. \/ Hap!Ends("failed") \/ Hap!Ends("wrong_pin") \/ Hap!Goes([hLink EXCEPT !.next = 5])
    <2>1. CASE hLink.right
      <3>1. Hap!Typed = "shown"
        BY <2>1 DEF Hap!Typed
      <3> QED BY <1>2, <2>1, <3>1, OneProof DEF Hap!SetupM3
    <2>2. CASE ~hLink.right
      BY <2>2 DEF Hap!SetupM3
    <2> QED BY <2>1, <2>2
  <1>4. CASE Hap!Ends("failed") \/ Hap!Ends("wrong_pin")
    BY <1>1, <1>4, HapEnds DEF Outcomes
  <1>5. CASE Hap!Goes([hLink EXCEPT !.next = 5])
    <2> DEFINE l == [hLink EXCEPT !.next = 5]
    <2>1. l \in Setups /\ l.kind = "setup" /\ l.ident = hLink.ident
      BY <1>1 DEF Setups
    <2>2. Hap!Goes(l)
      BY <1>5
    <2> HIDE DEF l
    <2> QED BY <1>1, <2>1, <2>2, HapGoes DEF Exchanges
  <1> QED BY <1>3, <1>4, <1>5

LEMMA SetupM5Inv == PairInv /\ Hap!SetupM5 => PairInv'
  <1> SUFFICES ASSUME PairInv, Hap!SetupM5 PROVE PairInv'
    OBVIOUS
  <1> DEFINE d == hLink.dev
             ident == hLink.ident
             added == [hDev EXCEPT ![d].peers = Hap!Listed(d), ![d].shows = FALSE]
             paired == [ctl |-> ident, seed |-> ident, acc |-> d, key |-> hDev[d].key]
  <1>1. UNCHANGED <<hMinted, hLost, hAt>> /\ d \in Hap!Devices /\ ident \in HapIdents /\ ident \in Nat
    BY KindOf DEF Hap!SetupM5, PairInv, IdentInv, Setups
  <1>2. Hap!Listed(d) = {p \in hDev[d].peers : p.ctl # ident} \cup {[ctl |-> ident, ltpk |-> ident]}
        /\ Hap!Listed(d) \subseteq Listing
    BY <1>1 DEF Hap!Listed, Listing, PairInv, PairingTypes, Accessory
  <1>3. /\ added \in [Hap!Devices -> Accessory]
        /\ added[d].peers = Hap!Listed(d)
        /\ \A e \in Hap!Devices : /\ added[e].key = hDev[e].key /\ added[e].cut = hDev[e].cut
                                  /\ e # d => added[e].peers = hDev[e].peers
    BY <1>1, <1>2, ZenonT(60) DEF PairInv, PairingTypes, Accessory
  <1> HIDE DEF added
  <1>4. \A e \in Hap!Devices : \A p \in added[e].peers : p.ctl \in HapIdents /\ p.ltpk = p.ctl
    <2> SUFFICES ASSUME NEW e \in Hap!Devices, NEW p \in added[e].peers PROVE p.ctl \in HapIdents /\ p.ltpk = p.ctl
      OBVIOUS
    <2>1. CASE p \in hDev[e].peers
      BY <2>1 DEF PairInv, IdentInv
    <2>2. CASE p \notin hDev[e].peers
      <3>1. p = [ctl |-> ident, ltpk |-> ident]
        BY <1>2, <1>3, <2>2
      <3> QED BY <1>1, <3>1
    <2> QED BY <2>1, <2>2
  <1>5. hLink' = Hap!Idle /\ hLink'.kind = "idle" /\ hChannel' = Hap!NoChannel /\ hOutcome' \in Outcomes
    BY DEF Hap!SetupM5, Hap!Ends, Hap!Idle, Outcomes
  <1>6. CASE /\ hDev' = [added EXCEPT ![d].cut = FALSE] /\ hOwed' = paired /\ hMemory' = [hMemory EXCEPT !.pairing = paired]
             /\ hDisk' \in {hDisk, hMemory'}
    <2>1. paired \in Hap!Pairings /\ paired \in Owed /\ paired.seed = paired.ctl /\ paired.acc = d /\ paired.key = hDev[d].key
          /\ paired.ctl = ident
      BY <1>1 DEF Hap!Pairings, Owed, PairInv, PairingTypes, Accessory
    <2> HIDE DEF paired
    <2>2. hMemory' \in [ident : Nat, pairing : Owed \cup {Damaged}] /\ hMemory'.pairing = paired /\ hMemory'.ident = hMemory.ident
      BY <1>6, <2>1 DEF PairInv, PairingTypes, Accessory
    <2>3. /\ hDev' \in [Hap!Devices -> Accessory]
          /\ \A e \in Hap!Devices : hDev'[e].peers = added[e].peers
          /\ hDev'[d].key = hDev[d].key
      <3>1. hDev' = [added EXCEPT ![d] = [added[d] EXCEPT !.cut = FALSE]]
        BY <1>1, <1>3, <1>6
      <3>2. added[d] \in Accessory /\ [added[d] EXCEPT !.cut = FALSE] \in Accessory
            /\ [added[d] EXCEPT !.cut = FALSE].peers = added[d].peers /\ [added[d] EXCEPT !.cut = FALSE].key = added[d].key
        BY <1>1, <1>3 DEF Accessory
      <3> QED BY <1>1, <1>3, <3>1, <3>2
    <2>4. PairingTypes'
      BY <1>1, <1>5, <1>6, <2>1, <2>2, <2>3 DEF PairInv, PairingTypes, Exchanges
    <2>5. IdentInv'
      BY <1>1, <1>5, <1>6, <1>4, <2>2, <2>3 DEF PairInv, IdentInv, HapIdents
    <2>6. OwedInv'
      <3>1. [ctl |-> ident, ltpk |-> ident] \in hDev'[d].peers
        BY <1>1, <1>2, <1>3, <2>3
      <3>2. hOwed' = paired /\ hMemory'.pairing = paired
        BY <1>6, <2>2
      <3> QED BY <2>1, <2>3, <3>1, <3>2 DEF OwedInv, Hap!Knows
    <2> QED BY <1>5, <2>4, <2>5, <2>6 DEF PairInv, VerifyInv, Hap!NeverDowngraded
  <1>7. CASE hDev' \in {hDev, added} /\ UNCHANGED <<hMemory, hDisk, hOwed>>
    <2>1. PairingTypes'
      BY <1>1, <1>3, <1>5, <1>7 DEF PairInv, PairingTypes, Exchanges
    <2>2. IdentInv'
      <3>1. \A e \in Hap!Devices : \A p \in hDev'[e].peers : p.ctl \in HapIdents /\ p.ltpk = p.ctl
        BY <1>7, <1>4 DEF PairInv, IdentInv
      <3> QED BY <1>1, <1>5, <1>7, <3>1 DEF PairInv, IdentInv, HapIdents
    <2>3. OwedInv'
      <3> SUFFICES ASSUME hOwed # None PROVE OwedInv'
        BY <1>7 DEF OwedInv
      <3>1. hMemory'.pairing = hOwed' /\ hOwed'.seed = hOwed'.ctl /\ hOwed' = hOwed /\ hOwed.acc \in Hap!Devices
        BY <1>7 DEF PairInv, PairingTypes, OwedInv, Owed, Hap!Pairings
      <3>2. ASSUME ~hDev'[hOwed.acc].cut PROVE hDev'[hOwed.acc].key = hOwed.key /\ Hap!Knows(hOwed.acc, hOwed)'
        <4>1. hDev'[hOwed.acc].key = hDev[hOwed.acc].key /\ hDev'[hOwed.acc].cut = hDev[hOwed.acc].cut
          BY <1>3, <1>7, <3>1
        <4>2. hDev[hOwed.acc].key = hOwed.key /\ Hap!Knows(hOwed.acc, hOwed)
          BY <3>2, <4>1 DEF PairInv, OwedInv
        <4>3. [ctl |-> hOwed.ctl, ltpk |-> hOwed.seed] \in Hap!Listed(d) \/ hOwed.acc # d
          BY <1>2, <3>1, <4>2 DEF Hap!Knows
        <4>4. [ctl |-> hOwed.ctl, ltpk |-> hOwed.seed] \in hDev'[hOwed.acc].peers
          BY <1>3, <1>7, <3>1, <4>2, <4>3 DEF Hap!Knows
        <4> QED BY <3>1, <4>2, <4>1, <4>4 DEF Hap!Knows
      <3> QED BY <3>1, <3>2 DEF OwedInv
    <2> QED BY <1>5, <2>1, <2>2, <2>3 DEF PairInv, VerifyInv, Hap!NeverDowngraded
  <1> QED BY <1>6, <1>7 DEF Hap!SetupM5, Hap!Keeps, added

LEMMA ForgetInv == PairInv /\ Hap!Forget => PairInv'
  <1> SUFFICES ASSUME PairInv, Hap!Forget PROVE PairInv'
    OBVIOUS
  <1>1. /\ hMemory' = [hMemory EXCEPT !.pairing = None] /\ hDisk' = hMemory' /\ hOwed' = None
        /\ UNCHANGED <<hMinted, hLost, hDev, hAt, hLink, hChannel, hOutcome>>
    BY DEF Hap!Forget
  <1>2. hMemory' \in [ident : Nat, pairing : Owed \cup {Damaged}] /\ hMemory'.ident = hMemory.ident
    BY <1>1 DEF PairInv, PairingTypes, Owed
  <1>3. PairingTypes' /\ IdentInv'
    BY <1>1, <1>2 DEF PairInv, PairingTypes, IdentInv, HapIdents, Owed
  <1> QED BY <1>1, <1>3 DEF PairInv, OwedInv, VerifyInv, Hap!Knows, Hap!NeverDowngraded

LEMMA AddressMovesInv == PairInv /\ Hap!AddressMoves => PairInv'
  <1> SUFFICES ASSUME PairInv, Hap!AddressMoves PROVE PairInv'
    OBVIOUS
  <1>1. UNCHANGED <<hMemory, hDisk, hMinted, hLost, hOwed, hDev, hLink, hChannel, hOutcome>> /\ hAt' \in Hap!Devices
    BY DEF Hap!AddressMoves, Hap!ours
  <1> QED BY <1>1 DEF PairInv, PairingTypes, HapIdents, IdentInv, OwedInv, Hap!Knows, VerifyInv,
             Hap!NeverDowngraded

LEMMA DeviceChangesInv == ASSUME PairInv, NEW d \in Hap!Devices, Hap!DeviceChanges(d) PROVE PairInv'
  <1>1. UNCHANGED <<hMemory, hDisk, hMinted, hLost, hOwed, hAt, hLink, hChannel, hOutcome>>
    BY DEF Hap!DeviceChanges, Hap!ours
  \* The list gets no longer, and the device is cut off or as it was.
  <1>2. /\ hDev' \in [Hap!Devices -> Accessory]
        /\ \A e \in Hap!Devices : /\ hDev'[e].peers \subseteq hDev[e].peers
                                  /\ hDev'[e].key = hDev[e].key \/ hDev'[e].peers = {}
                                  /\ ~hDev'[e].cut => /\ ~hDev[e].cut /\ hDev'[e].peers = hDev[e].peers
                                                      /\ hDev'[e].key = hDev[e].key
    <2>1. CASE hDev' = [hDev EXCEPT ![d].key = @ + 1, ![d].peers = {}, ![d].shows = FALSE, ![d].cut = TRUE]
      <3> DEFINE r == [hDev[d] EXCEPT !.key = hDev[d].key + 1, !.peers = {}, !.shows = FALSE, !.cut = TRUE]
      <3>1. hDev' = [hDev EXCEPT ![d] = r]
        BY <2>1 DEF PairInv, PairingTypes, Accessory
      <3>2. r \in Accessory /\ r.peers = {} /\ r.cut = TRUE
        <4>1. hDev[d] \in Accessory /\ hDev[d].key + 1 \in Nat
          BY DEF PairInv, PairingTypes, Accessory
        <4> QED BY <4>1 DEF Accessory
      <3> HIDE DEF r
      <3> QED BY <3>1, <3>2 DEF PairInv, PairingTypes, Accessory
    <2>2. ASSUME NEW p \in hDev[d].peers, hDev' = [hDev EXCEPT ![d].peers = @ \ {p}, ![d].cut = TRUE]
          PROVE  <1>2!:
      BY <2>2 DEF PairInv, PairingTypes, Accessory
    <2>3. CASE hDev' = [hDev EXCEPT ![d].asks = ~@]
      BY <2>3 DEF PairInv, PairingTypes, Accessory
    <2> QED BY <2>1, <2>2, <2>3 DEF Hap!DeviceChanges
  <1>3. PairingTypes'
    BY <1>1, <1>2 DEF PairInv, PairingTypes, Accessory
  <1>4. IdentInv'
    <2>1. \A e \in Hap!Devices : \A p \in hDev'[e].peers : p.ctl \in HapIdents /\ p.ltpk = p.ctl
      BY <1>2 DEF PairInv, IdentInv
    <2> QED BY <1>1, <2>1 DEF PairInv, IdentInv, HapIdents
  <1>5. OwedInv'
    <2>1. hOwed # None => hOwed.acc \in Hap!Devices
      BY DEF PairInv, PairingTypes, Owed, Hap!Pairings
    <2>2. ASSUME hOwed # None, ~hDev'[hOwed.acc].cut
          PROVE  hDev'[hOwed.acc].key = hOwed.key /\ [ctl |-> hOwed.ctl, ltpk |-> hOwed.seed] \in hDev'[hOwed.acc].peers
      <3>1. ~hDev[hOwed.acc].cut /\ hDev'[hOwed.acc].peers = hDev[hOwed.acc].peers
            /\ hDev'[hOwed.acc].key = hDev[hOwed.acc].key
        BY <1>2, <2>1, <2>2
      <3> QED BY <2>2, <3>1 DEF PairInv, OwedInv, Hap!Knows
    <2> QED BY <1>1, <2>2 DEF PairInv, OwedInv, Hap!Knows
  <1>6. VerifyInv'
    <2>1. hLink.kind = "verify" => hLink.dev \in Hap!Devices
      BY KindOf DEF PairInv, Verifies
    <2>2. ASSUME hLink.kind = "verify", hLink.next = 3
          PROVE  hDev'[hLink.dev].key = hLink.pairing.key \/ ~Hap!Knows(hLink.dev, hLink.pairing)'
      <3>1. hDev'[hLink.dev].peers \subseteq hDev[hLink.dev].peers
            /\ (hDev'[hLink.dev].key = hDev[hLink.dev].key \/ hDev'[hLink.dev].peers = {})
        BY <1>2, <2>1, <2>2
      <3>2. hDev[hLink.dev].key = hLink.pairing.key
            \/ [ctl |-> hLink.pairing.ctl, ltpk |-> hLink.pairing.seed] \notin hDev[hLink.dev].peers
        BY <2>2 DEF PairInv, VerifyInv, Hap!Knows
      <3>3. hDev'[hLink.dev].key = hLink.pairing.key
            \/ [ctl |-> hLink.pairing.ctl, ltpk |-> hLink.pairing.seed] \notin hDev'[hLink.dev].peers
        BY <3>1, <3>2
      <3> QED BY <1>1, <3>3 DEF Hap!Knows
    <2> QED BY <1>1, <2>2 DEF PairInv, VerifyInv
  <1> QED BY <1>1, <1>3, <1>4, <1>5, <1>6 DEF PairInv, Hap!NeverDowngraded

LEMMA RestartInv == PairInv /\ Hap!Restart => PairInv'
  <1> SUFFICES ASSUME PairInv, Hap!Restart PROVE PairInv'
    OBVIOUS
  <1>1. PICK opens \in BOOLEAN, edited \in BOOLEAN :
            /\ hMemory' = [ident |-> IF opens THEN hDisk.ident ELSE 0,
                           pairing |-> IF edited /\ hDisk.pairing # None THEN Damaged ELSE hDisk.pairing]
            /\ hLost' = IF hMemory'.ident # hMemory.ident THEN hLost + 1 ELSE hLost
            /\ hOwed' = IF hMemory'.pairing = hOwed THEN hOwed ELSE None
    BY DEF Hap!Restart
  <1>2. /\ hDisk' = hMemory' /\ hLink' = Hap!Idle /\ hLink'.kind = "idle" /\ hChannel' = Hap!NoChannel /\ hOutcome' = "none"
        /\ UNCHANGED <<hMinted, hDev, hAt>>
    BY DEF Hap!Restart, Hap!Idle
  <1>3. hMemory' \in [ident : Nat, pairing : Owed \cup {Damaged}] /\ hMemory'.ident \in {0, hMemory.ident}
    BY <1>1 DEF PairInv, PairingTypes, Accessory, IdentInv
  <1>4. PairingTypes'
    BY <1>1, <1>2, <1>3 DEF PairInv, PairingTypes, Exchanges, Outcomes, Owed
  <1>5. IdentInv'
    BY <1>1, <1>2, <1>3 DEF PairInv, PairingTypes, IdentInv, HapIdents
  <1>6. OwedInv'
    BY <1>1, <1>2 DEF PairInv, OwedInv, Hap!Knows
  <1> QED BY <1>2, <1>4, <1>5, <1>6 DEF PairInv, VerifyInv, Hap!NeverDowngraded

LEMMA PairNextInv == PairInv /\ [Hap!Next]_(Hap!vars) => PairInv'
  <1> SUFFICES ASSUME PairInv, [Hap!Next]_(Hap!vars) PROVE PairInv'
    OBVIOUS
  <1>1. CASE UNCHANGED Hap!vars
    BY <1>1 DEF Hap!vars, PairInv, PairingTypes, HapIdents, IdentInv, OwedInv, Hap!Knows, VerifyInv,
       Hap!NeverDowngraded
  <1>2. CASE Hap!Next
    BY <1>2, ConnectInv, TransientM1Inv, TransientM3Inv, VerifyM1Inv, VerifyM3Inv, ShowPinInv, TypePinInv,
       NoPinInv,
       SetupM1Inv, SetupM3Inv, SetupM5Inv, ForgetInv, AddressMovesInv, RestartInv, DeviceChangesInv DEF Hap!Next
  <1> QED BY <1>1, <1>2

LEMMA HapCardinality == \A S : Hap!Cardinality(S) = Cardinality(S)
  BY Zenon DEF Hap!Cardinality, Cardinality

\* One place in a device's list for each identity made.
LEMMA OnePlaceEach == PairInv => Hap!OnePlace
  <1> SUFFICES ASSUME PairInv, NEW d \in Hap!Devices PROVE Hap!Cardinality(hDev[d].peers) <= 1 + hLost
    BY DEF Hap!OnePlace
  <1> DEFINE peers == hDev[d].peers
             ctl == [p \in peers |-> p.ctl]
  <1>1. \A p \in peers : p \in Listing /\ p.ctl \in HapIdents /\ p.ltpk = p.ctl
    BY DEF PairInv, PairingTypes, Accessory, IdentInv
  <1>2. \A p, q \in peers : p.ctl = q.ctl => p = q
    BY <1>1 DEF Listing
  <1>3. ctl \in Injection(peers, HapIdents)
    BY <1>1, <1>2 DEF Injection, IsInjective
  <1>4. hMinted \in Nat /\ hLost \in Nat /\ hMinted <= 1 + hLost
    BY DEF PairInv, PairingTypes, Accessory, IdentInv
  <1>5. IsFiniteSet(HapIdents) /\ Cardinality(HapIdents) = hMinted
    BY <1>4, FS_Interval DEF HapIdents
  <1>6. IsFiniteSet(peers) /\ Cardinality(peers) <= hMinted
    BY <1>3, <1>5, FS_Injection
  <1>7. Cardinality(peers) \in Nat
    BY <1>6, FS_CardinalityType
  <1> QED BY <1>4, <1>6, <1>7, HapCardinality

LEMMA PairInvKeeps == PairInv => Hap!PairingKept
  <1> SUFFICES ASSUME PairInv PROVE Hap!PairingKept
    OBVIOUS
  <1>1. Hap!PairingHolds
    BY DEF PairInv, OwedInv, Hap!PairingHolds
  <1>2. Hap!RightPinPairs
    BY DEF PairInv, PairingTypes, Outcomes, Hap!RightPinPairs
  <1> QED BY <1>1, <1>2, OnePlaceEach DEF PairInv, Hap!PairingKept

\* For any number of ceremonies and upsets: a stored pairing is one its receiver
\* keeps, nothing else is connected to, the right PIN pairs, and pairing again
\* takes no second place (airplay/hap_pairing.rs, srp.rs).
THEOREM PairingsAreKept == Hap!Spec => []Hap!PairingKept
  BY PairInitInv, PairNextInv, PairInvKeeps, PTL DEF Hap!Spec

-----------------------------------------------------------------------------
(* Sonos: a topology read was some room's, of units at addresses they had    *)
(* (ScanInv, HouseholdInv), and what is remembered of a unit is what it can  *)
(* have said of itself (MemoryInv).                                          *)

Views == [coord : Zones!Topologies, loc : [Rooms -> Zones!UnitAddrs]]

\* Each room knows its own place, and no address it is yet to have.
HouseholdInv ==
    /\ zCoord \in Zones!Topologies /\ zAt \in [Rooms -> Zones!UnitAddrs]
    /\ zView \in [Rooms -> Views]
    /\ \A r \in Rooms : zView[r].coord[r] = zCoord[r] /\ \A x \in Rooms : zView[r].loc[x] <= zAt[x]
    /\ \A r \in Rooms \ zGrouped : zCoord[r] = r

\* What a unit can have said of itself.
Said(u) ==
    IF u \in Subs THEN {"Hidden"} ELSE IF u \in Rooms \ zGrouped THEN {"Listed"} ELSE {"Hidden", "Listed"}

MemoryInv ==
    /\ DOMAIN zMemory = Zones!Keys
    /\ \A k \in Zones!Keys : zMemory[k] # None =>
          zMemory[k] \in [report : {"Hidden", "Listed"}, age : Nat] /\ zMemory[k].report \in Said(k[1])

\* A scan read a topology that was somebody's, of units at addresses they had.
ScanInv ==
    /\ zScan.step \in {"idle", "ask", "apply"}
    /\ zScan.step # "idle" =>
          /\ zScan.units \subseteq Zones!Keys /\ zScan.topology \in Views
          /\ \A k \in zScan.units :
                zScan.topology.loc[Zones!RoomOf(k[1])] <= k[2] /\ k[2] <= zAt[Zones!RoomOf(k[1])]
    /\ zScan.step = "ask" =>
          /\ zScan.source \in zScan.units
          /\ zScan.source[1] \in Rooms \ zGrouped =>
                zScan.topology.coord[zScan.source[1]] = zScan.source[1]
    /\ zScan.step = "apply" =>
          \A k \in Zones!Doubted(zScan) : zScan.reports[k] \in {None} \cup Said(k[1])

ZonesInv == HouseholdInv /\ MemoryInv /\ ScanInv

LEMMA ZonesAssumption ==
    /\ Rooms \cap Subs = {} /\ \A u \in Subs : BondedTo(u) \in Rooms
    /\ None \notin Zones!Keys /\ None # "Hidden" /\ None # "Listed"
  BY ServiceConstants DEF Zones!ConstantsOK

LEMMA RoomOfUnit == \A k \in Zones!Keys :
    /\ k = <<k[1], k[2]>> /\ k[1] \in Zones!Units /\ k[2] \in Zones!UnitAddrs
    /\ Zones!RoomOf(k[1]) \in Rooms /\ (k[1] \in Rooms => Zones!RoomOf(k[1]) = k[1])
  BY ZonesAssumption DEF Zones!Keys, Zones!Units, Zones!RoomOf

LEMMA ZonesInitInv == Zones!Init => ZonesInv
  <1> SUFFICES ASSUME Zones!Init PROVE ZonesInv
    OBVIOUS
  <1>1. PICK known \in [Rooms -> Zones!Topologies] :
          /\ \A r \in Rooms : known[r][r] = zCoord[r]
          /\ zView = [r \in Rooms |-> [coord |-> known[r], loc |-> zAt]]
    BY DEF Zones!Init
  <1>2. zAt \in [Rooms -> Zones!UnitAddrs] /\ zCoord \in Zones!Topologies
    BY DEF Zones!Init, Zones!UnitAddrs
  <1>3. zView \in [Rooms -> Views]
    BY <1>1, <1>2 DEF Views
  <1>4. \A r \in Rooms : zView[r].coord = known[r] /\ zView[r].loc = zAt
    BY <1>1
  <1>5. \A r \in Rooms : zView[r].coord[r] = zCoord[r] /\ \A x \in Rooms : zView[r].loc[x] <= zAt[x]
    BY <1>1, <1>2, <1>4 DEF Zones!UnitAddrs
  <1>6. \A r \in Rooms \ zGrouped : zCoord[r] = r
    BY DEF Zones!Init
  <1>7. HouseholdInv
    BY <1>2, <1>3, <1>5, <1>6 DEF HouseholdInv
  <1>8. MemoryInv /\ ScanInv
    BY DEF Zones!Init, Zones!Idle, MemoryInv, ScanInv
  <1> QED BY <1>7, <1>8 DEF ZonesInv

\* A room grouped more often can have said more.
LEMMA SaidGrows == ASSUME zGrouped \subseteq zGrouped' PROVE \A u : Said(u) \subseteq Said(u)'
  BY DEF Said

\* What the household does leaves the memory and the scan true, if addresses only grow.
LEMMA HouseholdMoves ==
    ASSUME ZonesInv, UNCHANGED <<zScan, zMemory>>, zGrouped \subseteq zGrouped', HouseholdInv',
           \A r \in Rooms : zAt[r] <= zAt'[r]
    PROVE  ZonesInv'
  <1>1. MemoryInv'
    BY SaidGrows, RoomOfUnit DEF ZonesInv, MemoryInv
  <1>2. ScanInv'
    <2>1. zScan.step # "idle" => \A k \in zScan.units :
             zScan.topology.loc[Zones!RoomOf(k[1])] <= k[2] /\ k[2] <= zAt'[Zones!RoomOf(k[1])]
      <3> SUFFICES ASSUME zScan.step # "idle", NEW k \in zScan.units
                   PROVE k[2] <= zAt'[Zones!RoomOf(k[1])]
        BY DEF ZonesInv, ScanInv
      <3>1. k \in Zones!Keys /\ k[2] <= zAt[Zones!RoomOf(k[1])]
        BY DEF ZonesInv, ScanInv
      <3>2. Zones!RoomOf(k[1]) \in Rooms /\ k[2] \in Nat
        BY <3>1, RoomOfUnit DEF Zones!UnitAddrs
      <3>3. zAt[Zones!RoomOf(k[1])] \in Nat /\ zAt'[Zones!RoomOf(k[1])] \in Nat
        BY <3>2 DEF ZonesInv, HouseholdInv, Zones!UnitAddrs
      <3> QED BY <3>1, <3>2, <3>3
    <2>2. zScan.step = "apply" => \A k \in Zones!Doubted(zScan) : zScan.reports[k] \in {None} \cup Said(k[1])'
      BY SaidGrows DEF ZonesInv, ScanInv
    <2> QED BY <2>1, <2>2 DEF ZonesInv, ScanInv, Zones!Doubted, Zones!Standing
  <1> QED BY <1>1, <1>2 DEF ZonesInv

LEMMA RegroupInv == ASSUME ZonesInv, Zones!Regroup PROVE ZonesInv'
  <1>1. zCoord' \in Zones!Topologies /\ zAt' = zAt /\ UNCHANGED <<zScan, zMemory>>
        /\ zGrouped' = zGrouped \cup {r \in Rooms : zCoord'[r] # r}
        /\ zView' = [r \in Rooms |-> IF zCoord'[r] # zCoord[r] THEN [coord |-> zCoord', loc |-> zAt'] ELSE zView[r]]
    BY DEF Zones!Regroup, Zones!Now
  <1>2. zAt \in [Rooms -> Zones!UnitAddrs] /\ zView \in [Rooms -> Views]
    BY DEF ZonesInv, HouseholdInv
  <1>3. zView' \in [Rooms -> Views]
    BY <1>1, <1>2 DEF Views
  <1>4. \A r \in Rooms : zView'[r].coord[r] = zCoord'[r] /\ \A x \in Rooms : zView'[r].loc[x] <= zAt'[x]
    BY <1>1, <1>2 DEF ZonesInv, HouseholdInv, Zones!UnitAddrs
  <1>5. HouseholdInv'
    BY <1>1, <1>2, <1>3, <1>4 DEF HouseholdInv
  <1> QED BY <1>1, <1>2, <1>5, HouseholdMoves DEF Zones!UnitAddrs

LEMMA ReaddressedInv == ASSUME ZonesInv, NEW r \in Rooms, Zones!Readdressed(r) PROVE ZonesInv'
  <1>1. /\ zAt[r] = 1 /\ zAt' = [zAt EXCEPT ![r] = 2] /\ zView' = [zView EXCEPT ![r].loc[r] = 2]
        /\ UNCHANGED <<zCoord, zScan, zMemory, zGrouped>>
    BY DEF Zones!Readdressed
  <1>2. zAt \in [Rooms -> Zones!UnitAddrs] /\ zView \in [Rooms -> Views]
    BY DEF ZonesInv, HouseholdInv
  <1>3. zAt' \in [Rooms -> Zones!UnitAddrs]
    BY <1>1, <1>2 DEF Zones!UnitAddrs
  <1>4. zView' \in [Rooms -> Views]
    BY <1>1, <1>2 DEF Views, Zones!UnitAddrs
  <1>5. \A s \in Rooms : zView'[s].coord[s] = zCoord'[s] /\ \A x \in Rooms : zView'[s].loc[x] <= zAt'[x]
    <2> SUFFICES ASSUME NEW s \in Rooms PROVE zView'[s].coord[s] = zCoord'[s] /\ \A x \in Rooms : zView'[s].loc[x] <= zAt'[x]
      OBVIOUS
    <2>1. zView[s].coord[s] = zCoord[s] /\ \A x \in Rooms : zView[s].loc[x] <= zAt[x]
      BY DEF ZonesInv, HouseholdInv
    <2>2. zView'[s].coord = zView[s].coord
      BY <1>1, <1>2 DEF Views
    <2>3. zView[s].loc \in [Rooms -> Zones!UnitAddrs] /\ zView'[s].loc \in [Rooms -> Zones!UnitAddrs]
      BY <1>2, <1>4 DEF Views
    <2>4. \A x \in Rooms : x # r => zView'[s].loc[x] = zView[s].loc[x] /\ zAt'[x] = zAt[x]
      BY <1>1, <1>2, <2>3 DEF Views
    <2>5. \A x \in Rooms : x # r => zView'[s].loc[x] <= zAt'[x]
      BY <2>1, <2>4
    <2>6. zView'[s].loc[r] <= zAt'[r]
      BY <1>1, <1>2, <2>3 DEF Zones!UnitAddrs
    <2> QED BY <1>1, <2>1, <2>2, <2>5, <2>6
  <1>6. HouseholdInv'
    BY <1>1, <1>3, <1>4, <1>5 DEF HouseholdInv, ZonesInv
  <1>7. \A x \in Rooms : zAt[x] <= zAt'[x]
    BY <1>1, <1>2 DEF Zones!UnitAddrs
  <1> QED BY <1>1, <1>6, <1>7, HouseholdMoves

LEMMA LearnsInv == ASSUME ZonesInv, NEW r \in Rooms, Zones!Learns(r) PROVE ZonesInv'
  <1>1. /\ zView' = [zView EXCEPT ![r] = [coord |-> zCoord, loc |-> zAt]]
        /\ UNCHANGED <<zCoord, zAt, zScan, zMemory, zGrouped>>
    BY DEF Zones!Learns
  <1>2. zAt \in [Rooms -> Zones!UnitAddrs] /\ zView \in [Rooms -> Views] /\ zCoord \in Zones!Topologies
    BY DEF ZonesInv, HouseholdInv
  <1>3. zView' \in [Rooms -> Views]
    BY <1>1, <1>2 DEF Views
  <1>4. \A s \in Rooms : zView'[s].coord[s] = zCoord'[s] /\ \A x \in Rooms : zView'[s].loc[x] <= zAt'[x]
    BY <1>1, <1>2 DEF ZonesInv, HouseholdInv, Zones!UnitAddrs
  <1>5. HouseholdInv'
    BY <1>1, <1>3, <1>4 DEF HouseholdInv, ZonesInv
  <1> QED BY <1>1, <1>2, <1>5, HouseholdMoves DEF Zones!UnitAddrs

LEMMA ScanReadsInv == ASSUME ZonesInv, Zones!ScanReads PROVE ZonesInv'
  <1>1. PICK units \in SUBSET {Zones!Key(u) : u \in Zones!Units}, source \in Zones!Units :
          /\ Zones!Key(source) \in units
          /\ zScan' = [step |-> "ask", units |-> units, source |-> Zones!Key(source),
                       topology |-> zView[Zones!RoomOf(source)]]
    BY DEF Zones!ScanReads
  <1>2. UNCHANGED <<zCoord, zAt, zView, zGrouped, zMemory>>
    BY DEF Zones!ScanReads, Zones!household
  <1>3. HouseholdInv' /\ MemoryInv'
    BY <1>2 DEF ZonesInv, HouseholdInv, MemoryInv, Said
  <1>4. \A u \in Zones!Units : Zones!RoomOf(u) \in Rooms
    BY ZonesAssumption DEF Zones!Units, Zones!RoomOf
  <1>5. \A u \in Zones!Units : Zones!Key(u) \in Zones!Keys /\ Zones!Key(u)[1] = u /\ Zones!Key(u)[2] = zAt[Zones!RoomOf(u)]
    BY <1>4 DEF Zones!Key, Zones!Keys, ZonesInv, HouseholdInv
  <1> DEFINE room == Zones!RoomOf(source)
  <1>6. room \in Rooms /\ zView[room] \in Views /\ \A x \in Rooms : zView[room].loc[x] <= zAt[x]
    BY <1>4 DEF ZonesInv, HouseholdInv
  <1>7. \A k \in units : k \in Zones!Keys /\ k[2] = zAt[Zones!RoomOf(k[1])] /\ k[2] \in Zones!UnitAddrs
                         /\ Zones!RoomOf(k[1]) \in Rooms
    BY <1>4, <1>5, RoomOfUnit
  <1>8. \A k \in units : zView[room].loc[Zones!RoomOf(k[1])] <= k[2] /\ k[2] <= zAt'[Zones!RoomOf(k[1])]
    BY <1>2, <1>6, <1>7 DEF Zones!UnitAddrs
  <1>9. source \in Rooms \ zGrouped => zView[room].coord[source] = source
    BY RoomOfUnit, <1>5 DEF ZonesInv, HouseholdInv
  <1> HIDE DEF room
  <1>10. zScan'.step = "ask" /\ zScan'.units = units /\ zScan'.topology = zView[room] /\ zScan'.source = Zones!Key(source)
    BY <1>1 DEF room
  <1>11. ScanInv'
    BY <1>1, <1>2, <1>5, <1>6, <1>7, <1>8, <1>9, <1>10 DEF ScanInv
  <1> QED BY <1>3, <1>11 DEF ZonesInv

LEMMA ScanAsksInv == ASSUME ZonesInv, Zones!ScanAsks PROVE ZonesInv'
  <1> DEFINE own(k) == IF k = zScan.source THEN zScan.topology ELSE zView[Zones!RoomOf(k[1])]
  <1>1. PICK silent \in SUBSET (Zones!Doubted(zScan) \ {zScan.source}) :
          zScan' = [step |-> "apply", units |-> zScan.units, topology |-> zScan.topology,
                    reports |-> [k \in Zones!Doubted(zScan) |->
                        IF k \in silent THEN None ELSE Zones!Standing(own(k), k[1])]]
    BY DEF Zones!ScanAsks
  <1>2. zScan.step = "ask" /\ UNCHANGED <<zCoord, zAt, zView, zGrouped, zMemory>>
    BY DEF Zones!ScanAsks, Zones!household
  <1>3. HouseholdInv' /\ MemoryInv'
    BY <1>2 DEF ZonesInv, HouseholdInv, MemoryInv, Said
  <1>4. zScan'.step = "apply" /\ zScan'.units = zScan.units /\ zScan'.topology = zScan.topology
        /\ \A k \in Zones!Doubted(zScan) :
              zScan'.reports[k] = IF k \in silent THEN None ELSE Zones!Standing(own(k), k[1])
    BY <1>1
  <1>5. Zones!Doubted(zScan') = Zones!Doubted(zScan)
    BY <1>4 DEF Zones!Doubted
  <1>6. \A k \in Zones!Doubted(zScan) : Zones!Standing(own(k), k[1]) \in Said(k[1])
    <2> SUFFICES ASSUME NEW k \in Zones!Doubted(zScan) PROVE Zones!Standing(own(k), k[1]) \in Said(k[1])
      OBVIOUS
    <2>1. k \in Zones!Keys
      BY <1>2 DEF ZonesInv, ScanInv, Zones!Doubted
    <2>2. CASE k[1] \in Subs
      BY <2>2 DEF Said, Zones!Standing
    <2>3. CASE k[1] \notin Subs
      <3>1. k[1] \in Rooms /\ Zones!RoomOf(k[1]) = k[1]
        BY <2>1, <2>3, RoomOfUnit DEF Zones!Units
      <3>2. k[1] \notin zGrouped => own(k).coord[k[1]] = k[1]
        BY <1>2, <3>1 DEF ZonesInv, ScanInv, HouseholdInv
      <3> HIDE DEF own
      <3> QED BY <2>3, <3>1, <3>2 DEF Said, Zones!Standing
    <2> QED BY <2>2, <2>3
  <1> HIDE DEF own
  <1>7. \A k \in Zones!Doubted(zScan)' : zScan'.reports[k] \in {None} \cup Said(k[1])'
    BY <1>2, <1>4, <1>5, <1>6 DEF Said
  <1>8. ScanInv'
    BY <1>2, <1>4, <1>7 DEF ZonesInv, ScanInv
  <1> QED BY <1>3, <1>8 DEF ZonesInv

LEMMA ScanAppliesInv == ASSUME ZonesInv, Zones!ScanApplies PROVE ZonesInv'
  <1>1. /\ zScan.step = "apply" /\ zScan' = Zones!Idle /\ UNCHANGED <<zCoord, zAt, zView, zGrouped>>
        /\ zMemory' = Zones!Remembered(zScan)
    BY DEF Zones!ScanApplies, Zones!household
  <1>2. HouseholdInv' /\ ScanInv'
    BY <1>1 DEF ZonesInv, HouseholdInv, ScanInv, Zones!Idle
  <1>3. MemoryInv'
    <2>1. DOMAIN zMemory' = Zones!Keys
      BY <1>1 DEF Zones!Remembered
    <2> SUFFICES ASSUME NEW k \in Zones!Keys, zMemory'[k] # None
                 PROVE zMemory'[k] \in [report : {"Hidden", "Listed"}, age : Nat] /\ zMemory'[k].report \in Said(k[1])
      BY <1>1, <2>1 DEF MemoryInv, Said
    <2> DEFINE entry == IF zMemory[k] # None /\ k \in zScan.units THEN [zMemory[k] EXCEPT !.age = 0]
                        ELSE IF zMemory[k] # None THEN [zMemory[k] EXCEPT !.age = @ + 1] ELSE None
    <2>2. entry # None => zMemory[k] # None
      BY DEF entry
    <2>3. entry # None => entry \in [report : {"Hidden", "Listed"}, age : Nat] /\ entry.report = zMemory[k].report
      BY <2>2 DEF ZonesInv, MemoryInv
    <2>4. zMemory'[k] = IF k \in Zones!Doubted(zScan) /\ zScan.reports[k] # None
                        THEN [report |-> zScan.reports[k], age |-> 0]
                        ELSE IF entry # None /\ entry.age < RememberedScans THEN entry ELSE None
      BY <1>1 DEF Zones!Remembered
    <2>5. CASE k \in Zones!Doubted(zScan) /\ zScan.reports[k] # None
      BY <1>1, <2>4, <2>5 DEF ZonesInv, ScanInv, Said
    <2>6. CASE ~(k \in Zones!Doubted(zScan) /\ zScan.reports[k] # None)
      <3> HIDE DEF entry
      <3>1. zMemory'[k] = entry /\ entry # None
        BY <2>4, <2>6
      <3> QED BY <3>1, <2>2, <2>3 DEF ZonesInv, MemoryInv
    <2> QED BY <2>5, <2>6
  <1> QED BY <1>2, <1>3 DEF ZonesInv

LEMMA ZonesNextInv == ZonesInv /\ [Zones!Next]_(Zones!vars) => ZonesInv'
  <1> SUFFICES ASSUME ZonesInv, [Zones!Next]_(Zones!vars) PROVE ZonesInv'
    OBVIOUS
  <1>1. CASE UNCHANGED Zones!vars
    BY <1>1 DEF ZonesInv, HouseholdInv, MemoryInv, ScanInv, Said, Zones!vars
  <1>2. CASE Zones!NetworkChanges
    BY <1>2 DEF ZonesInv, HouseholdInv, MemoryInv, ScanInv, Said, Zones!NetworkChanges
  <1> QED BY <1>1, <1>2, RegroupInv, ReaddressedInv, LearnsInv, ScanReadsInv, ScanAsksInv,
             ScanAppliesInv DEF Zones!Next

LEMMA OwnWord == ZonesInv => Zones!OwnWordOnly /\ Zones!NoFlicker
  <1> SUFFICES ASSUME ZonesInv, zScan.step = "apply", NEW k \in zScan.units
      PROVE /\ k[1] \in Rooms \ zGrouped => k \in Zones!Listed(zScan)
            /\ k[1] \in Subs /\ zMemory[k] # None => k \notin Zones!Listed(zScan)
    BY DEF Zones!OwnWordOnly, Zones!NoFlicker
  <1>1. k \in Zones!Keys /\ (k \in Zones!Doubted(zScan) => zScan.reports[k] \in {None} \cup Said(k[1]))
    BY DEF ZonesInv, ScanInv
  <1>2. zMemory[k] # None => zMemory[k].report \in Said(k[1])
    BY <1>1 DEF ZonesInv, MemoryInv
  <1>3. CASE k[1] \in Rooms \ zGrouped
    <2>1. k[1] \notin Subs /\ Said(k[1]) = {"Listed"}
      BY <1>3, ZonesAssumption DEF Said
    <2>2. k \in Zones!Doubted(zScan) => Zones!Word(zScan, k) # "Hidden"
      BY <1>1, <1>2, <2>1, ZonesAssumption DEF Zones!Word
    <2> QED BY <2>1, <2>2 DEF Zones!Listed, Zones!HiddenOf
  <1>4. CASE k[1] \in Subs
    <2>1. k[1] \notin Rooms /\ Said(k[1]) = {"Hidden"} /\ k \in Zones!Doubted(zScan)
      BY <1>4, ZonesAssumption DEF Said, Zones!Doubted, Zones!Standing
    <2>2. zMemory[k] # None => Zones!Word(zScan, k) = "Hidden"
      BY <1>1, <1>2, <2>1 DEF Zones!Word
    <2> QED BY <2>1, <2>2 DEF Zones!Listed, Zones!HiddenOf
  <1> QED BY <1>3, <1>4

LEMMA Reachable == ZonesInv => Zones!GroupReachable
  <1> SUFFICES ASSUME ZonesInv, zScan.step = "apply", NEW k \in Zones!HiddenOf(zScan),
                      zScan.topology = [coord |-> zCoord, loc |-> zAt]
      PROVE LET c == zCoord[Zones!RoomOf(k[1])]
            IN  <<c, zAt[c]>> \in Zones!Listed(zScan) \cup Zones!Described(zScan)
    BY DEF Zones!GroupReachable
  <1> DEFINE c == zCoord[Zones!RoomOf(k[1])]
  <1>1. k \in zScan.units /\ k \in Zones!Keys /\ Zones!RoomOf(k[1]) \in Rooms
    BY RoomOfUnit DEF ZonesInv, ScanInv, Zones!HiddenOf, Zones!Doubted
  <1>2. c \in Rooms /\ zCoord[c] = c
    BY <1>1 DEF ZonesInv, HouseholdInv, Zones!Topologies
  <1>3. zScan.topology.coord = zCoord /\ zScan.topology.loc = zAt /\ c \notin Subs
    BY <1>2, ZonesAssumption
  <1>4. CASE c \in {x[1] : x \in zScan.units}
    <2>1. PICK x \in zScan.units : x[1] = c
      BY <1>4
    <2>2. x \in Zones!Keys /\ Zones!RoomOf(c) = c /\ x = <<c, x[2]>> /\ x[2] \in Zones!UnitAddrs
      BY <1>2, <2>1, RoomOfUnit DEF ZonesInv, ScanInv
    <2>3. zAt[c] <= x[2] /\ x[2] <= zAt[c]
      BY <1>3, <2>1, <2>2 DEF ZonesInv, ScanInv
    <2>4. zAt[c] \in Zones!UnitAddrs
      BY <1>2 DEF ZonesInv, HouseholdInv
    <2>5. x = <<c, zAt[c]>>
      BY <2>2, <2>3, <2>4 DEF Zones!UnitAddrs
    <2>6. x \notin Zones!Doubted(zScan)
      BY <1>2, <1>3, <2>1 DEF Zones!Doubted, Zones!Standing
    <2> QED BY <2>5, <2>6 DEF Zones!Listed, Zones!HiddenOf
  <1>5. CASE c \notin {x[1] : x \in zScan.units}
    <2>1. c \in Zones!Missed(zScan)
      BY <1>1, <1>2, <1>3, <1>5 DEF Zones!Missed
    <2> QED BY <1>3, <2>1 DEF Zones!Described
  <1> QED BY <1>4, <1>5

LEMMA Coordinates == ZonesInv => Zones!TargetCoordinates
  <1> SUFFICES ASSUME ZonesInv, NEW k \in Zones!Keys, NEW other \in Zones!Keys,
                      k = Zones!Key(k[1]),
                      zView[Zones!RoomOf(k[1])].loc[zCoord[Zones!RoomOf(k[1])]] = zAt[zCoord[Zones!RoomOf(k[1])]]
      PROVE Zones!Target({k, other}, k) = <<zCoord[Zones!RoomOf(k[1])], zAt[zCoord[Zones!RoomOf(k[1])]]>>
    BY DEF Zones!TargetCoordinates
  <1> DEFINE r == Zones!RoomOf(k[1])
             c == zCoord[r]
             v == Zones!Verified({k, other}, c, zAt[c])
  <1>1. r \in Rooms /\ c \in Rooms
    BY RoomOfUnit DEF ZonesInv, HouseholdInv, Zones!Topologies
  <1>2. zView[r].coord[r] = c /\ zView[r].loc[c] = zAt[c]
    BY <1>1 DEF ZonesInv, HouseholdInv
  <1>3. <<c, zAt[c]>> \in Zones!Keys
    BY <1>1 DEF ZonesInv, HouseholdInv, Zones!Keys, Zones!Units
  <1>4. v = <<c, zAt[c]>> /\ v # None
    BY <1>3, ZonesAssumption DEF Zones!Verified
  <1>5. c = k[1] => k = <<c, zAt[c]>>
    BY <1>1, RoomOfUnit DEF Zones!Key
  <1> HIDE DEF v
  <1>6. Zones!Target({k, other}, k) = IF k # Zones!Key(k[1]) \/ c = k[1] \/ v = None THEN k ELSE v
    BY <1>2 DEF Zones!Target, v
  <1> QED BY <1>4, <1>5, <1>6

\* For any rooms, bonded units and addresses: a unit is hidden on its own word
\* only, and what is streamed to is its group's coordinator (sonos.rs).
THEOREM ZonesAreTrue == Zones!Spec => []SonosTrue
  <1>1. ZonesInv => SonosTrue
    BY OwnWord, Reachable, Coordinates DEF SonosTrue, Zones!SonosTrue
  <1> QED BY <1>1, ZonesInitInv, ZonesNextInv, PTL DEF Zones!Spec

-----------------------------------------------------------------------------
(* The parts together: each is in its own scene, so the service's runs are   *)
(* runs of every part.                                                       *)

SceneVars == <<scene, vars, fVars, lVars, kVars, uVars, rVars, hVars, zVars>>

LEMMA EachItsOwn == MCSpec => Spec /\ Settings!Spec /\ Upnp!Spec /\ Receivers!Spec /\ Hap!Spec /\ Zones!Spec
  <1>1. MCInit => Init /\ Settings!Init /\ Upnp!Init /\ Receivers!Init /\ Hap!Init /\ Zones!Init
    BY DEF MCInit
  <1>2. [MCNext]_SceneVars =>
          /\ [Next]_vars /\ [Settings!Next]_(Settings!vars) /\ [Upnp!Next]_(Upnp!vars)
          /\ [Receivers!Next]_(Receivers!vars) /\ [Hap!Next]_(Hap!vars) /\ [Zones!Next]_(Zones!vars)
    BY DEF MCNext, SceneVars, vars, fVars, uVars, rVars, hVars, zVars,
           Settings!vars, Upnp!vars, Receivers!vars, Hap!vars, Zones!vars
  <1> QED BY <1>1, <1>2, PTL DEF MCSpec, Spec, Settings!Spec, Upnp!Spec, Receivers!Spec, Hap!Spec,
             Zones!Spec, SceneVars

\* A group's HomePods are one choice and a pairing made is kept (airplay/mod.rs).
THEOREM AirPlayIsTrue == Receivers!Spec /\ Hap!Spec => []AirPlayTrue
  <1>1. Receivers!PairsWhole /\ Hap!PairingKept => AirPlayTrue
    BY DEF AirPlayTrue
  <1> QED BY <1>1, PairsAreWhole, PairingsAreKept, PTL

\* What the service keeps for the user and lists of the network stays true: its
\* secrets, its settings, its UPnP list, its AirPlay groups and pairing and its
\* Sonos rooms.
THEOREM ServiceIsTrue ==
    MCSpec => [](SecretsKept /\ SettingsKept /\ UpnpListTrue /\ AirPlayTrue /\ SonosTrue)
  BY EachItsOwn, SecretsAreKept, SettingsAreKept, UpnpListIsTrue, AirPlayIsTrue, ZonesAreTrue, PTL
=============================================================================
